---------------------------- MODULE ModuleLoader ----------------------------
(***************************************************************************)
(* modules/internal/loader.js and internalLoader.js, with the functions of *)
(* gjs/module.cpp that call them: the registry of ES modules, which static *)
(* imports, import() and the embedding program all fill.  JavaScript runs  *)
(* to completion; others get in where moduleResolveAsyncHook() awaits the  *)
(* text of a module, and between the reactions to the promise it returned. *)
(***************************************************************************)
EXTENDS Integers, Sequences

CONSTANTS
    Uris,         \* module URIs, with their query
    Specs,        \* specifiers that are no URI: relative, bare, or an id
    NoUri,        \* what a specifier denotes that cannot be resolved
    Denotes,      \* [Specs -> Uris \cup {NoUri}]: what resolveSpecifier() makes of them
    Written,      \* specifiers as programs spell them
    Malformed,    \* what has no canonical spelling
    Canonical,    \* [Written -> Keys \cup {Malformed}]: canonicalize_specifier()
    Imports,      \* calls of import()
    MaxModules    \* bound: module objects

Keys == Specs \cup Uris

ASSUME LoaderAssumption ==
    /\ Specs \cap Uris = {}
    /\ NoUri \notin Uris
    /\ Malformed \notin Keys
    /\ Canonical \in [Written -> Keys \cup {Malformed}]
    /\ Denotes \in [Specs -> Uris \cup {NoUri}]
    /\ MaxModules \in Nat

VARIABLES
    modules,     \* the module objects compiled, in order
    registry,    \* getRegistry(): key -> module (its position in modules)
    imports      \* each import(): how far it has come

vars == <<modules, registry, imports>>

(* by: whether a resolve hook made it or moduleLoadHook().                  *)
Module == [key : Keys, by : {"resolve", "load"}]

(* unused; reading: awaits loadURIAsync(); read, unreadable: the await ends *)
(* and the rest of the hook is a job; ready: the hook's promise has its     *)
(* module and import_resolved is a job; evaluating: linked, waits for the   *)
(* evaluation promise; rejected: import_rejected is a job; done; failed;    *)
(* exited: System.exit() has terminated the module's code; lost: C++ has    *)
(* failed without an exception.                                             *)
ImportState == {"unused", "reading", "read", "unreadable", "ready", "evaluating",
                "rejected", "done", "failed", "exited", "lost"}
Import == [state : ImportState, spec : Keys \cup {NoUri}, module : 0..Len(modules)]

TypeOK ==
    /\ modules \in Seq(Module)
    /\ DOMAIN registry \subseteq Keys
    /\ \A k \in DOMAIN registry : registry[k] \in 1..Len(modules)
    /\ imports \in [Imports -> Import]

Init ==
    /\ modules = << >>
    /\ registry = << >>
    /\ imports = [i \in Imports |-> [state |-> "unused", spec |-> NoUri, module |-> 0]]

-----------------------------------------------------------------------------
(* resolveSpecifier().                                                      *)
UriOf(s) == IF s \in Uris THEN s ELSE Denotes[s]

MutantLookup(s) == IF s \in DOMAIN registry THEN registry[s] ELSE 0

(* Both resolve hooks look for the specifier as it is, then for its URI,    *)
(* before they load anything; 0: neither is there.                          *)
Lookup(s) ==
    CASE s \in DOMAIN registry -> registry[s]
      [] s \notin DOMAIN registry /\ UriOf(s) \in DOMAIN registry -> registry[UriOf(s)]
      [] OTHER -> 0

(* compileModule() and registry.set().                                      *)
Compile(key, by) ==
    /\ Len(modules) < MaxModules
    /\ modules' = Append(modules, [key |-> key, by |-> by])
    /\ registry' = [k \in DOMAIN registry \cup {key} |->
                       IF k = key THEN Len(modules) + 1 ELSE registry[k]]

Advance(i, state, m) ==
    imports' = [imports EXCEPT ![i].state = state, ![i].module = m]

(* moduleLoadHook(), for register_module(): the id is the URI in gjs-console *)
(* and whatever a program chooses elsewhere.  It does not ask the registry. *)
LoadHook(id) == Compile(id, "load") /\ UNCHANGED imports

(* gjs_module_resolve() and moduleResolveHook(), when SpiderMonkey links a  *)
(* module with this static import: what is there is used, what is not is    *)
(* loaded at once.  A text that cannot be read or compiled is an exception  *)
(* and changes nothing, nor does a malformed specifier, which is none.      *)
ResolveHook(w) ==
    LET s == Canonical[w] IN
    /\ s # Malformed
    /\ Lookup(s) = 0
    /\ UriOf(s) # NoUri
    /\ Compile(UriOf(s), "resolve")
    /\ UNCHANGED imports

CanBeMalformed == \E w \in Written : Canonical[w] = Malformed

-----------------------------------------------------------------------------
(* gjs_dynamic_module_resolve() and moduleResolveAsyncHook(), up to its     *)
(* await.  An async function rejects its promise instead of throwing.       *)
StartImport(i, w) ==
    LET s == Canonical[w] IN
    /\ imports[i].state = "unused"
    /\ s # Malformed
    /\ imports' = [imports EXCEPT ![i] =
            [spec |-> s, module |-> Lookup(s),
             state |-> CASE Lookup(s) # 0 -> "ready"
                         [] Lookup(s) = 0 /\ UriOf(s) = NoUri -> "rejected"
                         [] OTHER -> "reading"]]
    /\ UNCHANGED <<modules, registry>>

(* g_uri_split() refuses the specifier: gjs_dynamic_module_resolve()        *)
(* returns false and has no exception for the promise of the import().      *)
ImportMalformed(i, w) ==
    /\ imports[i].state = "unused"
    /\ Canonical[w] = Malformed
    /\ Advance(i, "lost", 0)
    /\ UNCHANGED <<modules, registry>>

(* loadResourceOrFileAsync() has the text, or an error; a scheme handler's  *)
(* promise is settled.                                                      *)
ReadDone(i) ==
    /\ imports[i].state = "reading"
    /\ \E state \in {"read", "unreadable"} : Advance(i, state, 0)
    /\ UNCHANGED <<modules, registry>>

MutantAwaitThrows(i) == imports[i].state = "unreadable" /\ UNCHANGED vars

AwaitThrows(i) ==
    /\ imports[i].state = "unreadable"
    /\ Advance(i, "rejected", 0)
    /\ UNCHANGED <<modules, registry>>

MutantLoadedMeanwhile(i) == imports[i].state = "unused"

(* After the await: the module may have been loaded meanwhile.              *)
LoadedMeanwhile(i) == UriOf(imports[i].spec) \in DOMAIN registry

ResumeFinds(i) ==
    /\ imports[i].state = "read"
    /\ LoadedMeanwhile(i)
    /\ Advance(i, "ready", registry[UriOf(imports[i].spec)])
    /\ UNCHANGED <<modules, registry>>

ResumeCompiles(i) ==
    /\ imports[i].state = "read"
    /\ ~LoadedMeanwhile(i)
    /\ Compile(UriOf(imports[i].spec), "resolve")
    /\ Advance(i, "ready", Len(modules) + 1)

(* The text is no module: a SyntaxError from compileModule().               *)
ResumeThrows(i) ==
    /\ imports[i].state = "read"
    /\ ~LoadedMeanwhile(i)
    /\ Advance(i, "rejected", 0)
    /\ UNCHANGED <<modules, registry>>

(* import_resolved(): links the module, which resolves its static imports,  *)
(* and starts its evaluation.  fail_import(), when either fails, answers    *)
(* with the exception; without one, because the code has called exit() or   *)
(* a static import is malformed, the import() is left as it is.             *)
ImportResolved(i) ==
    /\ imports[i].state = "ready"
    /\ \E state \in {"evaluating", "failed", "exited", "lost"} :
          /\ state = "lost" => CanBeMalformed
          /\ Advance(i, state, imports[i].module)
    /\ UNCHANGED <<modules, registry>>

(* import_rejected() answers with what the hook's promise was rejected with *)
(* as the exception.                                                        *)
ImportRejected(i) ==
    /\ imports[i].state = "rejected"
    /\ Advance(i, "failed", 0)
    /\ UNCHANGED <<modules, registry>>

(* JS::FinishDynamicModuleImport() waits for the evaluation promise, which  *)
(* stays pending if the module's code calls exit() after an await, and then *)
(* calls the resolve hook once more for the module to hand out.             *)
Finish(i) ==
    /\ imports[i].state = "evaluating"
    /\ \/ Advance(i, "done", Lookup(imports[i].spec))
       \/ \E state \in {"failed", "exited"} : Advance(i, state, imports[i].module)
    /\ UNCHANGED <<modules, registry>>

Step(i) ==
    \/ ReadDone(i)
    \/ AwaitThrows(i)
    \/ ResumeFinds(i)
    \/ ResumeCompiles(i)
    \/ ResumeThrows(i)
    \/ ImportResolved(i)
    \/ ImportRejected(i)
    \/ Finish(i)

Next ==
    \/ \E id \in Keys : LoadHook(id)
    \/ \E w \in Written : ResolveHook(w)
    \/ \E i \in Imports, w \in Written : StartImport(i, w) \/ ImportMalformed(i, w)
    \/ \E i \in Imports : Step(i)

Spec == Init /\ [][Next]_vars

(* GIO completes what it was asked to read and the job queue is drained     *)
(* (EventLoop); a module whose top-level await never ends is not modelled.  *)
FairSpec == Spec /\ \A i \in Imports : WF_vars(Step(i))

-----------------------------------------------------------------------------
(* However imports of a module overlap, the resolve hooks make one module   *)
(* object for its URI: a second one is moduleLoadHook()'s doing.  Two       *)
(* objects would run the module's code twice and share none of its state.   *)
OneModulePerKey ==
    \A m, n \in 1..Len(modules) :
        m < n /\ modules[m].key = modules[n].key => modules[n].by = "load"

Replaced(k) == modules'[registry'[k]].by = "load"

(* A key keeps its module; only moduleLoadHook() puts another in its place. *)
OnlyLoadsReplace ==
    [][\A k \in DOMAIN registry :
         /\ k \in DOMAIN registry'
         /\ registry'[k] = registry[k] \/ Replaced(k)]_vars

(* gjs_dynamic_module_resolve() says, of the resolve hook that is called at *)
(* the end of an import(): "The module will already have been resolved".    *)
(* From the moment the hook's promise has its module, a look in the         *)
(* registry finds it, unless the program has loaded the key anew; no second *)
(* load comes between the evaluation of a module and its namespace.         *)
AlreadyResolved ==
    \A i \in Imports :
        imports[i].state \in {"ready", "evaluating"} =>
            /\ Lookup(imports[i].spec) # 0
            /\ \/ Lookup(imports[i].spec) = imports[i].module
               \/ modules[Lookup(imports[i].spec)].by = "load"

Answered(i) == imports[i].state \in {"done", "failed"}

(* Every import() is answered, with a module or with an error, whichever of *)
(* its steps fails, unless the program exits in it or a specifier that it   *)
(* meets is malformed.                                                      *)
ImportsSettle ==
    \A i \in Imports :
        imports[i].state # "unused" ~> Answered(i) \/ imports[i].state \in {"exited", "lost"}

(* gjs_dynamic_module_resolve() and gjs_module_resolve() are declared       *)
(* GJS_JSAPI_RETURN_CONVENTION: what they fail with is an exception, which  *)
(* rejects the promise of the import(), or an uncatchable one.  So every    *)
(* import() is answered, but for an exit.                                   *)
FailuresAreExceptions ==
    \A i \in Imports :
        imports[i].state # "unused" ~> Answered(i) \/ imports[i].state = "exited"

=============================================================================
