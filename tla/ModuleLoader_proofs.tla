------------------------ MODULE ModuleLoader_proofs ------------------------
(***************************************************************************)
(* For any number of files, specifiers and import() calls: the registry    *)
(* leads every key to the newest module object of that key, the resolve    *)
(* hooks never make a second one, and an import() finds at its end what it *)
(* has evaluated.                                                          *)
(***************************************************************************)
EXTENDS ModuleLoader, SequenceTheorems, TLAPS

(* What the registry holds: a key's module has that key; every module's key *)
(* is there; only moduleLoadHook() registers an id that is no URI.          *)
RegistryLeads ==
    /\ \A k \in DOMAIN registry : modules[registry[k]].key = k
    /\ \A m \in 1..Len(modules) : modules[m].key \in DOMAIN registry
    /\ \A m \in 1..Len(modules) : modules[m].key \notin Uris => modules[m].by = "load"

(* What an import() waits for has a URI.                                    *)
ImportsHaveUris ==
    \A i \in Imports :
        /\ imports[i].state \notin {"unused", "lost"} => imports[i].spec \in Keys
        /\ imports[i].state \in {"reading", "read", "unreadable"} =>
              UriOf(imports[i].spec) \in Uris

RegistryInv == TypeOK /\ RegistryLeads /\ OneModulePerKey
LoaderInv == RegistryInv /\ ImportsHaveUris /\ AlreadyResolved

(* resolveSpecifier() gives a URI or nothing.                               *)
LEMMA UriOfType ==
    ASSUME NEW s \in Keys
    PROVE  UriOf(s) \in Uris \cup {NoUri} /\ (s \in Uris => UriOf(s) = s)
BY LoaderAssumption DEF Keys, UriOf

(* A specifier that can be canonicalized becomes one that can be looked up. *)
LEMMA CanonicalIsKey ==
    ASSUME NEW w \in Written
    PROVE  Canonical[w] # Malformed => Canonical[w] \in Keys
BY LoaderAssumption

(* A lookup that finds something finds it under the specifier or its URI.   *)
LEMMA LookupFinds ==
    ASSUME TypeOK, NEW s \in Keys
    PROVE  /\ Lookup(s) \in 0..Len(modules)
           /\ Lookup(s) = 0 <=> s \notin DOMAIN registry /\ UriOf(s) \notin DOMAIN registry
           /\ s \in DOMAIN registry => Lookup(s) = registry[s]
           /\ s \notin DOMAIN registry /\ UriOf(s) \in DOMAIN registry =>
                 Lookup(s) = registry[UriOf(s)]
<1>1. \A k \in DOMAIN registry : registry[k] \in 1..Len(modules)
    BY DEF TypeOK
<1>2. Len(modules) \in Nat
    BY LenProperties DEF TypeOK
<1>3. CASE s \in DOMAIN registry
    BY <1>1, <1>2, <1>3 DEF Lookup
<1>4. CASE s \notin DOMAIN registry /\ UriOf(s) \in DOMAIN registry
    BY <1>1, <1>2, <1>4 DEF Lookup
<1>5. CASE s \notin DOMAIN registry /\ UriOf(s) \notin DOMAIN registry
    BY <1>2, <1>5 DEF Lookup
<1> QED
    BY <1>3, <1>4, <1>5

(* compileModule() and registry.set() add one module at the end.            *)
LEMMA CompileAdds ==
    ASSUME TypeOK, NEW key \in Keys, NEW by \in {"resolve", "load"}, Compile(key, by)
    PROVE  /\ modules' \in Seq(Module)
           /\ Len(modules) \in Nat
           /\ Len(modules') = Len(modules) + 1
           /\ \A m \in 1..Len(modules) : modules'[m] = modules[m]
           /\ modules'[Len(modules) + 1] = [key |-> key, by |-> by]
           /\ DOMAIN registry' = DOMAIN registry \cup {key}
           /\ registry'[key] = Len(modules) + 1
           /\ \A k \in DOMAIN registry : k # key => registry'[k] = registry[k]
           /\ \A k \in DOMAIN registry' : registry'[k] \in 1..Len(modules')
<1> DEFINE new == [key |-> key, by |-> by]
<1>1. new \in Module /\ modules \in Seq(Module)
    BY DEF Module, TypeOK
<1>2. modules' = Append(modules, new)
    BY DEF Compile
<1>3. /\ modules' \in Seq(Module)
      /\ Len(modules) \in Nat
      /\ Len(modules') = Len(modules) + 1
      /\ \A m \in 1..Len(modules) : modules'[m] = modules[m]
      /\ modules'[Len(modules) + 1] = new
    <2> HIDE DEF new
    <2> QED
        BY <1>1, <1>2, AppendProperties, LenProperties
<1>4. registry' = [k \in DOMAIN registry \cup {key} |->
                      IF k = key THEN Len(modules) + 1 ELSE registry[k]]
    BY DEF Compile
<1>5. \A k \in DOMAIN registry : registry[k] \in 1..Len(modules)
    BY DEF TypeOK
<1> QED
    BY <1>3, <1>4, <1>5

(* A hook that asks the registry first keeps it as it should be; so does    *)
(* moduleLoadHook(), which does not ask but is allowed to replace.          *)
LEMMA CompileKeepsRegistry ==
    ASSUME RegistryInv, NEW key \in Keys, NEW by \in {"resolve", "load"}, Compile(key, by),
           by = "resolve" => key \in Uris \ DOMAIN registry
    PROVE  RegistryLeads' /\ OneModulePerKey'
<1>1. TypeOK /\ RegistryLeads /\ OneModulePerKey
    BY DEF RegistryInv
<1> DEFINE n == Len(modules) + 1
<1>2. /\ Len(modules) \in Nat
      /\ Len(modules') = n
      /\ \A m \in 1..Len(modules) : modules'[m] = modules[m]
      /\ modules'[n] = [key |-> key, by |-> by]
      /\ DOMAIN registry' = DOMAIN registry \cup {key}
      /\ registry'[key] = n
      /\ \A k \in DOMAIN registry : k # key => registry'[k] = registry[k]
    BY <1>1, CompileAdds
<1>3. \A k \in DOMAIN registry : registry[k] \in 1..Len(modules)
    BY <1>1 DEF TypeOK
<1> HIDE DEF n
<1>4. \A m \in 1..n : m \in 1..Len(modules) \/ m = n
    BY <1>2 DEF n
<1>5. n \notin 1..Len(modules) /\ \A m \in 1..n : ~(n < m)
    BY <1>2 DEF n
<1>6. RegistryLeads'
    <2>1. \A k \in DOMAIN registry' : modules'[registry'[k]].key = k
        BY <1>1, <1>2, <1>3 DEF RegistryLeads
    <2>2. \A m \in 1..n : modules'[m].key \in DOMAIN registry'
        BY <1>1, <1>2, <1>4 DEF RegistryLeads
    <2>3. \A m \in 1..n : modules'[m].key \notin Uris => modules'[m].by = "load"
        BY <1>1, <1>2, <1>4 DEF RegistryLeads
    <2> QED
        BY <1>2, <2>1, <2>2, <2>3 DEF RegistryLeads
<1>7. OneModulePerKey'
    <2> SUFFICES ASSUME NEW l \in 1..n, NEW m \in 1..n, l < m,
                        modules'[l].key = modules'[m].key
                 PROVE  modules'[m].by = "load"
        BY <1>2 DEF OneModulePerKey
    <2>1. l \in 1..Len(modules)
        BY <1>4, <1>5
    <2>2. CASE m = n
        BY <1>1, <1>2, <2>1, <2>2 DEF RegistryLeads
    <2>3. CASE m \in 1..Len(modules)
        BY <1>1, <1>2, <2>1, <2>3 DEF OneModulePerKey
    <2> QED
        BY <1>4, <2>2, <2>3
<1> QED
    BY <1>6, <1>7

(* What a lookup finds stays there, unless moduleLoadHook() replaces it.    *)
LEMMA LookupStays ==
    ASSUME RegistryInv, NEW key \in Keys, NEW by \in {"resolve", "load"}, Compile(key, by),
           by = "resolve" => key \in Uris \ DOMAIN registry,
           NEW s \in Keys, Lookup(s) # 0
    PROVE  /\ Lookup(s)' # 0
           /\ Lookup(s)' = Lookup(s) \/ modules'[Lookup(s)'].by = "load"
<1>1. TypeOK
    BY DEF RegistryInv
<1>2. /\ Len(modules) \in Nat
      /\ modules'[Len(modules) + 1] = [key |-> key, by |-> by]
      /\ DOMAIN registry' = DOMAIN registry \cup {key}
      /\ registry'[key] = Len(modules) + 1
      /\ \A k \in DOMAIN registry : k # key => registry'[k] = registry[k]
    BY <1>1, CompileAdds
<1>3. \A k \in DOMAIN registry : registry[k] \in 1..Len(modules)
    BY <1>1 DEF TypeOK
<1>4. s \in Uris => UriOf(s) = s
    BY UriOfType
<1>5. Lookup(s)' = IF s \in DOMAIN registry' THEN registry'[s]
                   ELSE IF UriOf(s) \in DOMAIN registry' THEN registry'[UriOf(s)] ELSE 0
    BY DEF Lookup, UriOf
<1>6. CASE s \in DOMAIN registry
    <2>1. Lookup(s) = registry[s]
        BY <1>6 DEF Lookup
    <2>2. Lookup(s)' = registry'[s]
        BY <1>2, <1>5, <1>6
    <2> QED
        BY <1>2, <1>3, <1>6, <2>1, <2>2
<1>7. CASE s \notin DOMAIN registry
    <2>1. UriOf(s) \in DOMAIN registry /\ Lookup(s) = registry[UriOf(s)]
        BY <1>1, <1>7, LookupFinds
    <2>2. CASE s = key
        <3>1. by = "load"
            BY <1>4, <1>7, <2>1, <2>2
        <3> QED
            BY <1>2, <1>5, <2>2, <3>1
    <2>3. CASE s # key
        <3>1. Lookup(s)' = registry'[UriOf(s)]
            BY <1>2, <1>5, <1>7, <2>1, <2>3
        <3> QED
            BY <1>2, <1>3, <2>1, <3>1
    <2> QED
        BY <2>2, <2>3
<1> QED
    BY <1>6, <1>7

-----------------------------------------------------------------------------
(* The parts of an import() that a step changes, and the others.            *)
LEMMA AdvanceChanges ==
    ASSUME TypeOK, NEW i \in Imports, NEW state, NEW m, Advance(i, state, m)
    PROVE  /\ imports'[i].state = state
           /\ imports'[i].module = m
           /\ imports'[i].spec = imports[i].spec
           /\ \A j \in Imports \ {i} : imports'[j] = imports[j]
BY DEF TypeOK, Import, Advance

(* The registry as it was, with imports that have come further.             *)
LEMMA AdvanceKeepsTypes ==
    ASSUME TypeOK, NEW i \in Imports, NEW state \in ImportState, NEW m \in 0..Len(modules),
           Advance(i, state, m), UNCHANGED <<modules, registry>>
    PROVE  TypeOK'
BY DEF TypeOK, Import, Advance

LEMMA CompileKeepsTypes ==
    ASSUME TypeOK, NEW key \in Keys, NEW by \in {"resolve", "load"}, Compile(key, by)
    PROVE  /\ modules' \in Seq(Module)
           /\ DOMAIN registry' \subseteq Keys
           /\ \A k \in DOMAIN registry' : registry'[k] \in 1..Len(modules')
           /\ 0..Len(modules) \subseteq 0..Len(modules')
           /\ Len(modules) + 1 \in 0..Len(modules')
<1>1. /\ modules' \in Seq(Module)
      /\ Len(modules) \in Nat
      /\ Len(modules') = Len(modules) + 1
      /\ DOMAIN registry' = DOMAIN registry \cup {key}
      /\ \A k \in DOMAIN registry' : registry'[k] \in 1..Len(modules')
    BY CompileAdds
<1> QED
    BY <1>1 DEF TypeOK

(* What AlreadyResolved says of one import().                               *)
Resolved(i) ==
    imports[i].state \in {"ready", "evaluating"} =>
        /\ Lookup(imports[i].spec) # 0
        /\ \/ Lookup(imports[i].spec) = imports[i].module
           \/ modules[Lookup(imports[i].spec)].by = "load"

LEMMA ResolvedAfter ==
    ASSUME NEW i \in Imports, NEW s \in Keys, s = imports'[i].spec, Lookup(s)' # 0,
           Lookup(s)' = imports'[i].module \/ modules'[Lookup(s)'].by = "load"
    PROVE  Resolved(i)'
<1>1. Lookup(s)' = Lookup(imports[i].spec)'
    BY DEF Lookup, UriOf
<1> QED
    BY <1>1 DEF Resolved

(* An import() that a load leaves alone and that has its module keeps       *)
(* finding it.                                                              *)
LEMMA CompileKeepsResolved ==
    ASSUME LoaderInv, NEW key \in Keys, NEW by \in {"resolve", "load"}, Compile(key, by),
           by = "resolve" => key \in Uris \ DOMAIN registry,
           NEW j \in Imports, imports'[j] = imports[j]
    PROVE  Resolved(j)'
<1>1. RegistryInv /\ ImportsHaveUris /\ AlreadyResolved /\ TypeOK
    BY DEF LoaderInv, RegistryInv
<1>2. CASE imports[j].state \notin {"ready", "evaluating"}
    BY <1>2 DEF Resolved
<1>3. CASE imports[j].state \in {"ready", "evaluating"}
    <2>1. imports[j].spec \in Keys
        BY <1>1, <1>3 DEF ImportsHaveUris
    <2>2. PICK s \in Keys : s = imports[j].spec
        BY <2>1
    <2>3. Lookup(s) # 0 /\ (Lookup(s) = imports[j].module \/ modules[Lookup(s)].by = "load")
        BY <1>1, <1>3, <2>2 DEF AlreadyResolved
    <2>4. /\ Lookup(s)' # 0
          /\ Lookup(s)' = Lookup(s) \/ modules'[Lookup(s)'].by = "load"
        BY <1>1, <2>3, LookupStays
    <2>5. Lookup(s) \in 1..Len(modules)
        <3>1. Len(modules) \in Nat
            BY <1>1, LenProperties DEF TypeOK
        <3> QED
            BY <1>1, <2>3, <3>1, LookupFinds
    <2>6. modules'[Lookup(s)] = modules[Lookup(s)]
        BY <1>1, <2>5, CompileAdds
    <2>7. Lookup(s)' = imports'[j].module \/ modules'[Lookup(s)'].by = "load"
        BY <2>3, <2>4, <2>6
    <2> QED
        BY <2>2, <2>4, <2>7, ResolvedAfter
<1> QED
    BY <1>2, <1>3

(* A step that loads nothing and leaves an import() alone.                  *)
LEMMA SameResolved ==
    ASSUME LoaderInv, UNCHANGED <<modules, registry>>,
           NEW j \in Imports, imports'[j] = imports[j]
    PROVE  Resolved(j)'
<1>1. Resolved(j)
    BY DEF LoaderInv, AlreadyResolved, Resolved
<1>2. Lookup(imports[j].spec)' = Lookup(imports[j].spec)
    BY DEF Lookup, UriOf
<1> QED
    BY <1>1, <1>2 DEF Resolved

-----------------------------------------------------------------------------
LEMMA LoaderInit == Init => LoaderInv
<1> SUFFICES ASSUME Init PROVE LoaderInv
    OBVIOUS
<1>1. modules \in Seq(Module) /\ Len(modules) = 0
    BY EmptySeq DEF Init
<1>2. DOMAIN registry = {}
    BY DEF Init
<1>3. imports \in [Imports -> Import]
    BY <1>1 DEF Init, Import, ImportState
<1>4. TypeOK
    BY <1>1, <1>2, <1>3 DEF TypeOK
<1>5. RegistryLeads /\ OneModulePerKey
    BY <1>1, <1>2 DEF RegistryLeads, OneModulePerKey
<1>6. ImportsHaveUris /\ AlreadyResolved
    BY DEF Init, ImportsHaveUris, AlreadyResolved
<1> QED
    BY <1>4, <1>5, <1>6 DEF LoaderInv, RegistryInv

(* A load that is no import()'s own: moduleLoadHook(), moduleResolveHook(). *)
LEMMA OtherLoads ==
    ASSUME LoaderInv, NEW key \in Keys, NEW by \in {"resolve", "load"}, Compile(key, by),
           by = "resolve" => key \in Uris \ DOMAIN registry, UNCHANGED imports
    PROVE  LoaderInv'
<1>1. RegistryInv /\ ImportsHaveUris /\ TypeOK
    BY DEF LoaderInv, RegistryInv
<1>2. RegistryLeads' /\ OneModulePerKey'
    BY <1>1, CompileKeepsRegistry
<1>3. TypeOK'
    BY <1>1, CompileKeepsTypes DEF TypeOK, Import
<1>4. ImportsHaveUris'
    BY <1>1 DEF ImportsHaveUris, UriOf
<1>5. \A j \in Imports : Resolved(j)'
    BY CompileKeepsResolved
<1>6. AlreadyResolved'
    BY <1>5 DEF Resolved, AlreadyResolved
<1> QED
    BY <1>2, <1>3, <1>4, <1>6 DEF LoaderInv, RegistryInv

(* A step of an import() that loads nothing.                                *)
LEMMA QuietStep ==
    ASSUME LoaderInv, NEW i \in Imports, NEW state \in ImportState,
           NEW m \in 0..Len(modules), Advance(i, state, m),
           imports[i].state \notin {"unused", "lost"} \/ state = "lost",
           state \in {"reading", "read", "unreadable"} =>
               imports[i].state \in {"reading", "read", "unreadable"},
           state # "unused",
           Resolved(i)',
           UNCHANGED <<modules, registry>>
    PROVE  LoaderInv'
<1>1. RegistryInv /\ ImportsHaveUris /\ TypeOK
    BY DEF LoaderInv, RegistryInv
<1>2. TypeOK'
    BY <1>1, AdvanceKeepsTypes
<1>3. RegistryLeads' /\ OneModulePerKey'
    BY <1>1 DEF RegistryInv, RegistryLeads, OneModulePerKey
<1>4. /\ imports'[i].state = state
      /\ imports'[i].spec = imports[i].spec
      /\ \A j \in Imports \ {i} : imports'[j] = imports[j]
    BY <1>1, AdvanceChanges
<1>5. ImportsHaveUris'
    BY <1>1, <1>4 DEF ImportsHaveUris, UriOf
<1>6. \A j \in Imports \ {i} : Resolved(j)'
    BY <1>4, SameResolved
<1>7. AlreadyResolved'
    BY <1>6 DEF Resolved, AlreadyResolved
<1> QED
    BY <1>2, <1>3, <1>5, <1>7 DEF LoaderInv, RegistryInv

LEMMA StartImportStep ==
    ASSUME LoaderInv, NEW i \in Imports, NEW w \in Written, NEW s \in Keys,
           s = Canonical[w], StartImport(i, w)
    PROVE  LoaderInv'
<1>1. RegistryInv /\ ImportsHaveUris /\ TypeOK
    BY DEF LoaderInv, RegistryInv
<1>2. UNCHANGED <<modules, registry>>
    BY DEF StartImport
<1>3. Lookup(s) \in 0..Len(modules) /\ UriOf(s) \in Uris \cup {NoUri}
    BY <1>1, LookupFinds, UriOfType
<1>4. /\ imports'[i].spec = s
      /\ imports'[i].module = Lookup(s)
      /\ imports'[i].state = CASE Lookup(s) # 0 -> "ready"
                               [] Lookup(s) = 0 /\ UriOf(s) = NoUri -> "rejected"
                               [] OTHER -> "reading"
      /\ \A j \in Imports \ {i} : imports'[j] = imports[j]
    BY <1>1 DEF StartImport, TypeOK
<1>5. /\ imports'[i].state \in {"ready", "rejected", "reading"}
      /\ imports'[i].state = "ready" => Lookup(s) # 0
      /\ imports'[i].state = "reading" => UriOf(s) \in Uris
    BY <1>3, <1>4
<1>6. TypeOK'
    <2>1. imports'[i] \in Import
        <3>1. (CASE Lookup(s) # 0 -> "ready"
                 [] Lookup(s) = 0 /\ UriOf(s) = NoUri -> "rejected"
                 [] OTHER -> "reading") \in ImportState
            BY <1>4, <1>5 DEF ImportState
        <3> QED
            BY <1>1, <1>3, <3>1 DEF StartImport, TypeOK, Import
    <2>2. imports' \in [Imports -> Import]
        BY <1>1, <2>1 DEF StartImport, TypeOK
    <2> QED
        BY <1>1, <1>2, <2>2 DEF TypeOK, Import
<1>7. RegistryLeads' /\ OneModulePerKey'
    BY <1>1, <1>2 DEF RegistryInv, RegistryLeads, OneModulePerKey
<1>8. ImportsHaveUris'
    BY <1>1, <1>4, <1>5 DEF ImportsHaveUris, UriOf
<1>9. Lookup(s)' = Lookup(s)
    BY <1>2 DEF Lookup, UriOf
<1>10. Resolved(i)'
    <2>1. CASE imports'[i].state = "ready"
        BY <1>4, <1>5, <1>9, <2>1, ResolvedAfter
    <2>2. CASE imports'[i].state # "ready"
        BY <1>5, <2>2 DEF Resolved
    <2> QED
        BY <2>1, <2>2
<1>11. \A j \in Imports \ {i} : Resolved(j)'
    BY <1>2, <1>4, SameResolved
<1>12. AlreadyResolved'
    BY <1>10, <1>11 DEF Resolved, AlreadyResolved
<1> QED
    BY <1>6, <1>7, <1>8, <1>12 DEF LoaderInv, RegistryInv

(* The rest of the hook, when the module has come meanwhile: by the URI, or *)
(* also by the specifier itself, which only moduleLoadHook() registers.     *)
LEMMA ResumeFindsStep ==
    ASSUME LoaderInv, NEW i \in Imports, ResumeFinds(i)
    PROVE  LoaderInv'
<1>1. RegistryInv /\ ImportsHaveUris /\ TypeOK
    BY DEF LoaderInv, RegistryInv
<1>2. PICK s \in Keys : s = imports[i].spec
    BY <1>1 DEF ResumeFinds, ImportsHaveUris
<1>3. UriOf(s) \in DOMAIN registry
    BY <1>2 DEF ResumeFinds, LoadedMeanwhile
<1> DEFINE m == registry[UriOf(s)]
<1>4. m \in 1..Len(modules) /\ Advance(i, "ready", m)
    BY <1>1, <1>2, <1>3 DEF ResumeFinds, TypeOK
<1>5. Lookup(s) # 0 /\ (Lookup(s) = m \/ modules[Lookup(s)].by = "load")
    <2>1. CASE s \notin DOMAIN registry
        BY <1>1, <1>3, <2>1, LookupFinds
    <2>2. CASE s \in DOMAIN registry /\ s \in Uris
        BY <1>1, <1>3, <2>2, LookupFinds, UriOfType
    <2>3. CASE s \in DOMAIN registry /\ s \notin Uris
        <3>1. Lookup(s) = registry[s]
            BY <1>1, <2>3, LookupFinds
        <3>2. registry[s] \in 1..Len(modules) /\ modules[registry[s]].key = s
            BY <1>1, <2>3 DEF TypeOK, RegistryInv, RegistryLeads
        <3>3. modules[registry[s]].by = "load"
            BY <1>1, <2>3, <3>2 DEF RegistryInv, RegistryLeads
        <3> QED
            BY <1>1, <1>3, <3>1, <3>3, LookupFinds
    <2> QED
        BY <2>1, <2>2, <2>3
<1>6. /\ imports'[i].spec = s
      /\ imports'[i].module = m
      /\ UNCHANGED <<modules, registry>>
    BY <1>1, <1>2, <1>4, AdvanceChanges DEF ResumeFinds
<1>7. Lookup(s)' = Lookup(s) /\ modules' = modules
    BY <1>6 DEF Lookup, UriOf
<1> HIDE DEF m
<1>8. Resolved(i)'
    BY <1>5, <1>6, <1>7, ResolvedAfter
<1>9. imports[i].state = "read" /\ m \in 0..Len(modules) /\ "ready" \in ImportState
    <2>1. Len(modules) \in Nat
        BY <1>1, LenProperties DEF TypeOK
    <2> QED
        BY <1>4, <2>1 DEF ResumeFinds, ImportState
<1> QED
    BY <1>4, <1>6, <1>8, <1>9, QuietStep

LEMMA ResumeCompilesStep ==
    ASSUME LoaderInv, NEW i \in Imports, ResumeCompiles(i)
    PROVE  LoaderInv'
<1>1. RegistryInv /\ ImportsHaveUris /\ TypeOK
    BY DEF LoaderInv, RegistryInv
<1>2. PICK s \in Keys : s = imports[i].spec
    BY <1>1 DEF ResumeCompiles, ImportsHaveUris
<1>3. PICK key \in Uris : key = UriOf(s)
    BY <1>1, <1>2 DEF ResumeCompiles, ImportsHaveUris
<1>4. key \in Keys /\ key \notin DOMAIN registry /\ Compile(key, "resolve")
    BY <1>2, <1>3 DEF ResumeCompiles, LoadedMeanwhile, Keys
<1> DEFINE n == Len(modules) + 1
<1>5. Advance(i, "ready", n)
    BY DEF ResumeCompiles
<1>6. /\ imports'[i].spec = s
      /\ imports'[i].state = "ready"
      /\ imports'[i].module = n
      /\ \A j \in Imports \ {i} : imports'[j] = imports[j]
    BY <1>1, <1>2, <1>5, AdvanceChanges
<1>7. RegistryLeads' /\ OneModulePerKey'
    BY <1>1, <1>4, CompileKeepsRegistry
<1>8. TypeOK'
    <2>1. /\ modules' \in Seq(Module)
          /\ DOMAIN registry' \subseteq Keys
          /\ \A k \in DOMAIN registry' : registry'[k] \in 1..Len(modules')
          /\ 0..Len(modules) \subseteq 0..Len(modules')
          /\ n \in 0..Len(modules')
        BY <1>1, <1>4, CompileKeepsTypes
    <2> HIDE DEF n
    <2>2. imports' \in [Imports -> [state : ImportState, spec : Keys \cup {NoUri},
                                    module : 0..Len(modules')]]
        BY <1>1, <1>5, <2>1 DEF TypeOK, Import, Advance, ImportState
    <2> QED
        BY <2>1, <2>2 DEF TypeOK, Import
<1>9. ImportsHaveUris'
    BY <1>1, <1>6 DEF ImportsHaveUris, UriOf
<1>10. Resolved(i)'
    <2>1. /\ Len(modules) \in Nat
          /\ DOMAIN registry' = DOMAIN registry \cup {key}
          /\ registry'[key] = n
          /\ \A k \in DOMAIN registry : k # key => registry'[k] = registry[k]
          /\ \A m \in 1..Len(modules) : modules'[m] = modules[m]
        BY <1>1, <1>4, CompileAdds
    <2>2. CASE s \in Uris \/ s \notin DOMAIN registry
        <3>1. s \in Uris => s = key
            BY <1>3, UriOfType
        <3>2. Lookup(s)' = n
            BY <1>3, <2>1, <2>2, <3>1 DEF Lookup, UriOf
        <3>3. n # 0
            BY <2>1
        <3> QED
            BY <1>6, <3>2, <3>3, ResolvedAfter
    <2>3. CASE s \notin Uris /\ s \in DOMAIN registry
        <3>1. Lookup(s)' = registry[s]
            BY <2>1, <2>3 DEF Lookup, UriOf
        <3>2. registry[s] \in 1..Len(modules) /\ modules[registry[s]].key = s
            BY <1>1, <2>3 DEF TypeOK, RegistryInv, RegistryLeads
        <3>3. modules'[registry[s]].by = "load"
            BY <1>1, <2>1, <2>3, <3>2 DEF RegistryInv, RegistryLeads
        <3>4. Lookup(s)' # 0
            BY <2>1, <3>1, <3>2
        <3> QED
            BY <1>6, <3>1, <3>3, <3>4, ResolvedAfter
    <2> QED
        BY <2>2, <2>3
<1>11. \A j \in Imports \ {i} : Resolved(j)'
    BY <1>4, <1>6, CompileKeepsResolved
<1>12. AlreadyResolved'
    BY <1>10, <1>11 DEF Resolved, AlreadyResolved
<1> QED
    BY <1>7, <1>8, <1>9, <1>12 DEF LoaderInv, RegistryInv

(* Steps that change only how far an import() has come.                     *)
LEMMA OtherSteps ==
    ASSUME LoaderInv, NEW i \in Imports,
           \/ ReadDone(i) \/ AwaitThrows(i) \/ ResumeThrows(i)
           \/ ImportResolved(i) \/ ImportRejected(i) \/ Finish(i)
           \/ \E w \in Written : ImportMalformed(i, w)
    PROVE  LoaderInv'
<1>1. RegistryInv /\ ImportsHaveUris /\ TypeOK /\ AlreadyResolved
    BY DEF LoaderInv, RegistryInv
<1>2. Len(modules) \in Nat /\ imports[i] \in Import
    BY <1>1, LenProperties DEF TypeOK
<1>3. 0 \in 0..Len(modules) /\ imports[i].module \in 0..Len(modules)
    BY <1>2 DEF Import
<1>4. UNCHANGED <<modules, registry>>
    BY DEF ReadDone, AwaitThrows, ResumeThrows, ImportResolved, ImportRejected, Finish,
           ImportMalformed
<1>5. ASSUME NEW state \in ImportState, state \notin {"unused", "ready", "evaluating"},
             NEW m \in 0..Len(modules), Advance(i, state, m),
             imports[i].state \notin {"unused", "lost"} \/ state = "lost",
             state \in {"reading", "read", "unreadable"} =>
                 imports[i].state \in {"reading", "read", "unreadable"}
      PROVE  LoaderInv'
    <2>1. Resolved(i)'
        BY <1>1, <1>5, AdvanceChanges DEF Resolved
    <2> QED
        BY <1>4, <1>5, <2>1, QuietStep
<1>6. CASE ReadDone(i)
    <2>1. PICK state \in {"read", "unreadable"} : Advance(i, state, 0)
        BY <1>6 DEF ReadDone
    <2> QED
        BY <1>3, <1>5, <1>6, <2>1 DEF ReadDone, ImportState
<1>7. CASE AwaitThrows(i)
    BY <1>3, <1>5, <1>7 DEF AwaitThrows, ImportState
<1>8. CASE ResumeThrows(i)
    BY <1>3, <1>5, <1>8 DEF ResumeThrows, ImportState
<1>9. CASE ImportRejected(i)
    BY <1>3, <1>5, <1>9 DEF ImportRejected, ImportState
<1>10. CASE ImportResolved(i)
    <2>1. PICK state \in {"evaluating", "failed", "exited", "lost"} :
              Advance(i, state, imports[i].module)
        BY <1>10 DEF ImportResolved
    <2>2. CASE state # "evaluating"
        BY <1>3, <1>5, <1>10, <2>1, <2>2 DEF ImportResolved, ImportState
    <2>3. CASE state = "evaluating"
        <3>1. PICK s \in Keys : s = imports[i].spec
            BY <1>1, <1>10 DEF ImportResolved, ImportsHaveUris
        <3>2. Lookup(s) # 0 /\ (Lookup(s) = imports[i].module \/ modules[Lookup(s)].by = "load")
            BY <1>1, <1>10, <3>1 DEF ImportResolved, AlreadyResolved
        <3>3. Lookup(s)' = Lookup(s) /\ modules' = modules
            BY <1>4 DEF Lookup, UriOf
        <3>4. imports'[i].spec = s /\ imports'[i].module = imports[i].module
            BY <1>1, <2>1, <3>1, AdvanceChanges
        <3>5. Resolved(i)'
            BY <3>2, <3>3, <3>4, ResolvedAfter
        <3>6. imports[i].state = "ready" /\ state \in ImportState
            BY <1>10, <2>3 DEF ImportResolved, ImportState
        <3> QED
            BY <1>3, <1>4, <2>1, <2>3, <3>5, <3>6, QuietStep
    <2> QED
        BY <2>1, <2>2, <2>3
<1>11. CASE Finish(i)
    <2>1. PICK s \in Keys : s = imports[i].spec
        BY <1>1, <1>11 DEF Finish, ImportsHaveUris
    <2>2. Lookup(s) \in 0..Len(modules)
        BY <1>1, LookupFinds
    <2>3. CASE Advance(i, "done", Lookup(imports[i].spec))
        BY <1>5, <1>11, <2>1, <2>2, <2>3 DEF Finish, ImportState
    <2>4. CASE \E state \in {"failed", "exited"} : Advance(i, state, imports[i].module)
        BY <1>3, <1>5, <1>11, <2>4 DEF Finish, ImportState
    <2> QED
        BY <1>11, <2>3, <2>4 DEF Finish
<1>12. CASE \E w \in Written : ImportMalformed(i, w)
    BY <1>3, <1>5, <1>12 DEF ImportMalformed, ImportState
<1> QED
    BY <1>6, <1>7, <1>8, <1>9, <1>10, <1>11, <1>12

LEMMA LoaderNext == LoaderInv /\ [Next]_vars => LoaderInv'
<1> SUFFICES ASSUME LoaderInv, [Next]_vars
             PROVE  LoaderInv'
    OBVIOUS
<1>1. CASE UNCHANGED vars
    <2>1. \A j \in Imports : Resolved(j)'
        BY <1>1, SameResolved DEF vars
    <2>2. AlreadyResolved'
        BY <2>1 DEF Resolved, AlreadyResolved
    <2> QED
        BY <1>1, <2>2 DEF vars, LoaderInv, RegistryInv, TypeOK, Import, RegistryLeads,
                          OneModulePerKey, ImportsHaveUris, UriOf
<1>2. ASSUME NEW id \in Keys, LoadHook(id)
      PROVE  LoaderInv'
    BY <1>2, OtherLoads DEF LoadHook
<1>3. ASSUME NEW w \in Written, ResolveHook(w)
      PROVE  LoaderInv'
    <2> DEFINE s == Canonical[w]
    <2>4. s \in Keys
        BY <1>3, CanonicalIsKey DEF ResolveHook
    <2>1. UriOf(s) \in Uris /\ UriOf(s) \notin DOMAIN registry
        BY <1>3, <2>4, LookupFinds, UriOfType DEF LoaderInv, RegistryInv, ResolveHook
    <2>2. PICK key \in Uris : key = UriOf(s)
        BY <2>1
    <2>3. Compile(key, "resolve") /\ key \in Keys /\ UNCHANGED imports
        BY <1>3, <2>2 DEF ResolveHook, Keys
    <2> QED
        BY <2>1, <2>2, <2>3, OtherLoads
<1>4. ASSUME NEW i \in Imports, NEW w \in Written, StartImport(i, w)
      PROVE  LoaderInv'
    <2>1. PICK s \in Keys : s = Canonical[w]
        BY <1>4, CanonicalIsKey DEF StartImport
    <2> QED
        BY <1>4, <2>1, StartImportStep
<1>6. ASSUME NEW i \in Imports, NEW w \in Written, ImportMalformed(i, w)
      PROVE  LoaderInv'
    BY <1>6, OtherSteps
<1>5. ASSUME NEW i \in Imports, Step(i)
      PROVE  LoaderInv'
    BY <1>5, ResumeFindsStep, ResumeCompilesStep, OtherSteps DEF Step
<1> QED
    BY <1>1, <1>2, <1>3, <1>4, <1>5, <1>6 DEF Next

LEMMA LoaderInvariant == Spec => []LoaderInv
<1> QED
    BY LoaderInit, LoaderNext, PTL DEF Spec

(* Every variable of the loader keeps its type: in particular the registry  *)
(* never leads to a module that is not there.                               *)
THEOREM LoaderTypeCorrect == Spec => []TypeOK
<1>1. LoaderInv => TypeOK
    BY DEF LoaderInv, RegistryInv
<1> QED
    BY <1>1, LoaderInvariant, PTL

(* For any number of files, specifiers and overlapping imports, the resolve *)
(* hooks of loader.js make at most one module object for a URI.             *)
THEOREM NeverTwice == Spec => []OneModulePerKey
<1>1. LoaderInv => OneModulePerKey
    BY DEF LoaderInv, RegistryInv
<1> QED
    BY <1>1, LoaderInvariant, PTL

(* What gjs_dynamic_module_resolve() says of the resolve hook's last call   *)
(* is so: the module has already been resolved.                             *)
THEOREM ResolvedWhenAsked == Spec => []AlreadyResolved
<1>1. LoaderInv => AlreadyResolved
    BY DEF LoaderInv
<1> QED
    BY <1>1, LoaderInvariant, PTL

(* A registered module keeps its place against everything but               *)
(* moduleLoadHook().                                                        *)
THEOREM KeysKeepModules == Spec => OnlyLoadsReplace
<1> DEFINE Keep ==
        \A k \in DOMAIN registry :
            /\ k \in DOMAIN registry'
            /\ registry'[k] = registry[k] \/ Replaced(k)
<1>1. ASSUME RegistryInv, NEW key \in Keys, NEW by \in {"resolve", "load"},
             Compile(key, by), by = "resolve" => key \in Uris \ DOMAIN registry
      PROVE  Keep
    <2>1. /\ modules'[Len(modules) + 1] = [key |-> key, by |-> by]
          /\ DOMAIN registry' = DOMAIN registry \cup {key}
          /\ registry'[key] = Len(modules) + 1
          /\ \A k \in DOMAIN registry : k # key => registry'[k] = registry[k]
        BY <1>1, CompileAdds DEF RegistryInv
    <2> QED
        BY <1>1, <2>1 DEF Replaced
<1>2. ASSUME UNCHANGED registry
      PROVE  Keep
    BY <1>2
<1> HIDE DEF Keep
<1>3. LoaderInv /\ [Next]_vars => Keep
    <2> SUFFICES ASSUME LoaderInv, [Next]_vars
                 PROVE  Keep
        OBVIOUS
    <2>1. RegistryInv /\ TypeOK /\ ImportsHaveUris
        BY DEF LoaderInv, RegistryInv
    <2>2. CASE UNCHANGED vars
        BY <1>2, <2>2 DEF vars
    <2>3. ASSUME NEW id \in Keys, LoadHook(id)
          PROVE  Keep
        BY <1>1, <2>1, <2>3 DEF LoadHook
    <2>4. ASSUME NEW w \in Written, ResolveHook(w)
          PROVE  Keep
        <3>3. PICK s \in Keys : s = Canonical[w]
            BY <2>4, CanonicalIsKey DEF ResolveHook
        <3>1. PICK key \in Uris : key = UriOf(s)
            BY <2>4, <3>3, UriOfType DEF ResolveHook
        <3>2. key \notin DOMAIN registry /\ key \in Keys /\ Compile(key, "resolve")
            BY <2>1, <2>4, <3>1, <3>3, LookupFinds DEF ResolveHook, Keys
        <3> QED
            BY <1>1, <2>1, <3>1, <3>2
    <2>5. ASSUME NEW i \in Imports, NEW w \in Written,
                 StartImport(i, w) \/ ImportMalformed(i, w)
          PROVE  Keep
        BY <1>2, <2>5 DEF StartImport, ImportMalformed
    <2>6. ASSUME NEW i \in Imports, ResumeCompiles(i)
          PROVE  Keep
        <3>1. PICK key \in Uris : key = UriOf(imports[i].spec)
            BY <2>1, <2>6 DEF ResumeCompiles, ImportsHaveUris
        <3>2. key \notin DOMAIN registry /\ key \in Keys /\ Compile(key, "resolve")
            BY <2>6, <3>1 DEF ResumeCompiles, LoadedMeanwhile, Keys
        <3> QED
            BY <1>1, <2>1, <3>1, <3>2
    <2>7. ASSUME NEW i \in Imports, Step(i), ~ResumeCompiles(i)
          PROVE  Keep
        BY <1>2, <2>7 DEF Step, ReadDone, AwaitThrows, ResumeFinds, ResumeThrows,
                          ImportResolved, ImportRejected, Finish
    <2> QED
        BY <2>2, <2>3, <2>4, <2>5, <2>6, <2>7 DEF Next
<1>4. LoaderInv /\ [Next]_vars => [Keep]_vars
    BY <1>3
<1>5. OnlyLoadsReplace <=> [][Keep]_vars
    BY DEF OnlyLoadsReplace, Keep
<1> QED
    BY <1>4, <1>5, LoaderInvariant, PTL DEF Spec

=============================================================================
