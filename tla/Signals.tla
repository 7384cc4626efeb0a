------------------------------ MODULE Signals ------------------------------
(***************************************************************************)
(* modules/core/_signals.js: the connect/emit machinery that               *)
(* addSignalMethods() adds to a JavaScript object.  One object, with the   *)
(* two indexes it keeps of its connections, and the emissions that are on  *)
(* the JavaScript stack: a handler may connect, disconnect and emit while  *)
(* the emission that called it is under way.                               *)
(***************************************************************************)
EXTENDS Integers, Sequences, SequencesExt

CONSTANTS
    Names,            \* signal names
    MaxConnections,   \* bound: calls of connect() and connectAfter()
    MaxDepth          \* bound: emissions nested in each other

ASSUME BoundsAssumption == MaxConnections \in Nat /\ MaxDepth \in Nat

VARIABLES
    conns,        \* every connection object made, in order
    machinery,    \* _signalConnections !== undefined
    byId,         \* _signalConnections: id -> connection (its position in conns)
    byName,       \* _signalConnectionsByName: name -> array of ids
    nextId,       \* _nextConnectionId
    emissions     \* calls of _emit() on the stack, the innermost last

index == <<conns, machinery, byId, byName, nextId>>
vars == <<conns, machinery, byId, byName, nextId, emissions>>

Connection == [id : Nat \ {0}, name : Names, after : BOOLEAN, disconnected : BOOLEAN]

(* handlers: the copy taken when the emission started; _callHandlers() goes *)
(* over it once for each kind of handler, "after" telling which, and has    *)
(* come to position "at"; running: the connection whose callback it is in.  *)
Emission == [handlers : Seq(1..Len(conns)), after : BOOLEAN, at : Nat \ {0},
             running : 0..Len(conns)]

TypeOK ==
    /\ conns \in Seq(Connection)
    /\ machinery \in BOOLEAN
    /\ DOMAIN byId \subseteq Nat \ {0}
    /\ \A id \in DOMAIN byId : byId[id] \in 1..Len(conns)
    /\ DOMAIN byName \subseteq Names
    /\ \A n \in DOMAIN byName : byName[n] \in Seq(Nat \ {0})
    /\ nextId \in Nat \ {0}
    /\ emissions \in Seq(Emission)

Init ==
    /\ conns = << >>
    /\ machinery = FALSE
    /\ byId = << >>
    /\ byName = << >>
    /\ nextId = 1
    /\ emissions = << >>

Top == Last(emissions)
Under == Front(emissions)

(* JavaScript outside _signals.js runs: a callback, or no emission at all.  *)
UserCode == emissions # << >> => Top.running # 0

-----------------------------------------------------------------------------
FirstId == IF machinery THEN nextId ELSE 1
IdsOf(n) == IF n \in DOMAIN byName THEN byName[n] ELSE << >>

(* _connectFull()                                                           *)
Connect(n, after) ==
    /\ UserCode
    /\ Len(conns) < MaxConnections
    /\ LET id == FirstId IN
         /\ conns' = Append(conns, [id |-> id, name |-> n, after |-> after,
                                    disconnected |-> FALSE])
         /\ byId' = [i \in DOMAIN byId \cup {id} |->
                        IF i = id THEN Len(conns) + 1 ELSE byId[i]]
         /\ byName' = [m \in DOMAIN byName \cup {n} |->
                        IF m = n THEN Append(IdsOf(n), id) ELSE byName[m]]
         /\ nextId' = id + 1
    /\ machinery' = TRUE
    /\ UNCHANGED emissions

MutantUnlisted(id, n) ==
    LET ids == byName[n]
        p == CHOOSE i \in 1..Len(ids) : ids[i] = id
    IN  [byName EXCEPT ![n] = RemoveAt(ids, p)]

(* The second half of _disconnect(): the id leaves the list of its name,    *)
(* and the list goes with the last id.                                      *)
Unlisted(id, n) ==
    LET ids == byName[n]
        p == CHOOSE i \in 1..Len(ids) : ids[i] = id
    IN  IF n \notin DOMAIN byName \/ ~ \E i \in 1..Len(ids) : ids[i] = id
        THEN byName
        ELSE IF Len(ids) = 1
        THEN [m \in DOMAIN byName \ {n} |-> byName[m]]
        ELSE [byName EXCEPT ![n] = RemoveAt(ids, p)]

(* _disconnect(), when it finds the id; otherwise it throws and nothing     *)
(* changes.                                                                 *)
Disconnect(id) ==
    /\ UserCode
    /\ id \in DOMAIN byId
    /\ ~conns[byId[id]].disconnected
    /\ conns' = [conns EXCEPT ![byId[id]].disconnected = TRUE]
    /\ byId' = [i \in DOMAIN byId \ {id} |-> byId[i]]
    /\ byName' = Unlisted(id, conns[byId[id]].name)
    /\ UNCHANGED <<machinery, nextId, emissions>>

(* The flag is the only thing emissions under way can see of it.            *)
AllFlagged ==
    [k \in DOMAIN conns |->
        [conns[k] EXCEPT !.disconnected = @ \/ \E id \in DOMAIN byId : byId[id] = k]]

(* _disconnectAll(): the counter stays behind, and nothing reads it.        *)
DisconnectAll ==
    /\ UserCode
    /\ machinery
    /\ conns' = AllFlagged
    /\ byId' = << >>
    /\ byName' = << >>
    /\ machinery' = FALSE
    /\ UNCHANGED <<nextId, emissions>>

IsConnected(id) == id \in DOMAIN byId /\ ~conns[byId[id]].disconnected

-----------------------------------------------------------------------------
(* connections.map(id => this._signalConnections[id])                       *)
Snapshot(n) == [i \in 1..Len(byName[n]) |-> byId[byName[n][i]]]

(* _emit(), as far as its first call of _callHandlers().  With no handlers  *)
(* it returns at once.                                                      *)
Emit(n) ==
    /\ UserCode
    /\ Len(emissions) < MaxDepth
    /\ n \in DOMAIN byName
    /\ emissions' = Append(emissions, [handlers |-> Snapshot(n), after |-> FALSE,
                                       at |-> 1, running |-> 0])
    /\ UNCHANGED index

InLoop == emissions # << >> /\ Top.running = 0

(* The handler the loop of _callHandlers() has come to.                     *)
Candidate == Top.handlers[Top.at]
MutantCallable(k) == k > 0
Callable(k) == ~conns[k].disconnected

Skip ==
    /\ InLoop
    /\ Top.at <= Len(Top.handlers)
    /\ conns[Candidate].after # Top.after \/ ~Callable(Candidate)
    /\ emissions' = Append(Under, [Top EXCEPT !.at = @ + 1])
    /\ UNCHANGED index

Call ==
    /\ InLoop
    /\ Top.at <= Len(Top.handlers)
    /\ conns[Candidate].after = Top.after
    /\ Callable(Candidate)
    /\ emissions' = Append(Under, [Top EXCEPT !.at = @ + 1, !.running = Candidate])
    /\ UNCHANGED index

(* The callback returns true ("stop") or anything else, or throws, which is *)
(* logged.                                                                  *)
Return(stop) ==
    /\ emissions # << >>
    /\ Top.running # 0
    /\ emissions' = IF stop THEN Under ELSE Append(Under, [Top EXCEPT !.running = 0])
    /\ UNCHANGED index

(* The handlers of connect() are done: now those of connectAfter().         *)
BeforeDone ==
    /\ InLoop
    /\ Top.at > Len(Top.handlers)
    /\ ~Top.after
    /\ emissions' = Append(Under, [Top EXCEPT !.at = 1, !.after = TRUE])
    /\ UNCHANGED index

AfterDone ==
    /\ InLoop
    /\ Top.at > Len(Top.handlers)
    /\ Top.after
    /\ emissions' = Under
    /\ UNCHANGED index

Next ==
    \/ \E n \in Names, after \in BOOLEAN : Connect(n, after)
    \/ \E id \in DOMAIN byId : Disconnect(id)
    \/ DisconnectAll
    \/ \E n \in Names : Emit(n)
    \/ Skip
    \/ Call
    \/ \E stop \in BOOLEAN : Return(stop)
    \/ BeforeDone
    \/ AfterDone

Spec == Init /\ [][Next]_vars

-----------------------------------------------------------------------------
(* What a reader of the index relies on: each id leads to the connection    *)
(* that got it last, which is not flagged, and its name's list has it.      *)
IdsLead ==
    \A id \in DOMAIN byId :
        LET c == conns[byId[id]] IN
        /\ c.id = id
        /\ id < FirstId
        /\ ~c.disconnected
        /\ c.name \in DOMAIN byName
        /\ \E i \in 1..Len(byName[c.name]) : byName[c.name][i] = id

(* A connection that is not flagged can be found.                           *)
UnflaggedFound ==
    \A k \in 1..Len(conns) :
        ~conns[k].disconnected => conns[k].id \in DOMAIN byId /\ byId[conns[k].id] = k

(* No list is empty, lists an id twice, or has an id of another name or one *)
(* without a connection.                                                    *)
ListsLead ==
    \A n \in DOMAIN byName :
        /\ byName[n] # << >>
        /\ \A i \in 1..Len(byName[n]) :
            /\ byName[n][i] \in DOMAIN byId
            /\ conns[byId[byName[n][i]]].name = n
        /\ \A i, j \in 1..Len(byName[n]) : i < j => byName[n][i] < byName[n][j]

(* Ids follow the order of connection.                                      *)
IdsOrdered == \A i, j \in DOMAIN byId : i < j => byId[i] < byId[j]

Dismantled == ~machinery => byId = << >> /\ byName = << >>

(* The two indexes and the flag of each connection object agree, whatever   *)
(* handlers connect and disconnect while emissions are under way: emit()    *)
(* finds an object for every id it reads (or map() would hand undefined to  *)
(* the filter and emit() throw), and disconnect() never finds an id whose   *)
(* object is flagged, so that "already disconnected" is never thrown.       *)
IndexesAgree == IdsLead /\ UnflaggedFound /\ ListsLead /\ IdsOrdered /\ Dismantled

(* The refinement of Emitter.  A handler waits in an emission while the     *)
(* loops have not come to it and its flag is not set.                       *)
Reaches(e, i) ==
    LET c == conns[e.handlers[i]] IN
    /\ ~c.disconnected
    /\ IF e.after THEN c.after /\ i >= e.at ELSE c.after \/ i >= e.at

StillToCall(e) == {e.handlers[i] : i \in {j \in DOMAIN e.handlers : Reaches(e, j)}}

Made == [k \in DOMAIN conns |-> [name |-> conns[k].name, after |-> conns[k].after]]
Live == {k \in DOMAIN conns : ~conns[k].disconnected}
Calls == [e \in DOMAIN emissions |->
             [waiting |-> StillToCall(emissions[e]), running |-> emissions[e].running]]

Promise == INSTANCE Emitter WITH made <- Made, live <- Live, emissions <- Calls

(* Snapshots, flags and ids do what Emitter promises: no handler that stays *)
(* connected is missed or called twice, none that is gone is called, and    *)
(* the order is that of connection, after-handlers last, in every           *)
(* interleaving of connect(), disconnect(), disconnectAll() and emit() made *)
(* by the handlers themselves.                                              *)
KeepsItsPromise == Promise!Spec

(* Not checked by a run, for it fails.  doc/Signals.md says of              *)
(* signalHandlerIsConnected(id): "true if connected, or false if not"; but  *)
(* the id of a handler that is gone is reported as connected once           *)
(* disconnectAll() has made the ids start again.                            *)
GoneStaysGone ==
    \A k \in 1..Len(conns) : conns[k].disconnected => ~IsConnected(conns[k].id)

=============================================================================
