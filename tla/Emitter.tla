------------------------------ MODULE Emitter ------------------------------
(***************************************************************************)
(* What an object with signals promises to those who connect to it, with   *)
(* no identifiers, no indexes and no flags: a handler that is connected    *)
(* when an emission starts and is still connected when its turn comes is   *)
(* called, once, the connectAfter() handlers after the others and each     *)
(* kind in the order of connection; a handler that is disconnected is not  *)
(* called again; one that answers true ends its emission.                  *)
(***************************************************************************)
EXTENDS Integers, Sequences, SequencesExt

CONSTANT Names      \* signal names

VARIABLES
    made,       \* the handlers ever connected, in order: [name, after]
    live,       \* those that are connected
    emissions   \* emissions that have not returned, the innermost last:
                \* handlers still to call, and the one on the stack or 0

vars == <<made, live, emissions>>

Handler == [name : Names, after : BOOLEAN]
Top == Last(emissions)
Under == Front(emissions)
UserCode == emissions # << >> => Top.running # 0

TypeOK ==
    /\ made \in Seq(Handler)
    /\ live \subseteq 1..Len(made)
    /\ emissions \in Seq([waiting : SUBSET (1..Len(made)), running : 0..Len(made)])

Init ==
    /\ made = << >>
    /\ live = {}
    /\ emissions = << >>

Precedes(h, g) ==
    \/ ~made[h].after /\ made[g].after
    \/ made[h].after = made[g].after /\ h < g

Connect(h) ==
    /\ UserCode
    /\ made' = Append(made, h)
    /\ live' = live \cup {Len(made) + 1}
    /\ UNCHANGED emissions

Disconnect(H) ==
    /\ UserCode
    /\ live' = live \ H
    /\ emissions' = [e \in DOMAIN emissions |->
                        [emissions[e] EXCEPT !.waiting = @ \ H]]
    /\ UNCHANGED made

Emit(n) ==
    /\ UserCode
    /\ emissions' = Append(emissions, [waiting |-> {h \in live : made[h].name = n},
                                       running |-> 0])
    /\ UNCHANGED <<made, live>>

Call(h) ==
    /\ emissions # << >>
    /\ Top.running = 0
    /\ h \in Top.waiting
    /\ \A g \in Top.waiting \ {h} : Precedes(h, g)
    /\ emissions' = Append(Under, [waiting |-> Top.waiting \ {h}, running |-> h])
    /\ UNCHANGED <<made, live>>

Answer(stop) ==
    /\ emissions # << >>
    /\ Top.running # 0
    /\ emissions' = IF stop THEN Under ELSE Append(Under, [Top EXCEPT !.running = 0])
    /\ UNCHANGED <<made, live>>

Finish ==
    /\ emissions # << >>
    /\ Top.running = 0
    /\ Top.waiting = {}
    /\ emissions' = Under
    /\ UNCHANGED <<made, live>>

Next ==
    \/ \E h \in Handler : Connect(h)
    \/ \E H \in SUBSET live : Disconnect(H)
    \/ \E n \in Names : Emit(n)
    \/ \E h \in 1..Len(made) : Call(h)
    \/ \E stop \in BOOLEAN : Answer(stop)
    \/ Finish

Spec == Init /\ [][Next]_vars

=============================================================================
