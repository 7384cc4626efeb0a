-------------------------- MODULE Signals_proofs ---------------------------
(***************************************************************************)
(* For any names, any number of connections and any nesting of emissions:  *)
(* the two indexes of _signals.js and the flags of the connection objects  *)
(* agree, and what emit() does is what Emitter promises.                   *)
(***************************************************************************)
EXTENDS Signals, Lists_proofs

(* A stack whose last element is replaced.                                  *)
LEMMA TopReplaced ==
    ASSUME NEW S, NEW s \in Seq(S), s # << >>, NEW x \in S
    PROVE  /\ Append(Front(s), x) \in Seq(S)
           /\ Len(Append(Front(s), x)) = Len(s)
           /\ Append(Front(s), x)[Len(s)] = x
           /\ \A i \in 1..Len(s) - 1 : Append(Front(s), x)[i] = s[i]
           /\ Append(Front(s), x) # << >>
           /\ Front(Append(Front(s), x)) = Front(s)
<1> DEFINE f == Front(s)
           t == Append(f, x)
<1>1. /\ f \in Seq(S)
      /\ Len(s) \in Nat \ {0}
      /\ Len(f) = Len(s) - 1
      /\ \A i \in 1..Len(s) - 1 : f[i] = s[i]
    BY Popped
<1>2. /\ t \in Seq(S)
      /\ Len(t) = Len(s)
      /\ t[Len(s)] = x
      /\ \A i \in 1..Len(s) - 1 : t[i] = s[i]
    BY Replaced
<1> HIDE DEF f, t
<1>3. Len(f) + 1 = Len(s)
    BY <1>1
<1>4. t # << >>
    BY <1>1, <1>2, <1>3, EmptySeq
<1>5. /\ Front(t) \in Seq(S)
      /\ Len(Front(t)) = Len(f)
      /\ \A i \in 1..Len(f) : Front(t)[i] = f[i]
    <2>1. /\ Front(t) \in Seq(S)
          /\ Len(Front(t)) = Len(t) - 1
          /\ \A i \in 1..Len(t) - 1 : Front(t)[i] = t[i]
        BY <1>2, <1>4, Popped
    <2>2. Len(t) - 1 = Len(f)
        BY <1>1, <1>2
    <2>3. \A i \in 1..Len(f) : t[i] = f[i]
        BY <1>1, <1>2
    <2> QED
        BY <2>1, <2>2, <2>3
<1>6. Front(t) = f
    BY <1>1, <1>5, SeqEqual
<1> QED
    BY <1>1, <1>2, <1>3, <1>4, <1>6 DEF t, f

-----------------------------------------------------------------------------
(* Each emission goes over its handlers in the order of connection.         *)
Ascending(h) == \A i, j \in 1..Len(h) : i < j => h[i] < h[j]
EmissionsAscend == \A e \in 1..Len(emissions) : Ascending(emissions[e].handlers)

SignalsInv == TypeOK /\ IndexesAgree /\ EmissionsAscend

EmissionOf(n) ==
    [handlers : Seq(1..n), after : BOOLEAN, at : Nat \ {0}, running : 0..n]

(* New connections do not disturb the emissions under way.                  *)
LEMMA EmissionsGrow ==
    ASSUME NEW m \in Nat, NEW n \in Nat, m <= n
    PROVE  Seq(EmissionOf(m)) \subseteq Seq(EmissionOf(n))
<1>1. 1..m \subseteq 1..n /\ 0..m \subseteq 0..n
    OBVIOUS
<1>2. Seq(1..m) \subseteq Seq(1..n)
    BY <1>1, SeqMonotonic
<1>3. EmissionOf(m) \subseteq EmissionOf(n)
    BY <1>1, <1>2 DEF EmissionOf
<1> QED
    BY <1>3, SeqMonotonic

(* The parts of TypeOK in the form that the steps use.                      *)
LEMMA Types ==
    ASSUME TypeOK
    PROVE  /\ Len(conns) \in Nat
           /\ DOMAIN conns = 1..Len(conns)
           /\ \A k \in 1..Len(conns) : conns[k] \in Connection
           /\ emissions \in Seq(EmissionOf(Len(conns)))
           /\ Len(emissions) \in Nat
           /\ FirstId \in Nat \ {0}
           /\ \A id \in DOMAIN byId : id \in Nat \ {0} /\ byId[id] \in 1..Len(conns)
BY LenProperties, ElementOfSeq DEF TypeOK, Emission, EmissionOf, FirstId

LEMMA ConnectStep ==
    ASSUME SignalsInv, NEW n \in Names, NEW after \in BOOLEAN, Connect(n, after)
    PROVE  SignalsInv'
<1> DEFINE id == FirstId
           new == [id |-> id, name |-> n, after |-> after, disconnected |-> FALSE]
           k == Len(conns) + 1
<1>1. TypeOK /\ IdsLead /\ UnflaggedFound /\ ListsLead /\ IdsOrdered /\ Dismantled
    BY DEF SignalsInv, IndexesAgree
<1>2. /\ Len(conns) \in Nat
      /\ DOMAIN conns = 1..Len(conns)
      /\ id \in Nat \ {0}
      /\ \A i \in DOMAIN byId : i \in Nat \ {0} /\ byId[i] \in 1..Len(conns)
    BY <1>1, Types
<1>3. new \in Connection /\ conns \in Seq(Connection)
    BY <1>1, <1>2 DEF Connection, TypeOK
<1>4. /\ conns' = Append(conns, new)
      /\ byId' = [i \in DOMAIN byId \cup {id} |-> IF i = id THEN k ELSE byId[i]]
      /\ byName' = [m \in DOMAIN byName \cup {n} |->
                       IF m = n THEN Append(IdsOf(n), id) ELSE byName[m]]
      /\ nextId' = id + 1
      /\ machinery' = TRUE
      /\ emissions' = emissions
    BY DEF Connect
<1> HIDE DEF id
<1>5. /\ conns' \in Seq(Connection)
      /\ Len(conns') = k
      /\ \A i \in 1..Len(conns) : conns'[i] = conns[i]
      /\ conns'[k] = new
    <2> HIDE DEF new
    <2> QED
        BY <1>3, <1>4, AppendProperties
<1>6. FirstId' = id + 1
    BY <1>4 DEF FirstId
<1>7. \A i \in DOMAIN byId : i < id
    BY <1>1 DEF IdsLead, id
<1>8. /\ IdsOf(n) \in Seq(Nat \ {0})
      /\ \A i \in 1..Len(IdsOf(n)) :
            IdsOf(n)[i] \in DOMAIN byId /\ conns[byId[IdsOf(n)[i]]].name = n
      /\ \A i, j \in 1..Len(IdsOf(n)) : i < j => IdsOf(n)[i] < IdsOf(n)[j]
    <2>1. CASE n \in DOMAIN byName
        BY <1>1, <2>1 DEF IdsOf, TypeOK, ListsLead
    <2>2. CASE n \notin DOMAIN byName
        BY <2>2, EmptySeq DEF IdsOf
    <2> QED
        BY <2>1, <2>2
<1> DEFINE ids == Append(IdsOf(n), id)
           l == Len(IdsOf(n))
<1>9. /\ l \in Nat
      /\ ids \in Seq(Nat \ {0})
      /\ Len(ids) = l + 1
      /\ ids # << >>
      /\ \A i \in 1..l : ids[i] = IdsOf(n)[i]
      /\ ids[l + 1] = id
    BY <1>2, <1>8, AppendProperties, LenProperties
<1>10. /\ DOMAIN byName' = DOMAIN byName \cup {n}
       /\ byName'[n] = ids
       /\ \A m \in DOMAIN byName : m # n => byName'[m] = byName[m]
    BY <1>4
<1>11. /\ DOMAIN byId' = DOMAIN byId \cup {id}
       /\ byId'[id] = k
       /\ \A i \in DOMAIN byId : byId'[i] = byId[i]
       /\ id \notin DOMAIN byId
    BY <1>2, <1>4, <1>7
<1> HIDE DEF ids, l, k
<1>12. \A i \in 1..Len(conns') : i \in 1..Len(conns) \/ i = k
    BY <1>2, <1>5 DEF k
<1>13. \A i \in 1..Len(conns) : i \in 1..k /\ i # k /\ i < k
    BY <1>2 DEF k
<1>14. TypeOK'
    <2>1. emissions' \in Seq(EmissionOf(Len(conns')))
        <3>1. Len(conns) <= Len(conns') /\ Len(conns') \in Nat
            BY <1>2, <1>5 DEF k
        <3>2. emissions \in Seq(EmissionOf(Len(conns)))
            BY <1>1, Types
        <3> QED
            BY <1>2, <1>4, <3>1, <3>2, EmissionsGrow
    <2>2. DOMAIN byId' \subseteq Nat \ {0} /\ \A i \in DOMAIN byId' : byId'[i] \in 1..Len(conns')
        BY <1>2, <1>5, <1>11, <1>13 DEF k
    <2>3. /\ DOMAIN byName' \subseteq Names
          /\ \A m \in DOMAIN byName' : byName'[m] \in Seq(Nat \ {0})
        BY <1>1, <1>9, <1>10 DEF TypeOK
    <2>4. machinery' \in BOOLEAN /\ nextId' \in Nat \ {0}
        BY <1>2, <1>4
    <2> QED
        BY <1>5, <2>1, <2>2, <2>3, <2>4 DEF TypeOK, Emission, EmissionOf
<1>15. IdsLead'
    <2> SUFFICES ASSUME NEW i \in DOMAIN byId'
                 PROVE  /\ conns'[byId'[i]].id = i
                        /\ i < id + 1
                        /\ ~conns'[byId'[i]].disconnected
                        /\ conns'[byId'[i]].name \in DOMAIN byName'
                        /\ \E p \in 1..Len(byName'[conns'[byId'[i]].name]) :
                              byName'[conns'[byId'[i]].name][p] = i
        BY <1>6 DEF IdsLead
    <2>1. CASE i = id
        <3>1. conns'[byId'[i]] = new
            BY <1>5, <1>11, <2>1
        <3>2. l + 1 \in 1..Len(ids)
            BY <1>9
        <3> QED
            BY <1>2, <1>9, <1>10, <2>1, <3>1, <3>2
    <2>2. CASE i \in DOMAIN byId
        <3>1. byId'[i] = byId[i] /\ byId[i] \in 1..Len(conns)
            BY <1>2, <1>11, <2>2
        <3>2. conns'[byId'[i]] = conns[byId[i]]
            BY <1>5, <3>1
        <3> DEFINE m == conns[byId[i]].name
        <3>3. /\ conns[byId[i]].id = i
              /\ ~conns[byId[i]].disconnected
              /\ m \in DOMAIN byName
              /\ \E p \in 1..Len(byName[m]) : byName[m][p] = i
            BY <1>1, <2>2 DEF IdsLead
        <3> HIDE DEF m
        <3>4. \E p \in 1..Len(byName'[m]) : byName'[m][p] = i
            <4>1. CASE m = n
                <5>1. byName[m] = IdsOf(n)
                    BY <3>3, <4>1 DEF IdsOf
                <5>2. \A p \in 1..l : p \in 1..Len(ids)
                    BY <1>9
                <5> QED
                    BY <1>9, <1>10, <3>3, <4>1, <5>1, <5>2 DEF l
            <4>2. CASE m # n
                BY <1>10, <3>3, <4>2
            <4> QED
                BY <4>1, <4>2
        <3>5. i < id + 1
            BY <1>2, <1>7, <2>2
        <3> QED
            BY <1>10, <3>2, <3>3, <3>4, <3>5 DEF m
    <2> QED
        BY <1>11, <2>1, <2>2
<1>16. UnflaggedFound'
    <2> SUFFICES ASSUME NEW i \in 1..Len(conns'), ~conns'[i].disconnected
                 PROVE  conns'[i].id \in DOMAIN byId' /\ byId'[conns'[i].id] = i
        BY DEF UnflaggedFound
    <2>1. CASE i = k
        BY <1>5, <1>11, <2>1
    <2>2. CASE i \in 1..Len(conns)
        BY <1>1, <1>5, <1>11, <2>2 DEF UnflaggedFound
    <2> QED
        BY <1>12, <2>1, <2>2
<1>17. ListsLead'
    <2> SUFFICES ASSUME NEW m \in DOMAIN byName'
                 PROVE  /\ byName'[m] # << >>
                        /\ \A i \in 1..Len(byName'[m]) :
                              /\ byName'[m][i] \in DOMAIN byId'
                              /\ conns'[byId'[byName'[m][i]]].name = m
                        /\ \A i, j \in 1..Len(byName'[m]) : i < j => byName'[m][i] < byName'[m][j]
        BY DEF ListsLead
    <2>1. \A i \in DOMAIN byId : conns'[byId'[i]] = conns[byId[i]]
        BY <1>2, <1>5, <1>11
    <2>2. CASE m = n
        <3>1. \A i \in 1..Len(ids) : i \in 1..l \/ i = l + 1
            BY <1>9
        <3>2. \A i \in 1..Len(ids) : ids[i] \in DOMAIN byId' /\ conns'[byId'[ids[i]]].name = n
            <4>1. conns'[byId'[id]].name = n /\ id \in DOMAIN byId'
                BY <1>5, <1>11
            <4>2. ASSUME NEW i \in 1..l
                  PROVE  ids[i] \in DOMAIN byId' /\ conns'[byId'[ids[i]]].name = n
                <5>1. ids[i] \in DOMAIN byId /\ conns[byId[ids[i]]].name = n
                    BY <1>8, <1>9 DEF l
                <5> QED
                    BY <1>11, <2>1, <5>1
            <4> QED
                BY <1>9, <3>1, <4>1, <4>2
        <3>3. \A i, j \in 1..Len(ids) : i < j => ids[i] < ids[j]
            <4> SUFFICES ASSUME NEW i \in 1..Len(ids), NEW j \in 1..Len(ids), i < j
                         PROVE  ids[i] < ids[j]
                OBVIOUS
            <4>1. i \in 1..l
                BY <1>9
            <4>2. CASE j = l + 1
                BY <1>7, <1>8, <1>9, <4>1, <4>2 DEF l
            <4>3. CASE j \in 1..l
                BY <1>8, <1>9, <4>1, <4>3 DEF l
            <4> QED
                BY <3>1, <4>2, <4>3
        <3> QED
            BY <1>9, <1>10, <2>2, <3>2, <3>3
    <2>3. CASE m # n
        <3>1. m \in DOMAIN byName /\ byName'[m] = byName[m]
            BY <1>10, <2>3
        <3> QED
            BY <1>1, <1>11, <2>1, <3>1 DEF ListsLead
    <2> QED
        BY <2>2, <2>3
<1>18. IdsOrdered'
    BY <1>1, <1>2, <1>7, <1>11, <1>13 DEF IdsOrdered
<1>19. Dismantled'
    BY <1>4 DEF Dismantled
<1>20. EmissionsAscend'
    BY <1>4 DEF SignalsInv, EmissionsAscend
<1> QED
    BY <1>14, <1>15, <1>16, <1>17, <1>18, <1>19, <1>20 DEF SignalsInv, IndexesAgree

-----------------------------------------------------------------------------
(* Flags change, and nothing else about the connections.                    *)
LEMMA FlagsChange ==
    ASSUME TypeOK,
           conns' \in [1..Len(conns) -> Connection],
           \A k \in 1..Len(conns) :
               /\ conns'[k].id = conns[k].id
               /\ conns'[k].name = conns[k].name,
           emissions' = emissions
    PROVE  /\ conns' \in Seq(Connection)
           /\ Len(conns') = Len(conns)
           /\ emissions' \in Seq(Emission)'
<1>1. Len(conns) \in Nat
    BY Types
<1>2. conns' \in Seq(Connection) /\ Len(conns') = Len(conns)
    BY <1>1, SameLength
<1>3. emissions' \in Seq(Emission)'
    BY <1>2 DEF TypeOK, Emission
<1> QED
    BY <1>2, <1>3

LEMMA DisconnectAllStep ==
    ASSUME SignalsInv, DisconnectAll
    PROVE  SignalsInv'
<1>1. TypeOK /\ UnflaggedFound /\ EmissionsAscend
    BY DEF SignalsInv, IndexesAgree
<1>2. /\ Len(conns) \in Nat
      /\ DOMAIN conns = 1..Len(conns)
      /\ \A k \in 1..Len(conns) : conns[k] \in Connection
    BY <1>1, Types
<1>3. /\ conns' = AllFlagged
      /\ byId' = << >> /\ byName' = << >> /\ machinery' = FALSE
      /\ UNCHANGED <<nextId, emissions>>
    BY DEF DisconnectAll
<1>4. DOMAIN byId' = {} /\ DOMAIN byName' = {}
    BY <1>3
<1>5. /\ conns' \in [1..Len(conns) -> Connection]
      /\ \A k \in 1..Len(conns) :
            /\ conns'[k].id = conns[k].id
            /\ conns'[k].name = conns[k].name
            /\ conns'[k].disconnected <=>
                  conns[k].disconnected \/ \E id \in DOMAIN byId : byId[id] = k
    BY <1>2, <1>3 DEF AllFlagged, Connection
<1>6. \A k \in 1..Len(conns) : conns'[k].disconnected
    BY <1>1, <1>5 DEF UnflaggedFound
<1>7. conns' \in Seq(Connection) /\ Len(conns') = Len(conns) /\ emissions' \in Seq(Emission)'
    BY <1>1, <1>3, <1>5, FlagsChange
<1>8. TypeOK'
    BY <1>1, <1>3, <1>4, <1>7 DEF TypeOK
<1>9. IndexesAgree'
    BY <1>3, <1>4, <1>6, <1>7
       DEF IndexesAgree, IdsLead, UnflaggedFound, ListsLead, IdsOrdered, Dismantled
<1>10. EmissionsAscend'
    BY <1>1, <1>3 DEF EmissionsAscend
<1> QED
    BY <1>8, <1>9, <1>10 DEF SignalsInv

(* N is what _disconnect() should leave of the lists: only the list of the  *)
(* id's name changes, it loses this id and no other, and goes when empty.   *)
LosesOnly(N, n, id) ==
    /\ DOMAIN N \subseteq DOMAIN byName
    /\ \A m \in DOMAIN byName \ {n} : m \in DOMAIN N /\ N[m] = byName[m]
    /\ n \in DOMAIN N =>
          /\ N[n] \in Seq(Nat \ {0}) /\ N[n] # << >>
          /\ \A i \in 1..Len(N[n]) : \E j \in 1..Len(byName[n]) :
                N[n][i] = byName[n][j] /\ byName[n][j] # id
          /\ \A i, j \in 1..Len(N[n]) : i < j => N[n][i] < N[n][j]
    /\ \A j \in 1..Len(byName[n]) : byName[n][j] # id =>
          n \in DOMAIN N /\ \E i \in 1..Len(N[n]) : N[n][i] = byName[n][j]

LEMMA UnlistedIs ==
    ASSUME SignalsInv, NEW id \in DOMAIN byId, NEW n, n = conns[byId[id]].name
    PROVE  LosesOnly(Unlisted(id, n), n, id)
<1>1. PICK N : N = Unlisted(id, n)
    OBVIOUS
<1>2. PICK ids : ids = byName[n]
    OBVIOUS
<1>3. SUFFICES /\ DOMAIN N \subseteq DOMAIN byName
               /\ \A m \in DOMAIN byName \ {n} : m \in DOMAIN N /\ N[m] = byName[m]
               /\ n \in DOMAIN N =>
                     /\ N[n] \in Seq(Nat \ {0}) /\ N[n] # << >>
                     /\ \A i \in 1..Len(N[n]) : \E j \in 1..Len(ids) :
                           N[n][i] = ids[j] /\ ids[j] # id
                     /\ \A i, j \in 1..Len(N[n]) : i < j => N[n][i] < N[n][j]
               /\ \A j \in 1..Len(ids) : ids[j] # id =>
                     n \in DOMAIN N /\ \E i \in 1..Len(N[n]) : N[n][i] = ids[j]
    BY <1>1, <1>2 DEF LosesOnly
<1> DEFINE p == CHOOSE i \in 1..Len(ids) : ids[i] = id
<1>4. TypeOK /\ IdsLead /\ ListsLead
    BY DEF SignalsInv, IndexesAgree
<1>5. n \in DOMAIN byName /\ \E i \in 1..Len(ids) : ids[i] = id
    BY <1>2, <1>4 DEF IdsLead
<1>6. p \in 1..Len(ids) /\ ids[p] = id
    BY <1>5
<1>7. /\ ids \in Seq(Nat \ {0})
      /\ Len(ids) \in Nat
      /\ \A i, j \in 1..Len(ids) : i < j => ids[i] < ids[j]
      /\ \A i \in 1..Len(ids) : ids[i] \in Nat
    BY <1>2, <1>4, <1>5, LenProperties, ElementOfSeq DEF TypeOK, ListsLead
<1>8. N = IF Len(ids) = 1 THEN [m \in DOMAIN byName \ {n} |-> byName[m]]
          ELSE [byName EXCEPT ![n] = RemoveAt(ids, p)]
    BY <1>1, <1>2, <1>5 DEF Unlisted
<1> HIDE DEF p
<1>9. CASE Len(ids) = 1
    <2>1. \A j \in 1..Len(ids) : ids[j] = id
        BY <1>6, <1>9
    <2> QED
        BY <1>8, <1>9, <2>1
<1>10. CASE Len(ids) # 1
    <2> DEFINE rest == RemoveAt(ids, p)
               Pos == Nat \ {0}
               l == Len(ids)
    <2>1. /\ rest \in Seq(Pos)
          /\ Len(rest) = Len(ids) - 1
          /\ \A i \in 1..Len(ids) - 1 : rest[i] = IF i < p THEN ids[i] ELSE ids[i + 1]
        <3>1. ids \in Seq(Pos)
            BY <1>7
        <3> HIDE DEF Pos
        <3> QED
            BY <1>6, <3>1, RemoveAtElements
    <2>2. p \in Nat /\ l > 1
        <3>1. l \in Nat /\ p \in 1..l /\ l # 1
            BY <1>6, <1>7, <1>10
        <3> HIDE DEF l
        <3> QED
            BY <3>1
    <2>3. /\ DOMAIN N = DOMAIN byName
          /\ N[n] = rest
          /\ \A m \in DOMAIN byName \ {n} : N[m] = byName[m]
        BY <1>5, <1>8, <1>10
    <2> HIDE DEF rest
    <2>4. \A i \in 1..Len(rest) :
              /\ i \in 1..Len(ids) - 1
              /\ i < p => i \in 1..Len(ids) /\ i # p
              /\ ~(i < p) => i + 1 \in 1..Len(ids) /\ i + 1 # p
        BY <1>7, <2>1, <2>2
    <2>5. \A j \in 1..Len(ids) : j # p => ids[j] # id
        BY <1>6, <1>7
    <2>6. \A i \in 1..Len(rest) : \E j \in 1..Len(ids) : rest[i] = ids[j] /\ ids[j] # id
        BY <2>1, <2>4, <2>5
    <2>7. \A i, j \in 1..Len(rest) : i < j => rest[i] < rest[j]
        <3> SUFFICES ASSUME NEW i \in 1..Len(rest), NEW j \in 1..Len(rest), i < j
                     PROVE  rest[i] < rest[j]
            OBVIOUS
        <3>1. CASE j < p
            BY <1>7, <2>1, <2>2, <2>4, <3>1
        <3>2. CASE ~(j < p) /\ i < p
            <4>1. i < j + 1
                OBVIOUS
            <4> QED
                BY <1>7, <2>1, <2>4, <3>2, <4>1
        <3>3. CASE ~(i < p)
            <4>1. i + 1 < j + 1 /\ ~(j < p)
                BY <2>2, <3>3
            <4> QED
                BY <1>7, <2>1, <2>4, <3>3, <4>1
        <3> QED
            BY <3>1, <3>2, <3>3
    <2>8. \A j \in 1..Len(ids) : ids[j] # id => \E i \in 1..Len(rest) : rest[i] = ids[j]
        <3> SUFFICES ASSUME NEW j \in 1..Len(ids), ids[j] # id
                     PROVE  \E i \in 1..Len(rest) : rest[i] = ids[j]
            OBVIOUS
        <3>1. j # p
            BY <1>6
        <3>2. CASE j < p
            <4>1. j \in 1..Len(ids) - 1
                BY <1>6, <1>7, <3>2
            <4> QED
                BY <2>1, <3>2, <4>1
        <3>3. CASE ~(j < p)
            <4>1. /\ j - 1 \in 1..Len(ids) - 1
                  /\ ~(j - 1 < p)
                  /\ (j - 1) + 1 = j
                BY <1>6, <1>7, <2>2, <3>1, <3>3
            <4> QED
                BY <2>1, <4>1
        <3> QED
            BY <3>2, <3>3
    <2>9. rest # << >>
        BY <2>1, <2>2, EmptySeq
    <2>10. N[n] \in Seq(Nat \ {0}) /\ N[n] # << >>
        BY <2>1, <2>3, <2>9
    <2> HIDE DEF Pos, l
    <2>11. /\ \A i \in 1..Len(N[n]) : \E j \in 1..Len(ids) : N[n][i] = ids[j] /\ ids[j] # id
           /\ \A i, j \in 1..Len(N[n]) : i < j => N[n][i] < N[n][j]
        BY <2>3, <2>6, <2>7
    <2>12. \A j \in 1..Len(ids) : ids[j] # id =>
                  n \in DOMAIN N /\ \E i \in 1..Len(N[n]) : N[n][i] = ids[j]
        BY <1>5, <2>3, <2>8
    <2> QED
        BY <2>3, <2>10, <2>11, <2>12
<1> QED
    BY <1>9, <1>10

LEMMA DisconnectStep ==
    ASSUME SignalsInv, NEW id \in DOMAIN byId, Disconnect(id)
    PROVE  SignalsInv'
<1>1. TypeOK /\ IdsLead /\ UnflaggedFound /\ ListsLead /\ IdsOrdered /\ Dismantled
    BY DEF SignalsInv, IndexesAgree
<1>2. /\ Len(conns) \in Nat
      /\ DOMAIN conns = 1..Len(conns)
      /\ \A i \in 1..Len(conns) : conns[i] \in Connection
      /\ \A i \in DOMAIN byId : i \in Nat \ {0} /\ byId[i] \in 1..Len(conns)
    BY <1>1, Types
<1>3. PICK k \in 1..Len(conns) : k = byId[id]
    BY <1>2
<1>4. PICK n \in Names : n = conns[k].name
    BY <1>2, <1>3 DEF Connection
<1>5. PICK N : N = Unlisted(id, n)
    OBVIOUS
<1>6. PICK ids : ids = byName[n]
    OBVIOUS
<1>7. /\ conns' = [conns EXCEPT ![k].disconnected = TRUE]
      /\ byId' = [i \in DOMAIN byId \ {id} |-> byId[i]]
      /\ byName' = N
      /\ UNCHANGED <<machinery, nextId, emissions>>
    BY <1>3, <1>4, <1>5 DEF Disconnect
<1>8. /\ DOMAIN N \subseteq DOMAIN byName
      /\ \A m \in DOMAIN byName \ {n} : m \in DOMAIN N /\ N[m] = byName[m]
      /\ n \in DOMAIN N =>
            /\ N[n] \in Seq(Nat \ {0}) /\ N[n] # << >>
            /\ \A i \in 1..Len(N[n]) : \E j \in 1..Len(ids) :
                  N[n][i] = ids[j] /\ ids[j] # id
            /\ \A i, j \in 1..Len(N[n]) : i < j => N[n][i] < N[n][j]
      /\ \A j \in 1..Len(ids) : ids[j] # id =>
            n \in DOMAIN N /\ \E i \in 1..Len(N[n]) : N[n][i] = ids[j]
    <2>1. n = conns[byId[id]].name
        BY <1>3, <1>4
    <2>2. LosesOnly(N, n, id)
        BY <1>5, <2>1, UnlistedIs
    <2> QED
        BY <1>6, <2>2 DEF LosesOnly
<1>9. /\ conns' \in [1..Len(conns) -> Connection]
      /\ \A i \in 1..Len(conns) :
            /\ conns'[i].id = conns[i].id
            /\ conns'[i].name = conns[i].name
            /\ i # k => conns'[i] = conns[i]
      /\ conns'[k].disconnected
    BY <1>2, <1>7 DEF Connection
<1>10. conns' \in Seq(Connection) /\ Len(conns') = Len(conns) /\ emissions' \in Seq(Emission)'
    BY <1>1, <1>7, <1>9, FlagsChange
<1>11. /\ DOMAIN byId' = DOMAIN byId \ {id}
       /\ \A i \in DOMAIN byId' : byId'[i] = byId[i]
    BY <1>7
<1>12. TypeOK'
    <2>1. DOMAIN byId' \subseteq Nat \ {0} /\ \A i \in DOMAIN byId' : byId'[i] \in 1..Len(conns')
        BY <1>2, <1>10, <1>11
    <2>2. DOMAIN byName' \subseteq Names /\ \A m \in DOMAIN byName' : byName'[m] \in Seq(Nat \ {0})
        BY <1>1, <1>7, <1>8 DEF TypeOK
    <2> QED
        BY <1>1, <1>7, <1>10, <2>1, <2>2 DEF TypeOK
<1>13. \A i \in DOMAIN byId' : i \in DOMAIN byId /\ i # id /\ byId[i] # k
    BY <1>1, <1>3, <1>11 DEF IdsLead
<1>14. \A i \in DOMAIN byId' : byId'[i] = byId[i] /\ conns'[byId'[i]] = conns[byId[i]]
    BY <1>2, <1>9, <1>11, <1>13
<1>15. IdsLead'
    <2> SUFFICES ASSUME NEW i \in DOMAIN byId'
                 PROVE  /\ conns'[byId'[i]].id = i
                        /\ i < FirstId'
                        /\ ~conns'[byId'[i]].disconnected
                        /\ conns'[byId'[i]].name \in DOMAIN byName'
                        /\ \E p \in 1..Len(byName'[conns'[byId'[i]].name]) :
                              byName'[conns'[byId'[i]].name][p] = i
        BY DEF IdsLead
    <2>1. PICK m : m = conns[byId[i]].name
        OBVIOUS
    <2>2. /\ conns[byId[i]].id = i
          /\ i < FirstId
          /\ ~conns[byId[i]].disconnected
          /\ m \in DOMAIN byName
          /\ \E p \in 1..Len(byName[m]) : byName[m][p] = i
        BY <1>1, <1>13, <2>1 DEF IdsLead
    <2>3. FirstId' = FirstId
        BY <1>7 DEF FirstId
    <2>4. m \in DOMAIN byName' /\ \E p \in 1..Len(byName'[m]) : byName'[m][p] = i
        <3>1. CASE m = n
            <4>1. PICK j \in 1..Len(ids) : ids[j] = i /\ ids[j] # id
                BY <1>6, <1>13, <2>2, <3>1
            <4>2. n \in DOMAIN N /\ \E p \in 1..Len(N[n]) : N[n][p] = i
                BY <1>8, <4>1
            <4> QED
                BY <1>7, <3>1, <4>2
        <3>2. CASE m # n
            BY <1>7, <1>8, <2>2, <3>2
        <3> QED
            BY <3>1, <3>2
    <2> QED
        BY <1>14, <2>1, <2>2, <2>3, <2>4
<1>16. UnflaggedFound'
    <2> SUFFICES ASSUME NEW i \in 1..Len(conns), ~conns'[i].disconnected
                 PROVE  conns'[i].id \in DOMAIN byId' /\ byId'[conns'[i].id] = i
        BY <1>10 DEF UnflaggedFound
    <2>1. i # k /\ conns'[i] = conns[i]
        BY <1>9
    <2>2. conns[i].id \in DOMAIN byId /\ byId[conns[i].id] = i
        BY <1>1, <2>1 DEF UnflaggedFound
    <2>3. conns[i].id # id
        BY <1>3, <2>1, <2>2
    <2> QED
        BY <1>11, <2>1, <2>2, <2>3
<1>17. ListsLead'
    <2> SUFFICES ASSUME NEW m \in DOMAIN N
                 PROVE  /\ N[m] # << >>
                        /\ \A i \in 1..Len(N[m]) :
                              /\ N[m][i] \in DOMAIN byId'
                              /\ conns'[byId'[N[m][i]]].name = m
                        /\ \A i, j \in 1..Len(N[m]) : i < j => N[m][i] < N[m][j]
        BY <1>7 DEF ListsLead
    <2>1. /\ m \in DOMAIN byName
          /\ \A i \in 1..Len(byName[m]) :
                byName[m][i] \in DOMAIN byId /\ conns[byId[byName[m][i]]].name = m
        BY <1>1, <1>8 DEF ListsLead
    <2>2. CASE m = n
        <3>1. \A i \in 1..Len(N[n]) :
                  N[n][i] \in DOMAIN byId' /\ conns'[byId'[N[n][i]]].name = n
            <4> SUFFICES ASSUME NEW i \in 1..Len(N[n])
                         PROVE  N[n][i] \in DOMAIN byId' /\ conns'[byId'[N[n][i]]].name = n
                OBVIOUS
            <4>1. PICK j \in 1..Len(ids) : N[n][i] = ids[j] /\ ids[j] # id
                BY <1>8, <2>2
            <4>2. ids[j] \in DOMAIN byId /\ conns[byId[ids[j]]].name = n
                BY <1>6, <2>1, <2>2
            <4>3. ids[j] \in DOMAIN byId'
                BY <1>11, <4>1, <4>2
            <4> QED
                BY <1>14, <4>1, <4>2, <4>3
        <3> QED
            BY <1>8, <2>2, <3>1
    <2>3. CASE m # n
        <3>1. N[m] = byName[m]
            BY <1>8, <2>1, <2>3
        <3>2. \A i \in 1..Len(byName[m]) : byName[m][i] # id
            BY <1>3, <1>4, <2>1, <2>3
        <3> QED
            BY <1>1, <1>11, <1>14, <2>1, <3>1, <3>2 DEF ListsLead
    <2> QED
        BY <2>2, <2>3
<1>18. IdsOrdered'
    BY <1>1, <1>11 DEF IdsOrdered
<1>19. Dismantled'
    BY <1>1, <1>7 DEF Dismantled, Disconnect
<1>20. EmissionsAscend'
    BY <1>7 DEF SignalsInv, EmissionsAscend
<1> QED
    BY <1>12, <1>15, <1>16, <1>17, <1>18, <1>19, <1>20 DEF SignalsInv, IndexesAgree

-----------------------------------------------------------------------------
(* The indexes stay as they are while an emission goes on.                  *)
LEMMA IndexStays ==
    ASSUME SignalsInv, UNCHANGED index, emissions' \in Seq(Emission),
           \A e \in 1..Len(emissions') : Ascending(emissions'[e].handlers)
    PROVE  SignalsInv'
<1>1. TypeOK'
    BY DEF SignalsInv, TypeOK, index, Connection, Emission
<1>2. IndexesAgree'
    BY DEF SignalsInv, index, IndexesAgree, IdsLead, UnflaggedFound, ListsLead, IdsOrdered,
           Dismantled, FirstId
<1>3. EmissionsAscend'
    BY DEF EmissionsAscend
<1> QED
    BY <1>1, <1>2, <1>3 DEF SignalsInv

(* The innermost emission goes on or returns.                               *)
LEMMA TopStays ==
    ASSUME SignalsInv, UNCHANGED index, emissions # << >>,
           \/ emissions' = Under
           \/ \E x \in Emission : x.handlers = Top.handlers /\ emissions' = Append(Under, x)
    PROVE  SignalsInv'
<1>1. emissions \in Seq(Emission) /\ EmissionsAscend
    BY DEF SignalsInv, TypeOK
<1>2. /\ Under \in Seq(Emission)
      /\ Len(emissions) \in Nat \ {0}
      /\ Len(Under) = Len(emissions) - 1
      /\ \A i \in 1..Len(emissions) - 1 : Under[i] = emissions[i]
    BY <1>1, Popped DEF Under
<1>3. CASE emissions' = Under
    <2>1. \A e \in 1..Len(emissions') :
              e \in 1..Len(emissions) /\ emissions'[e] = emissions[e]
        BY <1>2, <1>3
    <2> QED
        BY <1>1, <1>2, <1>3, <2>1, IndexStays DEF EmissionsAscend
<1>4. ASSUME NEW x \in Emission, x.handlers = Top.handlers, emissions' = Append(Under, x)
      PROVE  SignalsInv'
    <2>1. /\ emissions' \in Seq(Emission)
          /\ Len(emissions') = Len(emissions)
          /\ emissions'[Len(emissions)] = x
          /\ \A i \in 1..Len(emissions) - 1 : emissions'[i] = emissions[i]
        BY <1>1, <1>4, TopReplaced DEF Under
    <2>2. \A e \in 1..Len(emissions') : e \in 1..Len(emissions) - 1 \/ e = Len(emissions)
        BY <1>2, <2>1
    <2>3. x.handlers = emissions[Len(emissions)].handlers
        BY <1>4 DEF Top, Last
    <2>4. \A e \in 1..Len(emissions') : Ascending(emissions'[e].handlers)
        BY <1>1, <1>2, <2>1, <2>2, <2>3 DEF EmissionsAscend
    <2> QED
        BY <2>1, <2>4, IndexStays
<1> QED
    BY <1>3, <1>4

LEMMA SignalsInit == Init => SignalsInv
<1> SUFFICES ASSUME Init
             PROVE  SignalsInv
    OBVIOUS
<1>1. /\ conns = << >> /\ machinery = FALSE /\ byId = << >> /\ byName = << >>
      /\ nextId = 1 /\ emissions = << >>
    BY DEF Init
<1>2. DOMAIN byId = {} /\ DOMAIN byName = {} /\ Len(conns) = 0 /\ Len(emissions) = 0
    BY <1>1
<1>3. conns \in Seq(Connection) /\ emissions \in Seq(Emission)
    BY <1>1, EmptySeq
<1>4. TypeOK
    <2>1. DOMAIN byId \subseteq Nat \ {0} /\ \A id \in DOMAIN byId : byId[id] \in 1..Len(conns)
        BY <1>2
    <2>2. DOMAIN byName \subseteq Names /\ \A n \in DOMAIN byName : byName[n] \in Seq(Nat \ {0})
        BY <1>2
    <2>3. machinery \in BOOLEAN
        BY <1>1, Zenon
    <2>4. nextId \in Nat \ {0}
        <3>1. nextId = 1
            BY <1>1
        <3> QED
            BY <3>1
    <2> QED
        BY <1>3, <2>1, <2>2, <2>3, <2>4 DEF TypeOK
<1>5. IndexesAgree
    BY <1>1, <1>2
       DEF IndexesAgree, IdsLead, UnflaggedFound, ListsLead, IdsOrdered, Dismantled
<1>6. EmissionsAscend
    BY <1>2 DEF EmissionsAscend
<1> QED
    BY <1>4, <1>5, <1>6 DEF SignalsInv

(* What _emit() copies: a connection for each id, in the order of           *)
(* connection.                                                              *)
LEMMA SnapshotIs ==
    ASSUME SignalsInv, NEW n \in DOMAIN byName
    PROVE  Snapshot(n) \in Seq(1..Len(conns)) /\ Ascending(Snapshot(n))
<1>1. TypeOK /\ ListsLead /\ IdsOrdered
    BY DEF SignalsInv, IndexesAgree
<1>2. PICK ids : ids = byName[n]
    OBVIOUS
<1> DEFINE Pos == Nat \ {0}
<1>3. ids \in Seq(Pos)
    BY <1>1, <1>2 DEF TypeOK
<1> HIDE DEF Pos
<1>4. Len(ids) \in Nat
    BY <1>3, LenProperties
<1>5. /\ \A i \in 1..Len(ids) : ids[i] \in DOMAIN byId
      /\ \A i, j \in 1..Len(ids) : i < j => ids[i] < ids[j]
    BY <1>1, <1>2 DEF ListsLead
<1>6. \A i \in 1..Len(ids) : byId[ids[i]] \in 1..Len(conns)
    BY <1>1, <1>5, Types
<1>7. PICK h : h = [i \in 1..Len(ids) |-> byId[ids[i]]]
    OBVIOUS
<1>8. h \in [1..Len(ids) -> 1..Len(conns)]
    BY <1>6, <1>7
<1>9. h \in Seq(1..Len(conns)) /\ Len(h) = Len(ids)
    BY <1>4, <1>8, LenProperties, SeqDef
<1>10. \A i, j \in 1..Len(h) : i < j => h[i] < h[j]
    BY <1>1, <1>5, <1>7, <1>9 DEF IdsOrdered
<1> QED
    BY <1>2, <1>7, <1>9, <1>10 DEF Snapshot, Ascending

LEMMA EmitStep ==
    ASSUME SignalsInv, NEW n \in Names, Emit(n)
    PROVE  SignalsInv'
<1>1. emissions \in Seq(Emission) /\ EmissionsAscend
    BY DEF SignalsInv, TypeOK
<1>2. PICK x : x = [handlers |-> Snapshot(n), after |-> FALSE, at |-> 1, running |-> 0]
    OBVIOUS
<1>3. emissions' = Append(emissions, x) /\ UNCHANGED index
    BY <1>2 DEF Emit
<1>4. Snapshot(n) \in Seq(1..Len(conns)) /\ Ascending(Snapshot(n))
    BY SnapshotIs DEF Emit
<1>5. Len(conns) \in Nat
    BY Types DEF SignalsInv
<1>6. x \in Emission /\ Ascending(x.handlers)
    BY <1>2, <1>4, <1>5 DEF Emission
<1>7. /\ emissions' \in Seq(Emission)
      /\ Len(emissions') = Len(emissions) + 1
      /\ \A i \in 1..Len(emissions) : emissions'[i] = emissions[i]
      /\ emissions'[Len(emissions) + 1] = x
    BY <1>1, <1>3, <1>6, AppendProperties
<1>8. Len(emissions) \in Nat
    BY <1>1, LenProperties
<1>9. \A e \in 1..Len(emissions') : e \in 1..Len(emissions) \/ e = Len(emissions) + 1
    BY <1>7, <1>8
<1>10. \A e \in 1..Len(emissions') : Ascending(emissions'[e].handlers)
    BY <1>1, <1>6, <1>7, <1>9 DEF EmissionsAscend
<1> QED
    BY <1>3, <1>7, <1>10, IndexStays

(* Moving an emission on leaves its handlers alone.                         *)
LEMMA MovedOn ==
    ASSUME NEW H, NEW P, NEW R,
           NEW t \in [handlers : H, after : BOOLEAN, at : P, running : R],
           NEW p \in P, NEW r \in R
    PROVE  LET E == [handlers : H, after : BOOLEAN, at : P, running : R] IN
           /\ [t EXCEPT !.at = p, !.running = r] \in E
           /\ [t EXCEPT !.at = p, !.after = TRUE] \in E
           /\ [t EXCEPT !.at = p] \in E
           /\ [t EXCEPT !.running = r] \in E
           /\ [t EXCEPT !.at = p, !.running = r].handlers = t.handlers
           /\ [t EXCEPT !.at = p, !.after = TRUE].handlers = t.handlers
           /\ [t EXCEPT !.at = p].handlers = t.handlers
           /\ [t EXCEPT !.running = r].handlers = t.handlers
OBVIOUS

(* The steps of the loop over the handlers, all on the innermost emission.  *)
LEMMA LoopSteps ==
    ASSUME SignalsInv,
           \/ Skip \/ Call \/ BeforeDone \/ AfterDone
           \/ \E stop \in BOOLEAN : Return(stop)
    PROVE  SignalsInv'
<1>1. emissions # << >> /\ UNCHANGED index
    BY DEF Skip, Call, BeforeDone, AfterDone, Return, InLoop
<1>2. emissions \in Seq(Emission) /\ Len(conns) \in Nat
    BY Types DEF SignalsInv, TypeOK
<1>3. Top \in Emission
    BY <1>1, <1>2, Popped DEF Top
<1>4. PICK t \in Emission : t = Top
    BY <1>3
<1>5. t.handlers \in Seq(1..Len(conns)) /\ t.at \in Nat \ {0} /\ t.after \in BOOLEAN
    BY DEF Emission
<1> DEFINE Pos == Nat \ {0}
<1>11. /\ t \in [handlers : Seq(1..Len(conns)), after : BOOLEAN, at : Pos, running : 0..Len(conns)]
       /\ Emission = [handlers : Seq(1..Len(conns)), after : BOOLEAN, at : Pos,
                      running : 0..Len(conns)]
       /\ 1 \in Pos /\ t.at + 1 \in Pos /\ 0 \in 0..Len(conns)
    BY <1>2, <1>5 DEF Emission
<1> HIDE DEF Pos
<1>6. CASE Skip
    <2>1. emissions' = Append(Under, [t EXCEPT !.at = @ + 1])
        BY <1>4, <1>6 DEF Skip
    <2>2. [t EXCEPT !.at = @ + 1] \in Emission /\ [t EXCEPT !.at = @ + 1].handlers = t.handlers
        BY <1>11, MovedOn
    <2> QED
        BY <1>1, <1>4, <2>1, <2>2, TopStays
<1>7. CASE Call
    <2> DEFINE x == [t EXCEPT !.at = @ + 1, !.running = Candidate]
    <2>1. emissions' = Append(Under, x)
        BY <1>4, <1>7 DEF Call
    <2>2. t.at <= Len(t.handlers) /\ Candidate = t.handlers[t.at]
        BY <1>4, <1>7 DEF Call, Candidate
    <2>3. t.handlers[t.at] \in 1..Len(conns)
        <3>1. t.at \in 1..Len(t.handlers)
            BY <1>5, <2>2, LenProperties
        <3> QED
            BY <1>5, <3>1, ElementOfSeq
    <2>4. Candidate \in 0..Len(conns)
        BY <1>2, <2>2, <2>3
    <2>5. x \in Emission /\ x.handlers = t.handlers
        BY <1>11, <2>4, MovedOn
    <2> QED
        BY <1>1, <1>4, <2>1, <2>5, TopStays
<1>8. CASE BeforeDone
    <2>1. emissions' = Append(Under, [t EXCEPT !.at = 1, !.after = TRUE])
        BY <1>4, <1>8 DEF BeforeDone
    <2>2. /\ [t EXCEPT !.at = 1, !.after = TRUE] \in Emission
          /\ [t EXCEPT !.at = 1, !.after = TRUE].handlers = t.handlers
        BY <1>11, MovedOn
    <2> QED
        BY <1>1, <1>4, <2>1, <2>2, TopStays
<1>9. CASE AfterDone
    BY <1>1, <1>9, TopStays DEF AfterDone
<1>10. ASSUME NEW stop \in BOOLEAN, Return(stop)
       PROVE  SignalsInv'
    <2>1. CASE stop
        BY <1>1, <1>10, <2>1, TopStays DEF Return
    <2>2. CASE ~stop
        <3>1. emissions' = Append(Under, [t EXCEPT !.running = 0])
            BY <1>4, <1>10, <2>2 DEF Return
        <3>2. [t EXCEPT !.running = 0] \in Emission /\ [t EXCEPT !.running = 0].handlers = t.handlers
            BY <1>11, MovedOn
        <3> QED
            BY <1>1, <1>4, <3>1, <3>2, TopStays
    <2> QED
        BY <2>1, <2>2
<1> QED
    BY <1>6, <1>7, <1>8, <1>9, <1>10

LEMMA SignalsNext == SignalsInv /\ [Next]_vars => SignalsInv'
<1> SUFFICES ASSUME SignalsInv, [Next]_vars
             PROVE  SignalsInv'
    OBVIOUS
<1>1. ASSUME NEW n \in Names, NEW after \in BOOLEAN, Connect(n, after)
      PROVE  SignalsInv'
    BY <1>1, ConnectStep
<1>2. ASSUME NEW id \in DOMAIN byId, Disconnect(id)
      PROVE  SignalsInv'
    BY <1>2, DisconnectStep
<1>3. CASE DisconnectAll
    BY <1>3, DisconnectAllStep
<1>4. ASSUME NEW n \in Names, Emit(n)
      PROVE  SignalsInv'
    BY <1>4, EmitStep
<1>5. CASE Skip \/ Call \/ BeforeDone \/ AfterDone \/ \E stop \in BOOLEAN : Return(stop)
    BY <1>5, LoopSteps
<1>6. CASE UNCHANGED vars
    <2>1. UNCHANGED index /\ UNCHANGED emissions
        BY <1>6 DEF vars, index
    <2>2. emissions \in Seq(Emission) /\ EmissionsAscend
        BY DEF SignalsInv, TypeOK
    <2> QED
        BY <2>1, <2>2, IndexStays DEF EmissionsAscend
<1> QED
    BY <1>1, <1>2, <1>3, <1>4, <1>5, <1>6 DEF Next

LEMMA SignalsInvariant == Spec => []SignalsInv
BY SignalsInit, SignalsNext, PTL DEF Spec

-----------------------------------------------------------------------------
(* The state of _signals.js keeps its types: in particular every id in an   *)
(* index leads to a connection object, and no emission calls a handler that *)
(* was never connected.                                                     *)
THEOREM SignalsTypeCorrect == Spec => []TypeOK
<1>1. SignalsInv => TypeOK
    BY DEF SignalsInv
<1> QED
    BY <1>1, SignalsInvariant, PTL

(* The two indexes and the flags agree, so that emit() never reads an       *)
(* object that is not there and disconnect() never finds one already        *)
(* flagged, for any number of connections and nesting of emissions.         *)
THEOREM IndexesStayInAgreement == Spec => []IndexesAgree
<1>1. SignalsInv => IndexesAgree
    BY DEF SignalsInv
<1> QED
    BY <1>1, SignalsInvariant, PTL

-----------------------------------------------------------------------------
(* What the objects of _signals.js do is what Emitter promises: every call  *)
(* of connect(), disconnect(), disconnectAll() and emit() is a step of      *)
(* Emitter, every callback the call it owes next, and a handler passed over *)
(* is nothing.                                                              *)

(* The refinement mapping, with the connections it looks at as an argument. *)
Reach(c, e, i) ==
    LET k == c[e.handlers[i]] IN
    /\ ~k.disconnected
    /\ IF e.after THEN k.after /\ i >= e.at ELSE k.after \/ i >= e.at

Waits(c, e) == {e.handlers[i] : i \in {j \in DOMAIN e.handlers : Reach(c, e, j)}}
Shown(c, e) == [waiting |-> Waits(c, e), running |-> e.running]
AllShown(c, em) == [e \in DOMAIN em |-> Shown(c, em[e])]
ShownOf(c, S) == {Shown(c, x) : x \in S}

LEMMA CallsAreShown ==
    Calls = AllShown(conns, emissions) /\ Calls' = AllShown(conns', emissions')
BY DEF Calls, AllShown, Shown, Waits, Reach, StillToCall, Reaches

-----------------------------------------------------------------------------
(* A stack as it is seen through a mapping of its elements.                 *)
LEMMA ShownStack ==
    ASSUME NEW c, NEW S, NEW em \in Seq(S)
    PROVE  /\ AllShown(c, em) \in Seq(ShownOf(c, S))
           /\ Len(AllShown(c, em)) = Len(em)
           /\ \A e \in 1..Len(em) : AllShown(c, em)[e] = Shown(c, em[e])
           /\ AllShown(c, em) = << >> <=> em = << >>
<1>1. Len(em) \in Nat /\ DOMAIN em = 1..Len(em) /\ \A e \in 1..Len(em) : em[e] \in S
    BY LenProperties, ElementOfSeq
<1> DEFINE T == ShownOf(c, S)
           a == AllShown(c, em)
<1>2. a = [e \in 1..Len(em) |-> Shown(c, em[e])]
    BY <1>1 DEF AllShown
<1>3. \A e \in 1..Len(em) : Shown(c, em[e]) \in T
    BY <1>1 DEF ShownOf
<1> HIDE DEF T, a
<1>4. a \in [1..Len(em) -> T]
    BY <1>2, <1>3
<1>5. a \in Seq(T) /\ Len(a) = Len(em)
    BY <1>1, <1>4, LenProperties, SeqDef
<1>6. a = << >> <=> em = << >>
    BY <1>5, EmptySeq
<1> QED
    BY <1>2, <1>5, <1>6 DEF T, a

LEMMA ShownTop ==
    ASSUME NEW c, NEW S, NEW em \in Seq(S), em # << >>
    PROVE  /\ AllShown(c, em) # << >>
           /\ Last(AllShown(c, em)) = Shown(c, Last(em))
           /\ Front(AllShown(c, em)) = AllShown(c, Front(em))
<1> DEFINE T == ShownOf(c, S)
           a == AllShown(c, em)
           f == AllShown(c, Front(em))
<1>1. /\ a \in Seq(T)
      /\ Len(a) = Len(em)
      /\ \A e \in 1..Len(em) : a[e] = Shown(c, em[e])
    BY ShownStack
<1>7. a # << >>
    <2>1. Len(a) = Len(em) /\ Len(em) # 0
        BY <1>1, EmptySeq
    <2>2. \A s : s = << >> => Len(s) = 0
        BY EmptySeq
    <2> HIDE DEF a
    <2> QED
        BY <2>1, <2>2
<1>2. /\ Front(em) \in Seq(S)
      /\ Len(em) \in Nat \ {0}
      /\ Len(Front(em)) = Len(em) - 1
      /\ \A i \in 1..Len(em) - 1 : Front(em)[i] = em[i]
    BY Popped
<1>3. /\ f \in Seq(T)
      /\ Len(f) = Len(Front(em))
      /\ \A e \in 1..Len(Front(em)) : f[e] = Shown(c, Front(em)[e])
    BY <1>2, ShownStack
<1> HIDE DEF T, a, f
<1>4. /\ Front(a) \in Seq(T)
      /\ Len(Front(a)) = Len(a) - 1
      /\ \A i \in 1..Len(a) - 1 : Front(a)[i] = a[i]
    BY <1>1, <1>7, Popped
<1>5. Front(a) = f
    <2>1. Len(Front(a)) = Len(f)
        BY <1>1, <1>2, <1>3, <1>4
    <2>2. \A i \in 1..Len(f) : i \in 1..Len(em) - 1 /\ i \in 1..Len(em)
        BY <1>2, <1>3
    <2>3. \A i \in 1..Len(f) : Front(a)[i] = f[i]
        BY <1>1, <1>2, <1>3, <1>4, <2>2
    <2> QED
        BY <1>3, <1>4, <2>1, <2>3, SeqEqual
<1>6. Last(a) = Shown(c, Last(em))
    BY <1>1, <1>2 DEF Last
<1> QED
    BY <1>5, <1>6, <1>7 DEF a, f

LEMMA ShownPush ==
    ASSUME NEW c, NEW S, NEW em \in Seq(S), NEW x \in S
    PROVE  AllShown(c, Append(em, x)) = Append(AllShown(c, em), Shown(c, x))
<1> DEFINE T == ShownOf(c, S)
           a == AllShown(c, em)
           b == AllShown(c, Append(em, x))
           s == Shown(c, x)
           g == Append(a, s)
<1>1. /\ Append(em, x) \in Seq(S)
      /\ Len(Append(em, x)) = Len(em) + 1
      /\ \A i \in 1..Len(em) : Append(em, x)[i] = em[i]
      /\ Append(em, x)[Len(em) + 1] = x
      /\ Len(em) \in Nat
    BY AppendProperties, LenProperties
<1>2. /\ a \in Seq(T)
      /\ Len(a) = Len(em)
      /\ \A e \in 1..Len(em) : a[e] = Shown(c, em[e])
      /\ s \in T
    BY ShownStack DEF ShownOf
<1>3. /\ b \in Seq(T)
      /\ Len(b) = Len(em) + 1
      /\ \A e \in 1..Len(em) + 1 : b[e] = Shown(c, Append(em, x)[e])
    <2>1. PICK more : more = Append(em, x)
        OBVIOUS
    <2>2. more \in Seq(S) /\ Len(more) = Len(em) + 1
        BY <1>1, <2>1
    <2>3. /\ AllShown(c, more) \in Seq(ShownOf(c, S))
          /\ Len(AllShown(c, more)) = Len(more)
          /\ \A e \in 1..Len(more) : AllShown(c, more)[e] = Shown(c, more[e])
        BY <2>2, ShownStack
    <2> QED
        BY <2>1, <2>2, <2>3
<1> HIDE DEF T, a, b
<1>4. s = Shown(c, x)
    OBVIOUS
<1> HIDE DEF s
<1>5. /\ g \in Seq(T)
      /\ Len(g) = Len(em) + 1
      /\ \A i \in 1..Len(em) : g[i] = a[i]
      /\ g[Len(em) + 1] = s
    BY <1>2, AppendProperties
<1> HIDE DEF g
<1>6. \A i \in 1..Len(em) + 1 : i \in 1..Len(em) \/ i = Len(em) + 1
    BY <1>1
<1>7. \A i \in 1..Len(em) + 1 : b[i] = g[i]
    BY <1>1, <1>2, <1>3, <1>4, <1>5, <1>6
<1>8. b = g
    BY <1>3, <1>5, <1>7, SeqEqual
<1> QED
    BY <1>8 DEF a, b, s, g

(* Putting back what was there.                                             *)
LEMMA PutBack ==
    ASSUME NEW S, NEW s \in Seq(S), s # << >>
    PROVE  Append(Front(s), Last(s)) = s
<1>1. Last(s) \in S /\ Len(s) \in Nat \ {0} /\ Last(s) = s[Len(s)]
    BY Popped DEF Last
<1> DEFINE t == Append(Front(s), Last(s))
<1>2. /\ t \in Seq(S)
      /\ Len(t) = Len(s)
      /\ t[Len(s)] = Last(s)
      /\ \A i \in 1..Len(s) - 1 : t[i] = s[i]
    BY <1>1, TopReplaced
<1> HIDE DEF t
<1>3. \A i \in 1..Len(s) : i \in 1..Len(s) - 1 \/ i = Len(s)
    BY <1>1
<1>4. \A i \in 1..Len(s) : t[i] = s[i]
    BY <1>1, <1>2, <1>3
<1>5. t = s
    BY <1>2, <1>4, SeqEqual
<1> QED
    BY <1>5 DEF t

-----------------------------------------------------------------------------
(* What the innermost emission still owes, step by step.  c are the         *)
(* connections, e the emission.                                             *)
WaitingIn(n, e) ==
    /\ n \in Nat
    /\ e \in EmissionOf(n)
    /\ Ascending(e.handlers)

LEMMA EmissionFacts ==
    ASSUME NEW n, NEW e, WaitingIn(n, e)
    PROVE  /\ e.handlers \in Seq(1..n)
           /\ Len(e.handlers) \in Nat
           /\ DOMAIN e.handlers = 1..Len(e.handlers)
           /\ \A i \in 1..Len(e.handlers) : e.handlers[i] \in 1..n
           /\ \A i, j \in 1..Len(e.handlers) : i < j => e.handlers[i] < e.handlers[j]
           /\ e.at \in Nat \ {0} /\ e.after \in BOOLEAN /\ e.running \in 0..n
<1>1. /\ e.handlers \in Seq(1..n)
      /\ e.at \in Nat \ {0} /\ e.after \in BOOLEAN /\ e.running \in 0..n
    BY DEF WaitingIn, EmissionOf
<1> QED
    BY <1>1, LenProperties, ElementOfSeq DEF WaitingIn, Ascending

(* A handler that is passed over was not owed a call in this loop.          *)
LEMMA SkipOwesTheSame ==
    ASSUME NEW c, NEW n, NEW e, WaitingIn(n, e), e.at <= Len(e.handlers),
           c[e.handlers[e.at]].after \in BOOLEAN,
           c[e.handlers[e.at]].after # e.after \/ c[e.handlers[e.at]].disconnected,
           NEW x, x.handlers = e.handlers, x.after = e.after, x.at = e.at + 1
    PROVE  Waits(c, x) = Waits(c, e)
<1>3. /\ Len(e.handlers) \in Nat
      /\ DOMAIN e.handlers = 1..Len(e.handlers)
      /\ e.at \in Nat \ {0} /\ e.after \in BOOLEAN
    BY EmissionFacts
<1>4. \A i \in 1..Len(e.handlers) : i # e.at => (i >= e.at + 1 <=> i >= e.at)
    BY <1>3
<1>5. ~(e.at >= e.at + 1) /\ e.at >= e.at
    BY <1>3
<1>6. \A i \in 1..Len(e.handlers) : Reach(c, x, i) <=> Reach(c, e, i)
    <2> SUFFICES ASSUME NEW i \in 1..Len(e.handlers)
                 PROVE  Reach(c, x, i) <=> Reach(c, e, i)
        OBVIOUS
    <2>1. CASE i # e.at
        BY <1>4, <2>1 DEF Reach
    <2>2. CASE i = e.at
        BY <1>3, <1>5, <2>2 DEF Reach
    <2> QED
        BY <2>1, <2>2
<1> QED
    BY <1>3, <1>6 DEF Waits

(* When the loop over the handlers of connect() is done, those of           *)
(* connectAfter() are what is left.                                         *)
LEMMA HalfTimeOwesTheSame ==
    ASSUME NEW c, NEW n, NEW e, WaitingIn(n, e), e.at > Len(e.handlers), ~e.after,
           \A i \in 1..Len(e.handlers) : c[e.handlers[i]].after \in BOOLEAN,
           NEW x, x.handlers = e.handlers, x.after = TRUE, x.at = 1
    PROVE  Waits(c, x) = Waits(c, e)
<1>3. /\ Len(e.handlers) \in Nat
      /\ DOMAIN e.handlers = 1..Len(e.handlers)
      /\ e.at \in Nat \ {0} /\ e.after \in BOOLEAN
    BY EmissionFacts
<1>4. \A i \in 1..Len(e.handlers) : i >= 1 /\ ~(i >= e.at)
    BY <1>3
<1>5. \A i \in 1..Len(e.handlers) : Reach(c, x, i) <=> Reach(c, e, i)
    BY <1>3, <1>4 DEF Reach
<1> QED
    BY <1>3, <1>5 DEF Waits

(* After the second loop nothing is owed.                                   *)
LEMMA AtTheEndNothingIsOwed ==
    ASSUME NEW c, NEW n, NEW e, WaitingIn(n, e), e.at > Len(e.handlers), e.after
    PROVE  Waits(c, e) = {}
<1>1. /\ Len(e.handlers) \in Nat
      /\ DOMAIN e.handlers = 1..Len(e.handlers)
      /\ e.at \in Nat \ {0}
    BY EmissionFacts
<1>2. \A i \in 1..Len(e.handlers) : ~(i >= e.at)
    BY <1>1
<1> QED
    BY <1>1, <1>2 DEF Waits, Reach

(* A handler that is called was owed its call before all the others, and is *)
(* not owed it again.                                                       *)
LEMMA CallPaysTheNext ==
    ASSUME NEW c, NEW n, NEW e, WaitingIn(n, e), NEW h,
           e.at <= Len(e.handlers), h = e.handlers[e.at],
           \A k \in 1..n : c[k].after \in BOOLEAN,
           c[h].after = e.after, ~c[h].disconnected,
           NEW x, x.handlers = e.handlers, x.after = e.after, x.at = e.at + 1
    PROVE  /\ h \in Waits(c, e)
           /\ Waits(c, x) = Waits(c, e) \ {h}
           /\ \A g \in Waits(c, e) \ {h} :
                 g \in 1..n /\ ((~c[h].after /\ c[g].after) \/ (c[h].after = c[g].after /\ h < g))
<1>3. /\ Len(e.handlers) \in Nat
      /\ DOMAIN e.handlers = 1..Len(e.handlers)
      /\ \A i \in 1..Len(e.handlers) : e.handlers[i] \in 1..n
      /\ \A i, j \in 1..Len(e.handlers) : i < j => e.handlers[i] < e.handlers[j]
      /\ e.at \in Nat \ {0} /\ e.after \in BOOLEAN
      /\ n \in Nat
    BY EmissionFacts DEF WaitingIn
<1>4. e.at \in 1..Len(e.handlers) /\ e.at >= e.at /\ ~(e.at >= e.at + 1)
    BY <1>3
<1>5. \A i \in 1..Len(e.handlers) : i # e.at => (i >= e.at + 1 <=> i >= e.at)
    BY <1>3
<1>6. \A i \in 1..Len(e.handlers) : i # e.at => e.handlers[i] # h
    <2>1. \A i \in 1..Len(e.handlers) : i # e.at => i < e.at \/ e.at < i
        BY <1>3
    <2> QED
        BY <1>3, <1>4, <2>1
<1>7. Reach(c, e, e.at) /\ ~Reach(c, x, e.at)
    BY <1>3, <1>4 DEF Reach
<1>8. \A i \in 1..Len(e.handlers) : i # e.at => (Reach(c, x, i) <=> Reach(c, e, i))
    BY <1>5 DEF Reach
<1>9. h \in Waits(c, e)
    BY <1>3, <1>4, <1>7 DEF Waits
<1>10. Waits(c, x) = Waits(c, e) \ {h}
    BY <1>3, <1>6, <1>7, <1>8 DEF Waits
<1>11. ASSUME NEW g \in Waits(c, e) \ {h}
       PROVE  g \in 1..n /\ ((~c[h].after /\ c[g].after) \/ (c[h].after = c[g].after /\ h < g))
    <2>1. PICK i \in 1..Len(e.handlers) : g = e.handlers[i] /\ Reach(c, e, i)
        BY <1>3 DEF Waits
    <2>2. g \in 1..n /\ c[g].after \in BOOLEAN /\ i # e.at
        BY <1>3, <2>1
    <2>3. CASE i >= e.at
        <3>1. e.at < i
            BY <1>3, <2>2, <2>3
        <3>2. h < g
            BY <1>3, <1>4, <2>1, <3>1
        <3> QED
            BY <1>3, <2>1, <2>2, <3>2 DEF Reach
    <2>4. CASE ~(i >= e.at)
        BY <1>3, <2>1, <2>2, <2>4 DEF Reach
    <2> QED
        BY <2>3, <2>4
<1> QED
    BY <1>9, <1>10, <1>11

FlagsOnly(c, d, n, H) ==
    \A k \in 1..n :
        /\ d[k].after = c[k].after
        /\ d[k].disconnected <=> c[k].disconnected \/ k \in H

(* Handlers that lose their connection are not owed anything any more, and  *)
(* the others as much as before.                                            *)
LEMMA TheGoneAreOwedNothing ==
    ASSUME NEW c, NEW d, NEW n, NEW e, WaitingIn(n, e), NEW H, FlagsOnly(c, d, n, H)
    PROVE  Waits(d, e) = Waits(c, e) \ H
<1>1. /\ DOMAIN e.handlers = 1..Len(e.handlers)
      /\ \A i \in 1..Len(e.handlers) : e.handlers[i] \in 1..n
    BY EmissionFacts
<1>2. \A i \in 1..Len(e.handlers) :
          Reach(d, e, i) <=> Reach(c, e, i) /\ e.handlers[i] \notin H
    BY <1>1 DEF Reach, FlagsOnly
<1> QED
    BY <1>1, <1>2 DEF Waits

-----------------------------------------------------------------------------
LEMMA EmissionsWait ==
    ASSUME SignalsInv
    PROVE  /\ Len(conns) \in Nat
           /\ Emission = EmissionOf(Len(conns))
           /\ emissions \in Seq(Emission)
           /\ \A e \in 1..Len(emissions) : WaitingIn(Len(conns), emissions[e])
           /\ Calls \in Seq(ShownOf(conns, Emission))
           /\ Len(Calls) = Len(emissions)
           /\ \A e \in 1..Len(emissions) : Calls[e] = Shown(conns, emissions[e])
<1>1. Len(conns) \in Nat /\ emissions \in Seq(EmissionOf(Len(conns)))
    BY Types DEF SignalsInv
<1>2. Emission = EmissionOf(Len(conns))
    BY DEF Emission, EmissionOf
<1>3. \A e \in 1..Len(emissions) : emissions[e] \in EmissionOf(Len(conns))
    BY <1>1, ElementOfSeq
<1>4. \A e \in 1..Len(emissions) : WaitingIn(Len(conns), emissions[e])
    BY <1>1, <1>3 DEF SignalsInv, EmissionsAscend, WaitingIn
<1>5. /\ Calls \in Seq(ShownOf(conns, Emission))
      /\ Len(Calls) = Len(emissions)
      /\ \A e \in 1..Len(emissions) : Calls[e] = Shown(conns, emissions[e])
    BY <1>1, <1>2, CallsAreShown, ShownStack
<1> QED
    BY <1>1, <1>2, <1>4, <1>5

(* The innermost emission of the detailed state and of the abstract one.    *)
LEMMA TopIsShown ==
    ASSUME SignalsInv, emissions # << >>, NEW t, t = Top
    PROVE  /\ t \in Emission
           /\ WaitingIn(Len(conns), t)
           /\ Calls # << >>
           /\ Last(Calls) = Shown(conns, t)
           /\ Front(Calls) = AllShown(conns, Under)
           /\ \A x \in Emission :
                 AllShown(conns, Append(Under, x)) = Append(Front(Calls), Shown(conns, x))
           /\ Append(Front(Calls), Shown(conns, t)) = Calls
<1>1. /\ emissions \in Seq(Emission)
      /\ \A e \in 1..Len(emissions) : WaitingIn(Len(conns), emissions[e])
      /\ Calls \in Seq(ShownOf(conns, Emission))
    BY EmissionsWait
<1>2. t = emissions[Len(emissions)] /\ Len(emissions) \in Nat \ {0} /\ t \in Emission
    BY <1>1, Popped DEF Top, Last
<1>3. WaitingIn(Len(conns), t)
    BY <1>1, <1>2
<1>4. /\ Calls # << >>
      /\ Last(Calls) = Shown(conns, t)
      /\ Front(Calls) = AllShown(conns, Under)
    BY <1>1, CallsAreShown, ShownTop DEF Top, Under
<1>5. Under \in Seq(Emission)
    BY <1>1, Popped DEF Under
<1>6. \A x \in Emission :
          AllShown(conns, Append(Under, x)) = Append(Front(Calls), Shown(conns, x))
    BY <1>4, <1>5, ShownPush
<1>7. Append(Front(Calls), Shown(conns, t)) = Calls
    BY <1>1, <1>4, PutBack
<1> QED
    BY <1>2, <1>3, <1>4, <1>6, <1>7

LEMMA PromiseStack == Promise!Top = Last(Calls) /\ Promise!Under = Front(Calls)
BY DEF Promise!Top, Promise!Under, Promise!Last, Promise!Front, Last, Front

(* Emissions that the steps below put in the place of another.              *)
LEMMA EmissionMoves ==
    ASSUME NEW t \in Emission, NEW p \in Nat \ {0}, NEW r \in 0..Len(conns)
    PROVE  /\ [t EXCEPT !.at = p, !.running = r] \in Emission
           /\ [t EXCEPT !.at = p, !.running = r].running = r
           /\ [t EXCEPT !.at = p] \in Emission
           /\ [t EXCEPT !.at = p].running = t.running
           /\ [t EXCEPT !.at = p, !.after = TRUE] \in Emission
           /\ [t EXCEPT !.at = p, !.after = TRUE].running = t.running
           /\ [t EXCEPT !.running = r] \in Emission
           /\ [t EXCEPT !.running = r].running = r
<1> DEFINE Pos == Nat \ {0}
           R == 0..Len(conns)
           H == Seq(1..Len(conns))
           E == [handlers : H, after : BOOLEAN, at : Pos, running : R]
<1>1. Emission = E /\ t \in E /\ p \in Pos /\ r \in R
    BY DEF Emission
<1> HIDE DEF Pos, R, H
<1>2. /\ [t EXCEPT !.at = p, !.running = r] \in E
      /\ [t EXCEPT !.at = p, !.running = r].running = r
      /\ [t EXCEPT !.at = p] \in E
      /\ [t EXCEPT !.at = p].running = t.running
      /\ [t EXCEPT !.at = p, !.after = TRUE] \in E
      /\ [t EXCEPT !.at = p, !.after = TRUE].running = t.running
      /\ [t EXCEPT !.running = r] \in E
      /\ [t EXCEPT !.running = r].running = r
    BY <1>1
<1> QED
    BY <1>1, <1>2

(* The flags and names stay when the index does.                            *)
LEMMA IndexIsShown ==
    ASSUME UNCHANGED index
    PROVE  Made' = Made /\ Live' = Live /\ Calls' = AllShown(conns, emissions')
BY CallsAreShown DEF index, Made, Live

LEMMA InitIsPromised == Init => Promise!Init
<1> SUFFICES ASSUME Init
             PROVE  Promise!Init
    OBVIOUS
<1>1. conns = << >> /\ emissions = << >>
    BY DEF Init
<1>2. DOMAIN conns = {} /\ DOMAIN emissions = {}
    BY <1>1
<1>3. Made = << >> /\ Calls = << >>
    BY <1>2 DEF Made, Calls
<1>4. Live = {}
    BY <1>2 DEF Live
<1> QED
    BY <1>3, <1>4 DEF Promise!Init

-----------------------------------------------------------------------------
(* Each step of the detailed machine, as a step of the abstract one.        *)
LEMMA SkipIsStutter ==
    ASSUME SignalsInv, Skip
    PROVE  UNCHANGED Promise!vars
<1>1. emissions # << >> /\ UNCHANGED index
    BY DEF Skip, InLoop
<1>2. PICK t : t = Top
    OBVIOUS
<1>3. /\ t \in Emission
      /\ WaitingIn(Len(conns), t)
      /\ \A x \in Emission :
            AllShown(conns, Append(Under, x)) = Append(Front(Calls), Shown(conns, x))
      /\ Append(Front(Calls), Shown(conns, t)) = Calls
    BY <1>1, <1>2, TopIsShown
<1>12. PICK p : p = t.at + 1
    OBVIOUS
<1> DEFINE x == [t EXCEPT !.at = p]
           h == t.handlers[t.at]
<1>4. /\ emissions' = Append(Under, x)
      /\ t.at <= Len(t.handlers)
      /\ conns[h].after # t.after \/ conns[h].disconnected
    BY <1>2, <1>12 DEF Skip, Candidate, Callable
<1>5. /\ t.at \in Nat \ {0} /\ Len(t.handlers) \in Nat
      /\ \A i \in 1..Len(t.handlers) : t.handlers[i] \in 1..Len(conns)
    BY <1>3, EmissionFacts
<1>6. h \in 1..Len(conns)
    BY <1>4, <1>5
<1>7. conns[h].after \in BOOLEAN
    BY <1>6, Types DEF SignalsInv, Connection
<1>8. Waits(conns, x) = Waits(conns, t)
    <2>1. x.handlers = t.handlers /\ x.after = t.after /\ x.at = t.at + 1
        BY <1>3, <1>12 DEF Emission
    <2> HIDE DEF x
    <2> QED
        BY <1>3, <1>4, <1>7, <2>1, SkipOwesTheSame
<1>9. x \in Emission /\ x.running = t.running
    <2>1. p \in Nat \ {0} /\ 0 \in 0..Len(conns)
        BY <1>5, <1>12, EmissionsWait
    <2> QED
        BY <1>3, <2>1, EmissionMoves
<1>10. Shown(conns, x) = Shown(conns, t)
    BY <1>8, <1>9 DEF Shown
<1>11. Calls' = Calls
    <2>1. Calls' = AllShown(conns, emissions')
        BY <1>1, IndexIsShown
    <2>2. AllShown(conns, Append(Under, x)) = Append(Front(Calls), Shown(conns, x))
        BY <1>3, <1>9
    <2> HIDE DEF x
    <2> QED
        BY <1>3, <1>4, <1>10, <2>1, <2>2
<1> QED
    BY <1>1, <1>11, IndexIsShown DEF Promise!vars

LEMMA HalfTimeIsStutter ==
    ASSUME SignalsInv, BeforeDone
    PROVE  UNCHANGED Promise!vars
<1>1. emissions # << >> /\ UNCHANGED index
    BY DEF BeforeDone, InLoop
<1>2. PICK t : t = Top
    OBVIOUS
<1>3. /\ t \in Emission
      /\ WaitingIn(Len(conns), t)
      /\ \A x \in Emission :
            AllShown(conns, Append(Under, x)) = Append(Front(Calls), Shown(conns, x))
      /\ Append(Front(Calls), Shown(conns, t)) = Calls
    BY <1>1, <1>2, TopIsShown
<1> DEFINE x == [t EXCEPT !.at = 1, !.after = TRUE]
<1>4. emissions' = Append(Under, x) /\ t.at > Len(t.handlers) /\ ~t.after
    BY <1>2 DEF BeforeDone
<1>5. \A i \in 1..Len(t.handlers) : t.handlers[i] \in 1..Len(conns)
    BY <1>3, EmissionFacts
<1>6. \A i \in 1..Len(t.handlers) : conns[t.handlers[i]].after \in BOOLEAN
    BY <1>5, Types DEF SignalsInv, Connection
<1>7. Waits(conns, x) = Waits(conns, t)
    <2>1. x.handlers = t.handlers /\ x.after = TRUE /\ x.at = 1
        BY <1>3 DEF Emission
    <2> HIDE DEF x
    <2> QED
        BY <1>3, <1>4, <1>6, <2>1, HalfTimeOwesTheSame
<1>8. x \in Emission /\ x.running = t.running
    <2>1. 1 \in Nat \ {0} /\ 0 \in 0..Len(conns)
        BY EmissionsWait
    <2> QED
        BY <1>3, <2>1, EmissionMoves
<1>9. Shown(conns, x) = Shown(conns, t)
    BY <1>7, <1>8 DEF Shown
<1>10. Calls' = Calls
    <2>1. Calls' = AllShown(conns, emissions')
        BY <1>1, IndexIsShown
    <2>2. AllShown(conns, Append(Under, x)) = Append(Front(Calls), Shown(conns, x))
        BY <1>3, <1>8
    <2> HIDE DEF x
    <2> QED
        BY <1>3, <1>4, <1>9, <2>1, <2>2
<1> QED
    BY <1>1, <1>10, IndexIsShown DEF Promise!vars

LEMMA CallIsPromised ==
    ASSUME SignalsInv, Call
    PROVE  \E h \in 1..Len(Made) : Promise!Call(h)
<1>1. emissions # << >> /\ UNCHANGED index
    BY DEF Call, InLoop
<1>2. PICK t : t = Top
    OBVIOUS
<1>3. /\ t \in Emission
      /\ WaitingIn(Len(conns), t)
      /\ Calls # << >>
      /\ Last(Calls) = Shown(conns, t)
      /\ \A x \in Emission :
            AllShown(conns, Append(Under, x)) = Append(Front(Calls), Shown(conns, x))
    BY <1>1, <1>2, TopIsShown
<1>4. PICK h : h = t.handlers[t.at]
    OBVIOUS
<1>17. PICK p : p = t.at + 1
    OBVIOUS
<1> DEFINE x == [t EXCEPT !.at = p, !.running = h]
<1>5. /\ emissions' = Append(Under, x)
      /\ t.at <= Len(t.handlers)
      /\ conns[h].after = t.after
      /\ ~conns[h].disconnected
      /\ t.running = 0
    BY <1>2, <1>4, <1>17 DEF Call, Candidate, Callable, InLoop
<1>6. /\ t.at \in Nat \ {0} /\ Len(t.handlers) \in Nat
      /\ \A i \in 1..Len(t.handlers) : t.handlers[i] \in 1..Len(conns)
    BY <1>3, EmissionFacts
<1>7. h \in 1..Len(conns)
    BY <1>4, <1>5, <1>6
<1>8. \A k \in 1..Len(conns) : conns[k].after \in BOOLEAN
    BY Types DEF SignalsInv, Connection
<1>9. /\ h \in Waits(conns, t)
      /\ Waits(conns, x) = Waits(conns, t) \ {h}
      /\ \A g \in Waits(conns, t) \ {h} :
            /\ g \in 1..Len(conns)
            /\ \/ ~conns[h].after /\ conns[g].after
               \/ conns[h].after = conns[g].after /\ h < g
    <2>1. PICK c, n : c = conns /\ n = Len(conns)
        OBVIOUS
    <2>2. /\ WaitingIn(n, t)
          /\ t.at <= Len(t.handlers)
          /\ \A k \in 1..n : c[k].after \in BOOLEAN
          /\ c[h].after = t.after
          /\ ~c[h].disconnected
        BY <1>3, <1>5, <1>8, <2>1
    <2>4. x.handlers = t.handlers /\ x.after = t.after /\ x.at = t.at + 1
        BY <1>3, <1>17 DEF Emission
    <2> HIDE DEF x
    <2>3. /\ h \in Waits(c, t)
          /\ Waits(c, x) = Waits(c, t) \ {h}
          /\ \A g \in Waits(c, t) \ {h} :
                /\ g \in 1..n
                /\ \/ ~c[h].after /\ c[g].after
                   \/ c[h].after = c[g].after /\ h < g
        BY <1>4, <2>2, <2>4, CallPaysTheNext
    <2> QED
        BY <2>1, <2>3
<1>10. x \in Emission /\ x.running = h
    <2>1. p \in Nat \ {0} /\ h \in 0..Len(conns)
        BY <1>6, <1>7, <1>17, EmissionsWait
    <2> QED
        BY <1>3, <2>1, EmissionMoves
<1>11. Calls' = Append(Front(Calls), Shown(conns, x))
    <2>1. Calls' = AllShown(conns, emissions')
        BY <1>1, IndexIsShown
    <2>2. AllShown(conns, Append(Under, x)) = Append(Front(Calls), Shown(conns, x))
        BY <1>3, <1>10
    <2> HIDE DEF x
    <2> QED
        BY <1>5, <2>1, <2>2
<1>12. Shown(conns, x) = [waiting |-> Waits(conns, t) \ {h}, running |-> h]
    BY <1>9, <1>10 DEF Shown
<1>13. /\ Last(Calls).running = 0
       /\ Last(Calls).waiting = Waits(conns, t)
    BY <1>3, <1>5 DEF Shown
<1>14. /\ Len(Made) = Len(conns)
       /\ \A k \in 1..Len(conns) : Made[k].after = conns[k].after
    <2>1. DOMAIN conns = 1..Len(conns) /\ Len(conns) \in Nat
        BY Types DEF SignalsInv
    <2> QED
        BY <2>1 DEF Made
<1>15. \A g \in Waits(conns, t) \ {h} : Promise!Precedes(h, g)
    BY <1>7, <1>9, <1>14 DEF Promise!Precedes
<1> HIDE DEF x
<1>16. Promise!Call(h)
    BY <1>1, <1>3, <1>9, <1>11, <1>12, <1>13, <1>15, IndexIsShown, PromiseStack
       DEF Promise!Call
<1> QED
    BY <1>7, <1>14, <1>16

LEMMA ReturnIsPromised ==
    ASSUME SignalsInv, NEW stop \in BOOLEAN, Return(stop)
    PROVE  Promise!Answer(stop)
<1>1. emissions # << >> /\ UNCHANGED index
    BY DEF Return
<1>2. PICK t : t = Top
    OBVIOUS
<1>3. /\ t \in Emission
      /\ Calls # << >>
      /\ Last(Calls) = Shown(conns, t)
      /\ Front(Calls) = AllShown(conns, Under)
      /\ \A x \in Emission :
            AllShown(conns, Append(Under, x)) = Append(Front(Calls), Shown(conns, x))
    BY <1>1, <1>2, TopIsShown
<1>4. t.running # 0 /\ Last(Calls).running # 0
    BY <1>2, <1>3 DEF Return, Shown
<1>5. Calls' = AllShown(conns, emissions')
    BY <1>1, IndexIsShown
<1>6. CASE stop
    <2>1. Calls' = Front(Calls)
        BY <1>3, <1>5, <1>6 DEF Return
    <2> QED
        BY <1>1, <1>3, <1>4, <1>6, <2>1, IndexIsShown, PromiseStack
           DEF Promise!Answer
<1>7. CASE ~stop
    <2> DEFINE x == [t EXCEPT !.running = 0]
    <2>1. emissions' = Append(Under, x)
        BY <1>2, <1>7 DEF Return
    <2>2. x \in Emission /\ x.running = 0
        <3>1. 1 \in Nat \ {0} /\ 0 \in 0..Len(conns)
            BY EmissionsWait
        <3> QED
            BY <1>3, <3>1, EmissionMoves
    <2>3. Waits(conns, x) = Waits(conns, t)
        BY <1>3 DEF Waits, Reach, Emission
    <2>4. Shown(conns, x) = [Last(Calls) EXCEPT !.running = 0]
        BY <1>3, <2>2, <2>3 DEF Shown
    <2> HIDE DEF x
    <2>5. Calls' = Append(Front(Calls), [Last(Calls) EXCEPT !.running = 0])
        BY <1>3, <1>5, <2>1, <2>2, <2>4
    <2> QED
        BY <1>1, <1>3, <1>4, <1>7, <2>5, IndexIsShown, PromiseStack
           DEF Promise!Answer
<1> QED
    BY <1>6, <1>7

LEMMA AfterDoneIsPromised ==
    ASSUME SignalsInv, AfterDone
    PROVE  Promise!Finish
<1>1. emissions # << >> /\ UNCHANGED index
    BY DEF AfterDone, InLoop
<1>2. PICK t : t = Top
    OBVIOUS
<1>3. /\ WaitingIn(Len(conns), t)
      /\ Calls # << >>
      /\ Last(Calls) = Shown(conns, t)
      /\ Front(Calls) = AllShown(conns, Under)
    BY <1>1, <1>2, TopIsShown
<1>4. t.running = 0 /\ t.at > Len(t.handlers) /\ t.after /\ emissions' = Under
    BY <1>2 DEF AfterDone, InLoop
<1>5. Waits(conns, t) = {}
    BY <1>3, <1>4, AtTheEndNothingIsOwed
<1>6. Last(Calls).running = 0 /\ Last(Calls).waiting = {}
    BY <1>3, <1>4, <1>5 DEF Shown
<1>7. Calls' = Front(Calls)
    BY <1>1, <1>3, <1>4, IndexIsShown
<1> QED
    BY <1>1, <1>3, <1>6, <1>7, IndexIsShown, PromiseStack DEF Promise!Finish

LEMMA UserCodeIsShown ==
    ASSUME SignalsInv, UserCode
    PROVE  Promise!UserCode
<1>1. CASE emissions = << >>
    <2>1. Len(Calls) = 0
        BY <1>1, EmissionsWait, EmptySeq
    <2>2. Calls = << >>
        BY <2>1, EmissionsWait, EmptySeq
    <2> QED
        BY <2>2 DEF Promise!UserCode
<1>2. CASE emissions # << >>
    <2>1. PICK t : t = Top
        OBVIOUS
    <2>2. Last(Calls) = Shown(conns, t) /\ t.running # 0
        BY <1>2, <2>1, TopIsShown DEF UserCode
    <2>3. Last(Calls).running # 0
        BY <2>2 DEF Shown
    <2> QED
        BY <2>3, PromiseStack DEF Promise!UserCode
<1> QED
    BY <1>1, <1>2

(* What an emission is owed when it starts.                                 *)
LEMMA SnapshotIsOwed ==
    ASSUME SignalsInv, NEW n \in DOMAIN byName, NEW x,
           x.handlers = Snapshot(n), x.after = FALSE, x.at = 1
    PROVE  Waits(conns, x) = {h \in Live : conns[h].name = n}
<1>1. TypeOK /\ IdsLead /\ UnflaggedFound /\ ListsLead
    BY DEF SignalsInv, IndexesAgree
<1>2. DOMAIN conns = 1..Len(conns) /\ Len(conns) \in Nat
    BY <1>1, Types
<1>3. PICK ids : ids = byName[n]
    OBVIOUS
<1>4. Len(ids) \in Nat
    <2> DEFINE Pos == Nat \ {0}
    <2>1. ids \in Seq(Pos)
        BY <1>1, <1>3 DEF TypeOK
    <2> HIDE DEF Pos
    <2> QED
        BY <2>1, LenProperties
<1>5. \A i \in 1..Len(ids) : ids[i] \in DOMAIN byId /\ conns[byId[ids[i]]].name = n
    BY <1>1, <1>3 DEF ListsLead
<1>6. x.handlers = [i \in 1..Len(ids) |-> byId[ids[i]]]
    BY <1>3 DEF Snapshot
<1>7. \A i \in 1..Len(ids) : Reach(conns, x, i)
    <2>1. \A i \in 1..Len(ids) : i >= 1
        BY <1>4
    <2>2. \A i \in 1..Len(ids) : ~conns[byId[ids[i]]].disconnected
        BY <1>1, <1>5 DEF IdsLead
    <2> QED
        BY <1>6, <2>1, <2>2 DEF Reach
<1>8. Waits(conns, x) = {byId[ids[i]] : i \in 1..Len(ids)}
    BY <1>6, <1>7 DEF Waits
<1>9. ASSUME NEW i \in 1..Len(ids)
      PROVE  byId[ids[i]] \in Live /\ conns[byId[ids[i]]].name = n
    BY <1>1, <1>2, <1>5, Types DEF IdsLead, Live
<1>10. ASSUME NEW h \in Live, conns[h].name = n
       PROVE  \E i \in 1..Len(ids) : h = byId[ids[i]]
    <2>1. h \in 1..Len(conns) /\ ~conns[h].disconnected
        BY <1>2 DEF Live
    <2>2. conns[h].id \in DOMAIN byId /\ byId[conns[h].id] = h
        BY <1>1, <2>1 DEF UnflaggedFound
    <2>3. \E i \in 1..Len(ids) : ids[i] = conns[h].id
        BY <1>1, <1>3, <1>10, <2>2 DEF IdsLead
    <2> QED
        BY <2>2, <2>3
<1> QED
    BY <1>8, <1>9, <1>10

LEMMA EmitIsPromised ==
    ASSUME SignalsInv, NEW n \in Names, Emit(n)
    PROVE  Promise!Emit(n)
<1>1. PICK x : x = [handlers |-> Snapshot(n), after |-> FALSE, at |-> 1, running |-> 0]
    OBVIOUS
<1>2. /\ n \in DOMAIN byName
      /\ emissions' = Append(emissions, x)
      /\ UNCHANGED index
      /\ Promise!UserCode
    BY <1>1, UserCodeIsShown DEF Emit
<1>3. /\ Len(conns) \in Nat
      /\ emissions \in Seq(Emission)
      /\ DOMAIN conns = 1..Len(conns)
    BY EmissionsWait, Types DEF SignalsInv
<1>4. x \in Emission
    BY <1>1, <1>2, <1>3, SnapshotIs DEF Emission
<1>5. Calls' = Append(Calls, Shown(conns, x))
    <2>1. Calls' = AllShown(conns, Append(emissions, x))
        BY <1>2, IndexIsShown
    <2> QED
        BY <1>3, <1>4, <2>1, CallsAreShown, ShownPush
<1>6. Waits(conns, x) = {h \in Live : conns[h].name = n}
    BY <1>1, <1>2, SnapshotIsOwed
<1>7. {h \in Live : conns[h].name = n} = {h \in Live : Made[h].name = n}
    BY <1>3 DEF Made, Live
<1>8. Shown(conns, x) = [waiting |-> {h \in Live : Made[h].name = n}, running |-> 0]
    BY <1>1, <1>6, <1>7 DEF Shown
<1> QED
    BY <1>2, <1>5, <1>8, IndexIsShown DEF Promise!Emit

LEMMA ConnectIsPromised ==
    ASSUME SignalsInv, NEW n \in Names, NEW after \in BOOLEAN, Connect(n, after)
    PROVE  \E h \in Promise!Handler : Promise!Connect(h)
<1>1. PICK new, k : /\ new = [id |-> FirstId, name |-> n, after |-> after,
                              disconnected |-> FALSE]
                    /\ k = Len(conns) + 1
    OBVIOUS
<1>2. PICK h : h = [name |-> n, after |-> after]
    OBVIOUS
<1>3. /\ conns' = Append(conns, new)
      /\ emissions' = emissions
      /\ Promise!UserCode
    BY <1>1, UserCodeIsShown DEF Connect
<1>4. /\ Len(conns) \in Nat
      /\ DOMAIN conns = 1..Len(conns)
      /\ conns \in Seq(Connection)
      /\ FirstId \in Nat \ {0}
    BY Types DEF SignalsInv, TypeOK
<1>5. new \in Connection
    BY <1>1, <1>4 DEF Connection
<1>6. /\ Len(conns') = k
      /\ DOMAIN conns' = 1..k
      /\ \A i \in 1..Len(conns) : conns'[i] = conns[i]
      /\ conns'[k] = new
    BY <1>1, <1>3, <1>4, <1>5, AppendProperties, LenProperties
<1>7. \A i : i \in 1..k <=> i \in 1..Len(conns) \/ i = k
    BY <1>1, <1>4
<1>8. Live' = Live \cup {k}
    <2>1. \A i : i \in Live' <=> i \in 1..k /\ ~conns'[i].disconnected
        BY <1>6 DEF Live
    <2>2. \A i : i \in Live <=> i \in 1..Len(conns) /\ ~conns[i].disconnected
        BY <1>4 DEF Live
    <2>3. ~conns'[k].disconnected
        BY <1>1, <1>6
    <2> QED
        BY <1>6, <1>7, <2>1, <2>2, <2>3
<1>9. Made' = Append(Made, h) /\ Len(Made) = Len(conns)
    <2> DEFINE T == {[name |-> c.name, after |-> c.after] : c \in Connection}
    <2>1. /\ Made = [i \in 1..Len(conns) |-> [name |-> conns[i].name, after |-> conns[i].after]]
          /\ Made' = [i \in 1..k |-> [name |-> conns'[i].name, after |-> conns'[i].after]]
        BY <1>4, <1>6 DEF Made
    <2>2. \A i \in 1..Len(conns) : conns[i] \in Connection
        BY <1>4, ElementOfSeq
    <2>3. \A i \in 1..k : conns'[i] \in Connection
        BY <1>5, <1>6, <1>7, <2>2
    <2>4. h \in T /\ h = [name |-> new.name, after |-> new.after]
        BY <1>1, <1>2, <1>5
    <2>5. /\ \A i \in 1..Len(conns) : [name |-> conns[i].name, after |-> conns[i].after] \in T
          /\ \A i \in 1..k : [name |-> conns'[i].name, after |-> conns'[i].after] \in T
        BY <2>2, <2>3
    <2> HIDE DEF T
    <2>6. Made \in [1..Len(conns) -> T] /\ Made' \in [1..k -> T]
        BY <2>1, <2>5
    <2>7. Made \in Seq(T) /\ Len(Made) = Len(conns) /\ Made' \in Seq(T) /\ Len(Made') = k
        <3>1. Len(conns) \in Nat /\ k \in Nat
            BY <1>1, <1>4
        <3>2. Made \in Seq(T) /\ Len(Made) = Len(conns)
            BY <2>6, <3>1, SameLength
        <3>3. Made' \in Seq(T) /\ Len(Made') = k
            BY <2>6, <3>1, SameLength
        <3> QED
            BY <3>2, <3>3
    <2>8. PICK m : m = Append(Made, h)
        OBVIOUS
    <2>9. /\ m \in Seq(T)
          /\ Len(m) = k
          /\ \A i \in 1..Len(conns) : m[i] = Made[i]
          /\ m[k] = h
        BY <1>1, <2>4, <2>7, <2>8, AppendProperties
    <2>10. \A i \in 1..k : Made'[i] = m[i]
        <3>1. \A i \in 1..Len(conns) : i \in 1..k /\ Made'[i] = Made[i]
            BY <1>6, <1>7, <2>1
        <3>2. Made'[k] = h
            BY <1>6, <1>7, <2>1, <2>4
        <3> QED
            BY <1>7, <2>9, <3>1, <3>2
    <2>11. Made' = m
        BY <2>7, <2>9, <2>10, SeqEqual
    <2> QED
        BY <2>7, <2>8, <2>11
<1>10. Calls' = Calls
    <2>1. \A e \in 1..Len(emissions) : Shown(conns', emissions[e]) = Shown(conns, emissions[e])
        <3> SUFFICES ASSUME NEW e \in 1..Len(emissions)
                     PROVE  Shown(conns', emissions[e]) = Shown(conns, emissions[e])
            OBVIOUS
        <3>1. PICK c, d, l, y : c = conns /\ d = conns' /\ l = Len(conns) /\ y = emissions[e]
            OBVIOUS
        <3>2. WaitingIn(l, y)
            BY <3>1, EmissionsWait
        <3>3. PICK H : H = {}
            OBVIOUS
        <3>4. FlagsOnly(c, d, l, H)
            BY <1>6, <3>1, <3>3 DEF FlagsOnly
        <3>5. Waits(d, y) = Waits(c, y) \ H
            BY <3>2, <3>4, TheGoneAreOwedNothing
        <3> QED
            BY <3>1, <3>3, <3>5 DEF Shown
    <2>2. DOMAIN emissions = 1..Len(emissions)
        BY EmissionsWait, LenProperties
    <2> QED
        BY <1>3, <2>1, <2>2, CallsAreShown DEF AllShown
<1>11. h \in Promise!Handler
    BY <1>2 DEF Promise!Handler
<1>12. Promise!Connect(h)
    BY <1>1, <1>3, <1>8, <1>9, <1>10 DEF Promise!Connect
<1> QED
    BY <1>11, <1>12

(* disconnect() and disconnectAll(): the flags of some connections are set. *)
LEMMA FlaggingIsPromised ==
    ASSUME SignalsInv, NEW H \in SUBSET Live, UserCode, emissions' = emissions,
           DOMAIN conns' = DOMAIN conns,
           \A k \in DOMAIN conns :
               /\ conns'[k].name = conns[k].name
               /\ conns'[k].after = conns[k].after
               /\ conns'[k].disconnected <=> conns[k].disconnected \/ k \in H
    PROVE  Promise!Disconnect(H)
<1>1. Promise!UserCode
    BY UserCodeIsShown
<1>2. Made' = Made
    BY DEF Made
<1>3. Live' = Live \ H
    BY DEF Live
<1>4. DOMAIN conns = 1..Len(conns)
    BY Types DEF SignalsInv
<1>5. DOMAIN emissions = 1..Len(emissions)
    BY EmissionsWait, LenProperties
<1>6. ASSUME NEW e \in 1..Len(emissions)
      PROVE  Shown(conns', emissions[e]) = [Shown(conns, emissions[e]) EXCEPT !.waiting = @ \ H]
    <2>1. PICK c, d, l, y : c = conns /\ d = conns' /\ l = Len(conns) /\ y = emissions[e]
        OBVIOUS
    <2>2. WaitingIn(l, y)
        BY <2>1, EmissionsWait
    <2>3. FlagsOnly(c, d, l, H)
        BY <1>4, <2>1 DEF FlagsOnly
    <2>4. Waits(d, y) = Waits(c, y) \ H
        BY <2>2, <2>3, TheGoneAreOwedNothing
    <2>5. Shown(d, y) = [waiting |-> Waits(c, y) \ H, running |-> y.running]
        BY <2>4 DEF Shown
    <2>6. [Shown(c, y) EXCEPT !.waiting = @ \ H]
              = [waiting |-> Waits(c, y) \ H, running |-> y.running]
        <3>1. PICK s, w, v, r : /\ s = Shown(c, y) /\ w = Waits(c, y) /\ v = w \ H
                                /\ r = y.running
            OBVIOUS
        <3>2. s = [waiting |-> w, running |-> r]
            BY <3>1 DEF Shown
        <3>3. s.waiting \ H = v
            BY <3>1, <3>2
        <3>4. [s EXCEPT !.waiting = v] = [waiting |-> v, running |-> r]
            BY <3>2
        <3> QED
            BY <3>1, <3>3, <3>4
    <2> QED
        BY <2>1, <2>5, <2>6
<1>7. Calls' = [e \in DOMAIN Calls |-> [Calls[e] EXCEPT !.waiting = @ \ H]]
    BY <1>5, <1>6, CallsAreShown DEF AllShown
<1> QED
    BY <1>1, <1>2, <1>3, <1>7 DEF Promise!Disconnect

LEMMA DisconnectIsPromised ==
    ASSUME SignalsInv, NEW id \in DOMAIN byId, Disconnect(id)
    PROVE  \E H \in SUBSET Live : Promise!Disconnect(H)
<1>1. PICK k : k = byId[id]
    OBVIOUS
<1>2. /\ DOMAIN conns = 1..Len(conns)
      /\ \A i \in DOMAIN conns : conns[i] \in Connection
      /\ k \in DOMAIN conns
    BY <1>1, Types DEF SignalsInv
<1>3. /\ conns' = [conns EXCEPT ![k].disconnected = TRUE]
      /\ ~conns[k].disconnected
      /\ UserCode /\ emissions' = emissions
    BY <1>1 DEF Disconnect
<1>4. /\ DOMAIN conns' = DOMAIN conns
      /\ \A i \in DOMAIN conns :
            /\ conns'[i].name = conns[i].name
            /\ conns'[i].after = conns[i].after
            /\ conns'[i].disconnected <=> conns[i].disconnected \/ i \in {k}
    BY <1>2, <1>3 DEF Connection
<1>5. {k} \in SUBSET Live
    BY <1>2, <1>3 DEF Live
<1> QED
    BY <1>3, <1>4, <1>5, FlaggingIsPromised

LEMMA DisconnectAllIsPromised ==
    ASSUME SignalsInv, DisconnectAll
    PROVE  \E H \in SUBSET Live : Promise!Disconnect(H)
<1>1. /\ DOMAIN conns = 1..Len(conns)
      /\ \A i \in DOMAIN conns : conns[i] \in Connection
      /\ UnflaggedFound
    BY Types DEF SignalsInv, IndexesAgree
<1>2. conns' = AllFlagged /\ UserCode /\ emissions' = emissions
    BY DEF DisconnectAll
<1>3. /\ DOMAIN conns' = DOMAIN conns
      /\ \A i \in DOMAIN conns :
            /\ conns'[i].name = conns[i].name
            /\ conns'[i].after = conns[i].after
            /\ conns'[i].disconnected <=>
                  conns[i].disconnected \/ \E id \in DOMAIN byId : byId[id] = i
    BY <1>1, <1>2 DEF AllFlagged, Connection
<1>4. \A i \in DOMAIN conns :
          conns'[i].disconnected <=> conns[i].disconnected \/ i \in Live
    BY <1>1, <1>3 DEF UnflaggedFound, Live
<1>5. Live \in SUBSET Live
    OBVIOUS
<1>6. Promise!Disconnect(Live)
    BY <1>2, <1>3, <1>4, <1>5, FlaggingIsPromised
<1> QED
    BY <1>5, <1>6

-----------------------------------------------------------------------------
LEMMA NextIsPromised ==
    ASSUME SignalsInv, [Next]_vars
    PROVE  [Promise!Next]_(Promise!vars)
<1>1. ASSUME NEW n \in Names, NEW after \in BOOLEAN, Connect(n, after)
      PROVE  Promise!Next
    BY <1>1, ConnectIsPromised DEF Promise!Next
<1>2. ASSUME NEW id \in DOMAIN byId, Disconnect(id)
      PROVE  Promise!Next
    BY <1>2, DisconnectIsPromised DEF Promise!Next
<1>3. CASE DisconnectAll
    BY <1>3, DisconnectAllIsPromised DEF Promise!Next
<1>4. ASSUME NEW n \in Names, Emit(n)
      PROVE  Promise!Next
    BY <1>4, EmitIsPromised DEF Promise!Next
<1>5. CASE Skip
    BY <1>5, SkipIsStutter
<1>6. CASE Call
    BY <1>6, CallIsPromised DEF Promise!Next
<1>7. ASSUME NEW stop \in BOOLEAN, Return(stop)
      PROVE  Promise!Next
    BY <1>7, ReturnIsPromised DEF Promise!Next
<1>8. CASE BeforeDone
    BY <1>8, HalfTimeIsStutter
<1>9. CASE AfterDone
    BY <1>9, AfterDoneIsPromised DEF Promise!Next
<1>10. CASE UNCHANGED vars
    <2>1. conns' = conns /\ emissions' = emissions
        BY <1>10 DEF vars
    <2>2. Made' = Made /\ Live' = Live /\ Calls' = Calls
        BY <2>1, CallsAreShown DEF Made, Live
    <2> QED
        BY <2>2 DEF Promise!vars
<1> QED
    BY <1>1, <1>2, <1>3, <1>4, <1>5, <1>6, <1>7, <1>8, <1>9, <1>10 DEF Next

(* Whatever the handlers do to the object while emissions are under way,    *)
(* _signals.js behaves as Emitter says: each handler that was connected     *)
(* when the emission started and still is gets its call, once, in order,    *)
(* and a handler that is gone gets none.                                    *)
THEOREM SignalsKeepThePromise == Spec => KeepsItsPromise
<1>1. Init => Promise!Init
    BY InitIsPromised
<1>2. SignalsInv /\ [Next]_vars => [Promise!Next]_(Promise!vars)
    BY NextIsPromised
<1> QED
    BY <1>1, <1>2, SignalsInvariant, PTL DEF Spec, KeepsItsPromise, Promise!Spec

=============================================================================
