----------------------- MODULE IdempotencyGateProofs -----------------------
(***************************************************************************)
(* What holds of IdempotencyGate for any number of requests, keys and      *)
(* failing transactions.                                                   *)
(*                                                                         *)
(* None of the properties is inductive alone.  That one request executes   *)
(* per key rests on the index entry: an open insert excludes every other   *)
(* one of its key, and stands for a key that has no committed row yet;     *)
(* whoever got further than that stands behind a committed row.            *)
(***************************************************************************)
EXTENDS IdempotencyGate, TLAPS

\* Only a request with a key gets as far as the table.
Keyed(r) ==
    /\ at[r] \in {"find", "insert", "commit", "refind"} => KeyOf[r] \in Keys
    /\ reply[r] \in {"hit_completed", "hit_running", "hit_failed"}
           => KeyOf[r] \in Keys

\* An open insert belongs to a request about to commit, and to a free key.
Holder(r) ==
    /\ r \in insert <=> at[r] = "commit"
    /\ r \in insert => row[KeyOf[r]] = "absent"

\* Two open inserts never hold the same index entry.
IndexUnique == \A r, s \in insert : KeyOf[r] = KeyOf[s] => r = s

\* Behind an execution, a collision and a hit there is a committed row.
Backed(r) ==
    /\ reply[r] \in {"hit_completed", "hit_running", "hit_failed"}
           => row[KeyOf[r]] # "absent"
    /\ Admitted(r) /\ KeyOf[r] # NoKey => row[KeyOf[r]] # "absent"
    /\ at[r] = "refind" => row[KeyOf[r]] # "absent"

\* Who is about to write a status has read a row; if nobody read beside it, that
\* row is still as it was read.
Settling(k) ==
    /\ \A w \in Settlers : settling[k][w] # "none" => row[k] # "absent"
    /\ k \notin contended =>
           /\ \A w \in Settlers : settling[k][w] # "none" => row[k] = "running"
           /\ \A v, w \in Settlers :
                  settling[k][v] # "none" /\ settling[k][w] # "none" => v = w

Inv ==
    /\ TypeOK
    /\ \A r \in Requests : Keyed(r) /\ Holder(r) /\ Backed(r)
    /\ \A k \in Keys : Settling(k)
    /\ IndexUnique
    /\ OneExecution
    /\ CollisionIsFound
    /\ HitIsTrue

-----------------------------------------------------------------------------
\* No request has moved at the beginning.
LEMMA InitInv == Init => Inv
<1> SUFFICES ASSUME Init PROVE Inv
  OBVIOUS
<1> USE DEF Init
<1>1. TypeOK
  BY GateConstants DEF TypeOK, RowStates, Places, Replies
<1>2. /\ \A r \in Requests : Keyed(r) /\ Holder(r) /\ Backed(r)
      /\ \A k \in Keys : Settling(k)
  BY DEF Keyed, Holder, Backed, Admitted, Settling
<1>3. IndexUnique /\ OneExecution /\ CollisionIsFound /\ HitIsTrue
  BY DEF IndexUnique, OneExecution, Admitted, CollisionIsFound, HitIsTrue
<1>. QED  BY <1>1, <1>2, <1>3 DEF Inv

\* A request that moves without touching the table, to a place where it is
\* neither at its commit nor at a collision nor executing, and whose answer,
\* if it gets one, is true: denials, hits, and requests that go on to insert.
LEMMA HarmlessStep ==
    ASSUME Inv, NEW r \in Requests, at[r] # "commit",
           NEW place \in Places, NEW answer \in Replies,
           at' = [at EXCEPT ![r] = place], reply' = [reply EXCEPT ![r] = answer],
           UNCHANGED <<row, insert, settling, contended>>, faults' \in Nat,
           place # "commit",
           place = "refind" => row[KeyOf[r]] # "absent",
           place \in {"execute", "executed"} => KeyOf[r] = NoKey \/ Admitted(r),
           place \in {"find", "insert", "refind"} => KeyOf[r] \in Keys,
           answer # "unfound",
           answer \in {"hit_completed", "hit_running", "hit_failed"}
               => KeyOf[r] \in Keys /\ row[KeyOf[r]] # "absent",
           answer = "hit_completed" /\ KeyOf[r] \notin contended =>
               row[KeyOf[r]] = "completed",
           answer = "hit_failed" /\ KeyOf[r] \notin contended => row[KeyOf[r]] = "failed"
    PROVE  Inv'
<1> USE DEF Inv
<1>1. /\ at'[r] = place /\ reply'[r] = answer
      /\ \A s \in Requests : s # r => at'[s] = at[s] /\ reply'[s] = reply[s]
  BY DEF TypeOK
<1>2. TypeOK'
  BY DEF TypeOK
<1>3. \A s \in Requests : Admitted(s)' => Admitted(s) \/ KeyOf[s] = NoKey
  BY <1>1 DEF Admitted
<1>4. ASSUME NEW s \in Requests PROVE Keyed(s)' /\ Holder(s)' /\ Backed(s)'
  <2>1. Keyed(s)'
    BY <1>1 DEF Keyed
  <2>2. Holder(s)'
    BY <1>1 DEF Holder
  <2>3. Backed(s)'
    BY <1>1, <1>3 DEF Backed
  <2>. QED  BY <2>1, <2>2, <2>3
<1>5. IndexUnique'
  BY DEF IndexUnique
<1>6. OneExecution'
  BY <1>3 DEF OneExecution
<1>7. CollisionIsFound'
  BY <1>1 DEF CollisionIsFound
<1>8. HitIsTrue'
  BY <1>1 DEF HitIsTrue
<1>9. \A k \in Keys : Settling(k)'
  BY DEF Settling
<1>. QED  BY <1>2, <1>4, <1>5, <1>6, <1>7, <1>8, <1>9

\* What _check_process answers for a committed row is true of that row.
LEMMA HitTells ==
    ASSUME NEW status \in RowStates
    PROVE  /\ Hit(status) \in Replies
           /\ Hit(status) = "unfound" => status = "absent"
           /\ Hit(status) = "hit_completed" => status = "completed"
           /\ Hit(status) = "hit_failed" => status = "failed"
           /\ Hit(status) = "hit_running" => status # "absent"
  BY DEF Hit, RowStates, Verdicts, Replies

-----------------------------------------------------------------------------
\* A refusal touches no row.
LEMMA DenyInv == ASSUME Inv, NEW r \in Requests, Deny(r) PROVE Inv'
<1>1. faults' \in Nat /\ UNCHANGED <<row, insert, settling, contended>> /\ at[r] = "arrived"
  BY DEF Deny, settleVars, Inv, TypeOK
<1>2. /\ at' = [at EXCEPT ![r] = "answered"]
      /\ reply' = [reply EXCEPT ![r] = "denied"]
  BY DEF Deny, Answer, Goto
<1>. QED  BY <1>1, <1>2, HarmlessStep DEF Places, Replies

\* The reply stays what it was: [f EXCEPT ![r] = f[r]] is f.
LEMMA SameReply ==
    ASSUME Inv, NEW r \in Requests, UNCHANGED reply
    PROVE  /\ reply' = [reply EXCEPT ![r] = reply[r]]
           /\ reply[r] \in Replies /\ reply[r] # "unfound"
           /\ reply[r] \in {"hit_completed", "hit_running", "hit_failed"}
                  => KeyOf[r] \in Keys /\ row[KeyOf[r]] # "absent"
           /\ reply[r] = "hit_completed" /\ KeyOf[r] \notin contended =>
                  row[KeyOf[r]] = "completed"
           /\ reply[r] = "hit_failed" /\ KeyOf[r] \notin contended =>
                  row[KeyOf[r]] = "failed"
  BY DEF Inv, TypeOK, CollisionIsFound, HitIsTrue, Keyed, Backed

\* Only a request with a key goes to the table.
LEMMA RouteInv == ASSUME Inv, NEW r \in Requests, Route(r) PROVE Inv'
<1>1. faults' \in Nat /\ UNCHANGED <<row, insert, reply, settling, contended>> /\ at[r] = "arrived"
  BY DEF Route, settleVars, Inv, TypeOK
<1> DEFINE place == IF KeyOf[r] = NoKey THEN "execute" ELSE "find"
<1>2. at' = [at EXCEPT ![r] = place]
  BY DEF Route, Goto
<1>3. place \in Places /\ (place = "find" => KeyOf[r] \in Keys)
  BY GateConstants DEF Places
<1>4. place # "commit" /\ place # "refind" /\ place # "insert"
      /\ (place \in {"execute", "executed"} => KeyOf[r] = NoKey)
  OBVIOUS
<1>. HIDE DEF place
<1>. QED  BY <1>1, <1>2, <1>3, <1>4, SameReply, HarmlessStep

\* The first SELECT answers by the row it finds, or goes on to insert.
LEMMA FindInv == ASSUME Inv, NEW r \in Requests, Find(r) PROVE Inv'
<1>1. faults' \in Nat /\ UNCHANGED <<row, insert, settling, contended>> /\ at[r] = "find"
  BY DEF Find, settleVars, Inv, TypeOK
<1>2. KeyOf[r] \in Keys /\ row[KeyOf[r]] \in RowStates
  BY <1>1 DEF Inv, Keyed, TypeOK
<1>3. ASSUME row[KeyOf[r]] = "absent" PROVE Inv'
  <2>1. at' = [at EXCEPT ![r] = "insert"] /\ UNCHANGED reply
    BY <1>3 DEF Find, Goto
  <2>. QED  BY <1>1, <1>2, <2>1, SameReply, HarmlessStep DEF Places
<1>4. ASSUME row[KeyOf[r]] # "absent" PROVE Inv'
  <2>1. /\ at' = [at EXCEPT ![r] = "answered"]
        /\ reply' = [reply EXCEPT ![r] = Hit(row[KeyOf[r]])]
    BY <1>4 DEF Find, Answer, Goto
  <2>. QED  BY <1>1, <1>2, <1>4, <2>1, HitTells, HarmlessStep DEF Places
<1>. QED  BY <1>3, <1>4

\* The SELECT after a collision finds the row and answers by it.
LEMMA RefindInv == ASSUME Inv, NEW r \in Requests, Refind(r) PROVE Inv'
<1>1. faults' \in Nat /\ UNCHANGED <<row, insert, settling, contended>> /\ at[r] = "refind"
  BY DEF Refind, settleVars, Inv, TypeOK
<1>2. /\ KeyOf[r] \in Keys /\ row[KeyOf[r]] \in RowStates
      /\ row[KeyOf[r]] # "absent"
  BY <1>1 DEF Inv, Keyed, Backed, TypeOK
<1>3. /\ at' = [at EXCEPT ![r] = "answered"]
      /\ reply' = [reply EXCEPT ![r] = Hit(row[KeyOf[r]])]
  BY DEF Refind, Answer, Goto
<1>. QED  BY <1>1, <1>2, <1>3, HitTells, HarmlessStep DEF Places

\* Executing admits nobody else.
LEMMA ExecuteInv == ASSUME Inv, NEW r \in Requests, Execute(r) PROVE Inv'
<1>1. faults' \in Nat /\ UNCHANGED <<row, insert, settling, contended>> /\ at[r] = "execute"
  BY DEF Execute, settleVars, Inv, TypeOK
<1>2. /\ at' = [at EXCEPT ![r] = "executed"]
      /\ reply' = [reply EXCEPT ![r] = "result"]
  BY DEF Execute, Goto
<1>3. Admitted(r)
  BY <1>1 DEF Admitted
<1>. QED  BY <1>1, <1>2, <1>3, HarmlessStep DEF Places, Replies

-----------------------------------------------------------------------------
\* An insert starts only where no other is open, and only on a free key.
LEMMA InsertInv == ASSUME Inv, NEW r \in Requests, Insert(r) PROVE Inv'
<1>1. /\ faults' \in Nat /\ UNCHANGED <<row, reply, settling, contended>>
      /\ at[r] = "insert" /\ IndexFree(KeyOf[r])
  BY DEF Insert, settleVars, Inv, TypeOK
<1>2. KeyOf[r] \in Keys
  BY <1>1 DEF Inv, Keyed
<1>3. ASSUME row[KeyOf[r]] # "absent" PROVE Inv'
  <2>1. at' = [at EXCEPT ![r] = "refind"] /\ UNCHANGED insert
    BY <1>3 DEF Insert, Goto
  <2>. QED  BY <1>1, <1>2, <1>3, <2>1, SameReply, HarmlessStep DEF Places
<1>4. ASSUME row[KeyOf[r]] = "absent" PROVE Inv'
  <2> USE DEF Inv
  <2>1. at' = [at EXCEPT ![r] = "commit"] /\ insert' = insert \cup {r}
    BY <1>4 DEF Insert, Goto
  <2>2. /\ at'[r] = "commit"
        /\ \A s \in Requests : s # r => at'[s] = at[s]
    BY <2>1 DEF TypeOK
  <2>3. TypeOK'
    BY <1>1, <2>1 DEF TypeOK, Places
  <2>4. \A s \in Requests : Admitted(s)' => Admitted(s)
    BY <2>2 DEF Admitted
  <2>5. ASSUME NEW s \in Requests PROVE Keyed(s)' /\ Holder(s)' /\ Backed(s)'
    <3>1. Keyed(s)'
      BY <1>1, <1>2, <2>2 DEF Keyed
    <3>2. Holder(s)'
      BY <1>1, <1>4, <2>1, <2>2 DEF Holder
    <3>3. Backed(s)'
      BY <1>1, <2>2, <2>4 DEF Backed
    <3>. QED  BY <3>1, <3>2, <3>3
  <2>6. IndexUnique'
    BY <1>1, <2>1 DEF IndexUnique, IndexFree
  <2>7. OneExecution' /\ CollisionIsFound' /\ HitIsTrue'
    BY <1>1, <2>4 DEF OneExecution, CollisionIsFound, HitIsTrue
  <2>8. \A k \in Keys : Settling(k)'
    BY <1>1 DEF Settling
  <2>. QED  BY <2>3, <2>5, <2>6, <2>7, <2>8
<1>. QED  BY <1>3, <1>4

\* The row of a held key appears: no request executes under that key yet, and
\* no other insert of it is open.
LEMMA RowAppears ==
    ASSUME Inv, NEW r \in insert,
           row' = [row EXCEPT ![KeyOf[r]] = "running"],
           insert' = insert \ {r}, UNCHANGED <<reply, settling, contended>>,
           faults' \in Nat, NEW place \in {"execute", "raised"},
           at' = [at EXCEPT ![r] = place]
    PROVE  Inv'
<1> USE DEF Inv
<1>1. r \in Requests /\ at[r] = "commit"
  BY DEF TypeOK, Holder
<1>2. KeyOf[r] \in Keys /\ row[KeyOf[r]] = "absent"
  BY <1>1 DEF Keyed, Holder
<1>3. /\ at'[r] = place
      /\ \A s \in Requests : s # r => at'[s] = at[s]
  BY <1>1 DEF TypeOK
<1>4. /\ row'[KeyOf[r]] = "running"
      /\ \A k \in Keys : k # KeyOf[r] => row'[k] = row[k]
  BY <1>2 DEF TypeOK
<1>5. TypeOK'
  BY <1>2 DEF TypeOK, Places, RowStates
<1>6. \A s \in Requests : KeyOf[s] # NoKey => KeyOf[s] \in Keys
  BY GateConstants
<1>7. \A s \in Requests : Admitted(s) => KeyOf[s] # KeyOf[r]
  BY <1>2, GateConstants DEF Backed
<1>8. ASSUME NEW s \in Requests PROVE Keyed(s)' /\ Holder(s)' /\ Backed(s)'
  <2>1. Keyed(s)'
    BY <1>3 DEF Keyed
  <2>2. Holder(s)'
    <3>1. s \in insert' <=> at'[s] = "commit"
      BY <1>3 DEF Holder
    <3>2. ASSUME s \in insert' PROVE row'[KeyOf[s]] = "absent"
      <4>1. KeyOf[s] # KeyOf[r] /\ KeyOf[s] \in Keys /\ row[KeyOf[s]] = "absent"
        BY <3>2 DEF IndexUnique, Holder, Keyed
      <4>. QED  BY <4>1, <1>4
    <3>. QED  BY <3>1, <3>2 DEF Holder
  <2>3. \A k \in Keys : row[k] # "absent" => row'[k] # "absent"
    BY <1>4
  <2>4. ASSUME s # r PROVE Backed(s)'
    BY <1>3, <1>6, <2>3, <2>4 DEF Backed, Admitted, Keyed
  <2>5. Backed(r)'
    BY <1>3, <1>4 DEF Backed
  <2>. QED  BY <2>1, <2>2, <2>4, <2>5
<1>9. IndexUnique'
  BY DEF IndexUnique
<1>10. OneExecution'
  BY <1>3, <1>7 DEF OneExecution, Admitted
<1>11. CollisionIsFound'
  BY DEF CollisionIsFound
<1>12. HitIsTrue'
  <2> SUFFICES ASSUME NEW s \in Requests,
                      reply[s] \in {"hit_completed", "hit_running", "hit_failed"}
               PROVE  row'[KeyOf[s]] = row[KeyOf[s]]
    BY DEF HitIsTrue
  <2>1. KeyOf[s] \in Keys /\ row[KeyOf[s]] # "absent"
    BY DEF Backed, Keyed
  <2>. QED  BY <2>1, <1>2, <1>4
<1>13. \A k \in Keys : Settling(k)'
  BY <1>2, <1>4 DEF Settling
<1>. QED  BY <1>5, <1>8, <1>9, <1>10, <1>11, <1>12, <1>13

\* A commit makes the row appear and its request execute.
LEMMA CommitInv == ASSUME Inv, NEW r \in Requests, Commit(r) PROVE Inv'
<1>1. faults' \in Nat /\ r \in insert /\ UNCHANGED <<reply, settling, contended>>
  BY DEF Commit, settleVars, Inv, TypeOK, Holder
<1>2. /\ row' = [row EXCEPT ![KeyOf[r]] = "running"]
      /\ insert' = insert \ {r} /\ at' = [at EXCEPT ![r] = "execute"]
  BY DEF Commit, Goto
<1>. QED  BY <1>1, <1>2, RowAppears

\* A failing transaction gives up its index entry; its row is there or not.
LEMMA TransactionFailsInv ==
    ASSUME Inv, NEW r \in Requests, TransactionFails(r) PROVE Inv'
<1>1. /\ faults' \in Nat /\ UNCHANGED <<reply, settling, contended>>
      /\ insert' = insert \ {r} /\ at' = [at EXCEPT ![r] = "raised"]
  BY DEF TransactionFails, settleVars, Fault, Goto, Inv, TypeOK
<1>2. ASSUME row' # row PROVE Inv'
  <2>1. at[r] = "commit" /\ row' = [row EXCEPT ![KeyOf[r]] = "running"]
    BY <1>2 DEF TransactionFails
  <2>2. r \in insert
    BY <2>1 DEF Inv, Holder
  <2>. QED  BY <1>1, <2>1, <2>2, RowAppears
<1>3. ASSUME row' = row PROVE Inv'
  <2> USE DEF Inv
  <2>1. /\ at'[r] = "raised"
        /\ \A s \in Requests : s # r => at'[s] = at[s]
    BY <1>1 DEF TypeOK
  <2>2. TypeOK'
    BY <1>1, <1>3 DEF TypeOK, Places
  <2>3. \A s \in Requests : Admitted(s)' => Admitted(s)
    BY <2>1 DEF Admitted
  <2>4. ASSUME NEW s \in Requests PROVE Keyed(s)' /\ Holder(s)' /\ Backed(s)'
    <3>1. Keyed(s)'
      BY <1>1, <2>1 DEF Keyed
    <3>2. Holder(s)'
      BY <1>1, <1>3, <2>1 DEF Holder
    <3>3. Backed(s)'
      BY <1>1, <1>3, <2>1, <2>3 DEF Backed
    <3>. QED  BY <3>1, <3>2, <3>3
  <2>5. IndexUnique'
    BY <1>1 DEF IndexUnique
  <2>6. OneExecution' /\ CollisionIsFound' /\ HitIsTrue'
    BY <1>1, <1>3, <2>3 DEF OneExecution, CollisionIsFound, HitIsTrue
  <2>7. \A k \in Keys : Settling(k)'
    BY <1>1, <1>3 DEF Settling
  <2>. QED  BY <2>2, <2>4, <2>5, <2>6, <2>7
<1>. QED  BY <1>2, <1>3

\* A settlement touches neither requests nor the index, nor whether a row is
\* there: what it has to keep is the truth of hits and what other settlers read.
LEMMA SettleInv ==
    ASSUME Inv, NEW k \in Keys, NEW w \in Settlers, Settle(k, w) PROVE Inv'
<1> USE DEF Inv
<1>1. /\ UNCHANGED <<insert, at, reply>> /\ faults' \in Nat
      /\ row[k] # "absent" /\ k \in Keys
  BY DEF Settle, SettleRead, ReadToSettle, SettleWrite, SettleFails, SettleEnds, gateVars,
         Fault, Settling, TypeOK
<1>2. /\ \A j \in Keys : row'[j] = "absent" <=> row[j] = "absent"
      /\ \A j \in Keys \ {k} : row'[j] = row[j] /\ settling'[j] = settling[j]
      /\ row' \in [Keys -> RowStates]
      /\ settling' \in [Keys -> [Settlers -> {"none"} \cup Verdicts]]
      /\ contended \subseteq contended' /\ contended' \subseteq contended \cup {k}
  <2>1. CASE SettleRead(k, w)
    BY <2>1 DEF SettleRead, ReadToSettle, TypeOK
  <2>2. CASE SettleFails(k, w)
    BY <2>2 DEF SettleFails, SettleEnds, TypeOK
  <2>3. CASE SettleWrite(k, w)
    <3>1. settling[k][w] \in Verdicts /\ "absent" \notin Verdicts
      BY <2>3 DEF SettleWrite, SettleEnds, TypeOK, Verdicts
    <3>. QED  BY <1>1, <2>3, <3>1 DEF SettleWrite, SettleEnds, TypeOK, RowStates
  <2>. QED  BY <2>1, <2>2, <2>3 DEF Settle
<1>3. TypeOK'
  BY <1>1, <1>2 DEF TypeOK
<1>4. ASSUME NEW s \in Requests PROVE Keyed(s)' /\ Holder(s)' /\ Backed(s)'
  <2>1. KeyOf[s] # NoKey => KeyOf[s] \in Keys
    BY GateConstants
  <2>2. Keyed(s)'
    BY <1>1 DEF Keyed
  <2>3. Holder(s)'
    BY <1>1, <1>2 DEF Holder, Keyed
  <2>4. Backed(s)'
    BY <1>1, <1>2, <2>1 DEF Backed, Keyed, Admitted
  <2>. QED  BY <2>2, <2>3, <2>4
<1>5. IndexUnique' /\ OneExecution' /\ CollisionIsFound'
  BY <1>1 DEF IndexUnique, OneExecution, Admitted, CollisionIsFound
<1>6. Settling(k)'
  <2>1. CASE SettleRead(k, w)
    <3>1. /\ row[k] = "running" /\ row' = row
          /\ \A v \in Settlers \ {w} : settling'[k][v] = settling[k][v]
          /\ k \notin contended' =>
                 k \notin contended /\ \A v \in Settlers : settling[k][v] = "none"
      BY <2>1 DEF SettleRead, ReadToSettle, Pending, TypeOK
    <3>. QED  BY <3>1 DEF Settling
  <2>2. CASE SettleEnds(k, w)
    <3>1. /\ settling'[k][w] = "none" /\ contended' = contended /\ settling[k][w] # "none"
          /\ \A v \in Settlers \ {w} : settling'[k][v] = settling[k][v]
      BY <2>2 DEF SettleEnds, TypeOK
    <3>2. /\ k \notin contended =>
                 \A v, u \in Settlers :
                     settling[k][v] # "none" /\ settling[k][u] # "none" => v = u
          /\ row'[k] # "absent"
      BY <1>1, <1>2 DEF Settling
    <3>3. k \notin contended => \A v \in Settlers : settling'[k][v] = "none"
      BY <3>1, <3>2
    <3>. QED  BY <3>1, <3>2, <3>3 DEF Settling
  <2>. QED  BY <2>1, <2>2 DEF Settle, SettleWrite, SettleFails
<1>7. \A j \in Keys : Settling(j)'
  BY <1>2, <1>6 DEF Settling
<1>8. row'[k] = row[k] \/ k \in contended \/ row[k] = "running"
  BY DEF Settle, SettleRead, ReadToSettle, SettleWrite, SettleFails, SettleEnds, Settling
<1>9. HitIsTrue'
  <2> SUFFICES ASSUME NEW s \in Requests,
                      reply[s] \in {"hit_completed", "hit_running", "hit_failed"}
               PROVE  /\ reply[s] = "hit_completed" /\ KeyOf[s] \notin contended' =>
                             row'[KeyOf[s]] = "completed"
                      /\ reply[s] = "hit_failed" /\ KeyOf[s] \notin contended' =>
                             row'[KeyOf[s]] = "failed"
                      /\ reply[s] = "hit_running" => row'[KeyOf[s]] # "absent"
    BY <1>1 DEF HitIsTrue
  <2>1. KeyOf[s] \in Keys
    BY DEF Keyed
  <2>. QED  BY <1>2, <1>8, <2>1 DEF HitIsTrue
<1>. QED  BY <1>3, <1>4, <1>5, <1>7, <1>9

-----------------------------------------------------------------------------
\* Every step keeps the invariant.
LEMMA NextInv == ASSUME Inv, [Next]_vars PROVE Inv'
<1>1. ASSUME NEW r \in Requests, RequestStep(r) PROVE Inv'
  BY <1>1, DenyInv, RouteInv, FindInv, InsertInv, CommitInv, RefindInv,
     ExecuteInv DEF RequestStep
<1>2. ASSUME UNCHANGED vars PROVE Inv'
  BY <1>2 DEF vars, gateVars, settleVars, Inv, TypeOK, Keyed, Holder, Backed, Admitted,
     Settling, IndexUnique, OneExecution, CollisionIsFound, HitIsTrue
<1>. QED  BY <1>1, <1>2, TransactionFailsInv, SettleInv DEF Next

\* Inv is an invariant.
LEMMA InvHolds == Spec => []Inv
<1>1. Inv /\ [Next]_vars => Inv'
  BY NextInv
<1>. QED  BY InitInv, <1>1, PTL DEF Spec

\* The request table, the index and the answers stay well typed.
THEOREM GateTypeCorrect == Spec => []TypeOK
<1>1. Inv => TypeOK
  BY DEF Inv
<1>. QED  BY InvHolds, <1>1, PTL

\* However many requests carry a key, and whichever transactions fail, the
\* unique index lets at most one of them execute the workflow.
THEOREM AtMostOneExecution == Spec => []OneExecution
<1>1. Inv => OneExecution
  BY DEF Inv
<1>. QED  BY InvHolds, <1>1, PTL

\* The SELECT after an IntegrityError always finds the row that caused it.
THEOREM CollisionsAreFound == Spec => []CollisionIsFound
<1>1. Inv => CollisionIsFound
  BY DEF Inv
<1>. QED  BY InvHolds, <1>1, PTL

\* What a request is told of an earlier one is true, and stays true as long as no
\* two settlements of the row overlap (transition_status tests what it has read,
\* not what it overwrites).
THEOREM HitsAreTrue == Spec => []HitIsTrue
<1>1. Inv => HitIsTrue
  BY DEF Inv
<1>. QED  BY InvHolds, <1>1, PTL

\* A request that waits for an index entry waits for one that holds it and is
\* about to commit: an entry is never left behind by a transaction that failed.
THEOREM WaitingEnds == Spec => []WaitsForCommit
<1>1. Inv => WaitsForCommit
  BY DEF Inv, TypeOK, Holder, IndexFree, WaitsForCommit
<1>. QED  BY InvHolds, <1>1, PTL

-----------------------------------------------------------------------------
(***************************************************************************)
(* The refinement: each step of a request is a step of AtomicGate, or      *)
(* changes nothing of what a request was given.                            *)
(***************************************************************************)

\* A request has no reply before it is answered or executed.
Silent(r) == at[r] \notin {"answered", "executed"} => reply[r] = "none"

RefineInv == Inv /\ \A r \in Requests : Silent(r)

\* Every step keeps silent requests silent.
LEMMA NextSilent == ASSUME RefineInv, [Next]_vars PROVE RefineInv'
<1>1. Inv'
  BY NextInv DEF RefineInv
<1>2. ASSUME NEW r \in Requests, NEW s \in Requests,
             RequestStep(r) \/ TransactionFails(r)
      PROVE  Silent(s)'
  BY <1>2 DEF RefineInv, Inv, TypeOK, Silent, RequestStep, Deny, Route, Find, Insert,
     Commit, Refind, Execute, TransactionFails, Answer, Goto
<1>3. ASSUME NEW s \in Requests, (\E k \in Keys, w \in Settlers : Settle(k, w)) \/ UNCHANGED vars
      PROVE  Silent(s)'
  BY <1>3 DEF RefineInv, Silent, Settle, SettleRead, ReadToSettle, SettleWrite, SettleFails,
     SettleEnds, gateVars, vars
<1>. QED  BY <1>1, <1>2, <1>3 DEF RefineInv, Next

given == [r \in Requests |-> Given(r)]

\* A request that moves alone changes what it was given, and nobody else's.
LEMMA GivenMoves ==
    ASSUME RefineInv, NEW r \in Requests,
           RequestStep(r) \/ TransactionFails(r)
    PROVE  given' = [given EXCEPT ![r] = Given(r)']
<1>1. \A s \in Requests : s # r => at'[s] = at[s] /\ reply'[s] = reply[s]
  BY DEF RefineInv, Inv, TypeOK, RequestStep, Deny, Route, Find, Insert,
     Commit, Refind, Execute, TransactionFails, Answer, Goto
<1>2. \A s \in Requests : s # r => Given(s)' = Given(s)
  BY <1>1 DEF Given, Admitted
<1>. QED  BY <1>2 DEF given

\* A request that has not been answered, admitted or hit by an exception was
\* given nothing.
LEMMA GivenNothing ==
    ASSUME RefineInv, NEW r \in Requests,
           at[r] \in {"arrived", "find", "insert", "commit", "refind"}
    PROVE  given[r] = "nothing"
BY DEF RefineInv, Silent, given, Given, Admitted

\* The answer of _check_process is the status of the row.
LEMMA GivenStatus ==
    ASSUME RefineInv, NEW r \in Requests, NEW status \in RowStates,
           status # "absent", at[r] \in {"find", "refind"},
           Answer(r, Hit(status))
    PROVE  Given(r)' = status
<1>1. at'[r] = "answered" /\ reply'[r] = Hit(status)
  BY DEF Answer, Goto, RefineInv, Inv, TypeOK
<1>. QED  BY <1>1 DEF Given, Admitted, Hit, RowStates, Verdicts

\* Who is let through to the workflow was given the execution, who left by an
\* exception the exception.
LEMMA GivenByPlace ==
    ASSUME RefineInv, NEW r \in Requests,
           RequestStep(r) \/ TransactionFails(r)
    PROVE  /\ at'[r] \in {"execute", "executed"} => Given(r)' = "execution"
           /\ at[r] = "execute" => given[r] = "execution"
           /\ at'[r] = "raised" => Given(r)' = "exception"
<1>1. Silent(r) /\ Silent(r)'
  BY NextSilent DEF Next, RefineInv
<1>2. at'[r] = "executed" => reply'[r] = "result"
  BY DEF RefineInv, Inv, TypeOK, RequestStep, Deny, Route, Find, Insert, Commit,
         Refind, Execute, TransactionFails, Answer, Goto
<1>. QED  BY <1>1, <1>2 DEF Silent, given, Given, Admitted

\* What a request does by itself is a step of the atomic gate, or none.
LEMMA RequestStepRefines ==
    ASSUME RefineInv, NEW r \in Requests, RequestStep(r)
    PROVE  [Atomic!Next]_(Atomic!vars)
<1> USE DEF given
<1>1. given' = [given EXCEPT ![r] = Given(r)']
  BY GivenMoves
<1>2. ASSUME Given(r)' = given[r], UNCHANGED row
      PROVE  UNCHANGED Atomic!vars
  BY <1>1, <1>2 DEF Atomic!vars
<1>3. ASSUME Atomic!Admit(r) \/ Atomic!Tell(r) \/ Atomic!Refuse(r)
      PROVE  Atomic!Next
  BY <1>3 DEF Atomic!Next
<1>4. at \in [Requests -> Places] /\ reply \in [Requests -> Replies]
  BY DEF RefineInv, Inv, TypeOK
<1>5. ASSUME at'[r] \in {"find", "insert", "commit", "refind"},
             at[r] \in {"arrived", "find", "insert"}
      PROVE  Given(r)' = given[r]
  <2>1. Given(r)' = "nothing"
    BY <1>5, NextSilent DEF Next, RefineInv, Silent, Given, Admitted
  <2>. QED  BY <1>5, <2>1, GivenNothing
<1>6. CASE Deny(r)
  <2>1. at[r] = "arrived" /\ row' = row /\ Given(r)' = "denied"
    BY <1>4, <1>6 DEF Deny, Answer, Goto, Given, Admitted
  <2>. QED  BY <1>1, <1>3, <2>1, GivenNothing DEF Atomic!Refuse, Atomic!Give
<1>7. CASE Route(r)
  <2>1. at[r] = "arrived" /\ row' = row
    BY <1>7 DEF Route
  <2>2. CASE KeyOf[r] = NoKey
    <3>1. Given(r)' = "execution"
      BY <1>4, <1>7, <2>2, GivenByPlace DEF Route, Goto
    <3>. QED  BY <1>1, <1>3, <2>1, <2>2, <3>1, GivenNothing
              DEF Atomic!Admit, Atomic!Give
  <2>3. CASE KeyOf[r] # NoKey
    <3>1. at'[r] = "find"
      BY <1>4, <1>7, <2>3 DEF Route, Goto
    <3>. QED  BY <1>2, <1>5, <2>1, <3>1
  <2>. QED  BY <2>2, <2>3
<1>8. CASE Find(r) \/ Refind(r)
  <2>1. at[r] \in {"find", "refind"} /\ row' = row /\ KeyOf[r] \in Keys
    BY <1>8 DEF Find, Refind, RefineInv, Inv, Keyed
  <2>2. row[KeyOf[r]] \in RowStates /\ KeyOf[r] # NoKey
    BY <2>1, GateConstants DEF RefineInv, Inv, TypeOK
  <2>3. CASE row[KeyOf[r]] = "absent"
    <3>1. at[r] = "find" /\ at'[r] = "insert"
      BY <1>4, <1>8, <2>1, <2>3 DEF Find, Refind, Goto, RefineInv, Inv, Backed
    <3>. QED  BY <1>2, <1>5, <2>1, <3>1
  <2>4. CASE row[KeyOf[r]] # "absent"
    <3>1. Given(r)' = row[KeyOf[r]]
      BY <1>8, <2>1, <2>2, <2>4, GivenStatus DEF Find, Refind
    <3>. QED  BY <1>1, <1>3, <2>1, <2>2, <2>4, <3>1, GivenNothing
              DEF Atomic!Tell, Atomic!Give
  <2>. QED  BY <2>3, <2>4
<1>9. CASE Insert(r)
  <2>1. row' = row /\ at[r] = "insert" /\ at'[r] \in {"commit", "refind"}
    BY <1>4, <1>9 DEF Insert, Goto
  <2>. QED  BY <1>2, <1>5, <2>1
<1>10. CASE Commit(r)
  <2>1. at[r] = "commit" /\ KeyOf[r] # NoKey /\ row[KeyOf[r]] = "absent"
    BY <1>10, GateConstants DEF Commit, RefineInv, Inv, Keyed, Holder
  <2>2. Given(r)' = "execution" /\ row' = [row EXCEPT ![KeyOf[r]] = "running"]
    BY <1>4, <1>10, GivenByPlace DEF Commit, Goto
  <2>. QED  BY <1>1, <1>3, <2>1, <2>2, GivenNothing
            DEF Atomic!Admit, Atomic!Give, Atomic!Create
<1>11. CASE Execute(r)
  <2>1. Given(r)' = "execution" /\ given[r] = "execution" /\ row' = row
    BY <1>4, <1>11, GivenByPlace DEF Execute, Goto
  <2>. QED  BY <1>2, <2>1
<1>. QED  BY <1>6, <1>7, <1>8, <1>9, <1>10, <1>11 DEF RequestStep

\* A transaction that fails raises at the atomic gate, whether its row stays or not.
LEMMA TransactionFailsRefines ==
    ASSUME RefineInv, NEW r \in Requests, TransactionFails(r)
    PROVE  Atomic!Next
<1> USE DEF given
<1>1. given' = [given EXCEPT ![r] = Given(r)'] /\ given[r] = "nothing"
  BY GivenMoves, GivenNothing DEF TransactionFails
<1>2. Given(r)' = "exception"
  BY GivenByPlace DEF RefineInv, Inv, TypeOK, TransactionFails, Goto
<1>3. \/ row' = row
      \/ /\ row' = [row EXCEPT ![KeyOf[r]] = "running"]
         /\ KeyOf[r] # NoKey /\ row[KeyOf[r]] = "absent"
  BY GateConstants DEF TransactionFails, RefineInv, Inv, Keyed, Holder
<1>4. Atomic!Raise(r)
  BY <1>1, <1>2, <1>3 DEF Atomic!Raise, Atomic!Give, Atomic!Create
<1>. QED  BY <1>4 DEF Atomic!Next

\* The SELECT, the INSERT, the wait for another inserter, the rollback and the
\* second SELECT of acquire_or_create look to every request like one atomic
\* decision, however many requests race and whichever transactions fail.
THEOREM GateIsAtomic == Spec => ImplementsAtomicGate
<1>1. Init => RefineInv /\ Atomic!Init
  <2> SUFFICES ASSUME Init PROVE (\A r \in Requests : Silent(r)) /\ Atomic!Init
    BY InitInv DEF RefineInv
  <2>1. \A r \in Requests : Silent(r) /\ Given(r) = "nothing"
    BY DEF Init, Silent, Given, Admitted
  <2>. QED  BY <2>1 DEF Init, Atomic!Init
<1>2. RefineInv /\ [Next]_vars => RefineInv'
  BY NextSilent
<1>3. RefineInv /\ [Next]_vars => [Atomic!Next]_(Atomic!vars)
  <2> SUFFICES ASSUME RefineInv, [Next]_vars PROVE [Atomic!Next]_(Atomic!vars)
    OBVIOUS
  <2>1. ASSUME NEW k \in Keys, NEW w \in Settlers, Settle(k, w)
        PROVE  [Atomic!Next]_(Atomic!vars)
    <3>1. \A r \in Requests : Given(r)' = Given(r)
      BY <2>1 DEF Settle, SettleRead, ReadToSettle, SettleWrite, SettleFails, SettleEnds,
                  gateVars, Given, Admitted
    <3>2. CASE SettleWrite(k, w)
      <4>1. /\ row[k] # "absent" /\ settling[k][w] \in {"completed", "failed"}
            /\ row' = [row EXCEPT ![k] = settling[k][w]]
        BY <3>2 DEF SettleWrite, SettleEnds, RefineInv, Inv, Settling, TypeOK, Verdicts
      <4>2. Atomic!Settle(k)
        BY <3>1, <4>1 DEF Atomic!Settle
      <4>. QED  BY <4>2 DEF Atomic!Next
    <3>3. CASE SettleRead(k, w) \/ SettleFails(k, w)
      BY <3>1, <3>3 DEF SettleRead, ReadToSettle, SettleFails, Atomic!vars
    <3>. QED  BY <2>1, <3>2, <3>3 DEF Settle
  <2>2. ASSUME UNCHANGED vars PROVE UNCHANGED Atomic!vars
    BY <2>2 DEF vars, gateVars, Atomic!vars, Given, Admitted
  <2>. QED
    BY <2>1, <2>2, RequestStepRefines, TransactionFailsRefines DEF Next
<1>. QED  BY <1>1, <1>2, <1>3, PTL DEF Spec, ImplementsAtomicGate, Atomic!Spec
=============================================================================
