----------------------- MODULE PromptRepositoryProofs -----------------------
(***************************************************************************)
(* What the turns that share one git directory may rely on, for any number *)
(* of turns and of versions.                                               *)
(*                                                                         *)
(* The invariant is about the directory, and about each turn beside it.    *)
(* Locked: one reset writes at a time, and a clone at work holds nothing   *)
(* older than it began with.  Placed says where a turn can be while the    *)
(* directory is absent or being cloned, and which command it can have      *)
(* under way; Fresh, how far the directory has come for a turn that was    *)
(* not disturbed, the resets that still write to it included; Warned, that *)
(* such a reset is among the reasons of every turn it may hide the file    *)
(* from.                                                                   *)
(***************************************************************************)
EXTENDS PromptRepository, TLAPS

\* The places behind a git command that passed.
Beyond == {"checkout", "reset", "read"}

\* What came in the way of the stage a turn is in, and what it may ask for.
Here(r) == reasons[r][stage[r]]
Due(r) == floor[r][stage[r]]

Locked ==
    /\ \A p, q \in Requests : git[p] = "writing" /\ git[q] = "writing" => p = q
    /\ dir = "absent" => work = 0
    /\ dir = "cloning" =>
           /\ work = 0 /\ 0 < tracking
           /\ \A q \in Requests : git[q] # "none" => tracking <= hand[q]

Placed(r) ==
    /\ dir = "absent" => build[r] \in {"absent", "choose", "left"} /\ git[r] = "none"
    /\ build[r] = "clone" => dir = "cloning"
    /\ git[r] = "fetching" => build[r] \in {"fetch", "left"}
    /\ git[r] \in {"resolved", "writing"} => build[r] \in {"reset", "left"}
    /\ /\ dir = "cloning"
       /\ build[r] \in Beyond \/ (build[r] = "fetch" /\ git[r] # "none")
       => "unfinished" \in Here(r)

\* A prompt that is not built yet has no source.
Unbuilt(r) ==
    /\ build[r] \in {"absent"} \cup Building => source[r][stage[r]] = "none"
    /\ stage[r] = "intent" => source[r]["reply"] = "none"

Disturbed(r) == "unfinished" \in Here(r) \/ "overtaken" \in Here(r)

Fresh(r) ==
    \/ Disturbed(r)
    \/ /\ build[r] = "clone" => Due(r) <= tracking
       /\ dir = "clone" =>
              /\ build[r] = "fetch" /\ git[r] = "fetching" => Due(r) <= hand[r]
              /\ build[r] \in {"checkout", "reset"} /\ git[r] = "none" => Due(r) <= tracking
              /\ build[r] = "reset" /\ git[r] # "none" => Due(r) <= hand[r]
              /\ build[r] = "read" => Due(r) <= work
              /\ build[r] = "read" =>
                     \A q \in Requests : git[q] = "writing" => Due(r) <= hand[q]

Warned(r) ==
    /\ build[r] \in {"clone", "read"} /\ dir \in {"cloning", "clone"}
    /\ \E q \in Requests : git[q] = "writing" /\ hand[q] # work
    => "rewritten" \in Here(r) \/ "unfinished" \in Here(r)

\* The properties, of one turn.
Served(r) ==
    \A s \in Stages :
        source[r][s] = "remote" =>
            \/ version[r][s] >= floor[r][s]
            \/ "unfinished" \in reasons[r][s] \/ "overtaken" \in reasons[r][s]
Reasoned(r) ==
    \A s \in Stages :
        source[r][s] = "local" =>
            \/ "failed" \in reasons[r][s] \/ "unfinished" \in reasons[r][s]
            \/ "rewritten" \in reasons[r][s] \/ dir = "empty"

TurnInv(r) ==
    Placed(r) /\ Unbuilt(r) /\ Fresh(r) /\ Warned(r) /\ Served(r) /\ Reasoned(r)

OneClone == \A r, q \in Requests : build[r] = "clone" /\ build[q] = "clone" => r = q

Inv ==
    TypeOK /\ Locked /\ (\A r \in Requests : TurnInv(r)) /\ OneClone /\ OwnTreeUntouched

-----------------------------------------------------------------------------
(***************************************************************************)
(* What the operators of a turn change.                                    *)
(***************************************************************************)

\* What came in the way of a stage stays so.
Grows == \A q \in Requests, s \in Stages : reasons[q][s] \subseteq reasons'[q][s]

\* An operation of one turn leaves what belongs to the others alone.
Others(r) ==
    \A q \in Requests \ {r} :
        /\ build'[q] = build[q] /\ stage'[q] = stage[q]
        /\ source'[q] = source[q] /\ version'[q] = version[q]
        /\ floor'[q] = floor[q]
        /\ git'[q] = git[q] /\ hand'[q] = hand[q]

\* The types, with bounds that are numbers.
LEMMA Typed ==
    ASSUME TypeOK
    PROVE  /\ remote \in Nat /\ tracking \in Nat /\ work \in Nat /\ 0 < remote
           /\ tracking <= remote /\ work <= remote
           /\ \A q \in Requests :
                  /\ hand[q] \in Nat /\ hand[q] <= remote /\ git[q] \in Commands
                  /\ build[q] \in BuildPlaces /\ stage[q] \in Stages
                  /\ \A s \in Stages :
                         /\ floor[q][s] \in Nat /\ floor[q][s] <= remote
                         /\ version[q][s] \in Nat
BY PromptConstants DEF TypeOK

\* A turn ends a stage with a prompt from somewhere.
LEMMA StageEnds ==
    ASSUME TypeOK, NEW r \in Requests, NEW from \in {"none", "local", "remote"},
           NEW v \in Nat, EndStage(r, from, v)
    PROVE  /\ source'[r][stage[r]] = from /\ version'[r][stage[r]] = v
           /\ \A s \in Stages \ {stage[r]} :
                  source'[r][s] = source[r][s] /\ version'[r][s] = version[r][s]
           /\ stage' = [stage EXCEPT ![r] = "reply"]
           /\ \/ stage[r] = "intent" /\ build' = [build EXCEPT ![r] = "choose"]
              \/ stage[r] = "reply" /\ build' = [build EXCEPT ![r] = "ready"]
           /\ \A q \in Requests \ {r} :
                  source'[q] = source[q] /\ version'[q] = version[q]
           /\ source' \in [Requests -> [Stages -> {"none", "local", "remote"}]]
           /\ v <= remote => version' \in [Requests -> [Stages -> 0 .. remote]]
           /\ stage' \in [Requests -> Stages] /\ build' \in [Requests -> BuildPlaces]
<1>1. /\ source \in [Requests -> [Stages -> {"none", "local", "remote"}]]
      /\ version \in [Requests -> [Stages -> 0 .. remote]]
      /\ stage \in [Requests -> Stages] /\ build \in [Requests -> BuildPlaces]
      /\ remote \in Nat
  BY PromptConstants DEF TypeOK
<1>2. /\ source' = [source EXCEPT ![r][stage[r]] = from]
      /\ version' = [version EXCEPT ![r][stage[r]] = v]
      /\ stage' = [stage EXCEPT ![r] = "reply"]
      /\ build' = [build EXCEPT ![r] = IF stage[r] = "intent" THEN "choose" ELSE "ready"]
  BY DEF EndStage, BuildGoto
<1>. USE DEF Stages, BuildPlaces, Building
<1>3. source'[r] = [source[r] EXCEPT ![stage[r]] = from]
  BY <1>1, <1>2
<1>4. version'[r] = [version[r] EXCEPT ![stage[r]] = v]
  BY <1>1, <1>2
<1>5. source' \in [Requests -> [Stages -> {"none", "local", "remote"}]]
  BY <1>1, <1>2
<1>6. v <= remote => version' \in [Requests -> [Stages -> 0 .. remote]]
  BY <1>1, <1>2
<1>7. /\ source'[r][stage[r]] = from /\ version'[r][stage[r]] = v
      /\ \A s \in Stages \ {stage[r]} :
             source'[r][s] = source[r][s] /\ version'[r][s] = version[r][s]
  BY <1>1, <1>3, <1>4
<1>8. \/ stage[r] = "intent" /\ build' = [build EXCEPT ![r] = "choose"]
      \/ stage[r] = "reply" /\ build' = [build EXCEPT ![r] = "ready"]
  BY <1>1, <1>2
<1>9. /\ \A q \in Requests \ {r} : source'[q] = source[q] /\ version'[q] = version[q]
      /\ stage' \in [Requests -> Stages] /\ build' \in [Requests -> BuildPlaces]
  BY <1>1, <1>2
<1>. QED  BY <1>2, <1>5, <1>6, <1>7, <1>8, <1>9

\* A reason is noted for this stage of this turn, beside those there are.
LEMMA Noted ==
    ASSUME TypeOK, NEW r \in Requests, NEW reason \in Reasons, Note(r, reason)
    PROVE  /\ reason \in reasons'[r][stage[r]]
           /\ reasons' \in [Requests -> [Stages -> SUBSET Reasons]]
           /\ Grows
<1>1. /\ reasons \in [Requests -> [Stages -> SUBSET Reasons]]
      /\ stage[r] \in Stages
  BY DEF TypeOK
<1>2. reasons' = [reasons EXCEPT ![r] = [reasons[r] EXCEPT ![stage[r]] = @ \cup {reason}]]
  BY DEF Note
<1>3. reasons'[r] = [reasons[r] EXCEPT ![stage[r]] = @ \cup {reason}]
  BY <1>1, <1>2
<1>4. /\ reasons'[r][stage[r]] = reasons[r][stage[r]] \cup {reason}
      /\ \A s \in Stages \ {stage[r]} : reasons'[r][s] = reasons[r][s]
      /\ \A q \in Requests \ {r} : reasons'[q] = reasons[q]
  BY <1>1, <1>2, <1>3
<1>5. [reasons[r] EXCEPT ![stage[r]] = @ \cup {reason}] \in [Stages -> SUBSET Reasons]
  <2>1. /\ reasons[r] \in [Stages -> SUBSET Reasons]
        /\ reasons[r][stage[r]] \cup {reason} \in SUBSET Reasons
    BY <1>1
  <2>. QED  BY <1>1, <2>1
<1>6. reasons' \in [Requests -> [Stages -> SUBSET Reasons]]
  BY <1>1, <1>2, <1>5
<1>7. Grows
  <2>1. ASSUME NEW q \in Requests, NEW s \in Stages
        PROVE  reasons[q][s] \subseteq reasons'[q][s]
    BY <1>4
  <2>. QED  BY <2>1 DEF Grows
<1>. QED  BY <1>4, <1>6, <1>7

\* A command that puts a version in place is noted for whom it concerns.
LEMMA OvertakenNoted ==
    ASSUME TypeOK, NEW r \in Requests, NEW current \in Nat, NEW more \in SUBSET Reasons,
           NoteOvertaken(r, current, more)
    PROVE  /\ \A q \in Requests : build[q] \in Building =>
                  /\ hand[r] < current /\ hand[r] < Due(q) =>
                         "overtaken" \in reasons'[q][stage[q]]
                  /\ q # r => more \subseteq reasons'[q][stage[q]]
           /\ reasons' \in [Requests -> [Stages -> SUBSET Reasons]]
           /\ Grows
<1>. DEFINE add(q, s) == (IF hand[r] < current /\ hand[r] < floor[q][s]
                          THEN {"overtaken"} ELSE {}) \cup
                         (IF q # r THEN more ELSE {})
            new(q, s) == IF build[q] \in Building /\ stage[q] = s
                         THEN reasons[q][s] \cup add(q, s)
                         ELSE reasons[q][s]
<1>1. /\ reasons \in [Requests -> [Stages -> SUBSET Reasons]]
      /\ \A q \in Requests : stage[q] \in Stages
  BY DEF TypeOK
<1>2. reasons' = [q \in Requests |-> [s \in Stages |-> new(q, s)]]
  <2>1. reasons' = [q \in Requests |-> [s \in Stages |->
            IF build[q] \in Building /\ stage[q] = s
            THEN reasons[q][s] \cup
                     (IF hand[r] < current /\ hand[r] < floor[q][s]
                      THEN {"overtaken"} ELSE {}) \cup
                     (IF q # r THEN more ELSE {})
            ELSE reasons[q][s]]]
    BY DEF NoteOvertaken
  <2>2. \A q \in Requests, s \in Stages :
            new(q, s) = IF build[q] \in Building /\ stage[q] = s
                        THEN reasons[q][s] \cup
                                 (IF hand[r] < current /\ hand[r] < floor[q][s]
                                  THEN {"overtaken"} ELSE {}) \cup
                                 (IF q # r THEN more ELSE {})
                        ELSE reasons[q][s]
    BY Zenon
  <2>. QED  BY <2>1, <2>2, Zenon
<1>3. \A q \in Requests, s \in Stages :
          new(q, s) \in SUBSET Reasons /\ reasons[q][s] \subseteq new(q, s)
  <2>1. \A q \in Requests, s \in Stages : add(q, s) \in SUBSET Reasons
    BY DEF Reasons
  <2>2. \A q \in Requests, s \in Stages : reasons[q][s] \in SUBSET Reasons
    BY <1>1
  <2>. HIDE DEF add
  <2>. QED  BY <2>1, <2>2
<1>4. \A q \in Requests : build[q] \in Building =>
          new(q, stage[q]) = reasons[q][stage[q]] \cup add(q, stage[q])
  OBVIOUS
<1>5. \A q \in Requests :
          /\ hand[r] < current /\ hand[r] < Due(q) => "overtaken" \in add(q, stage[q])
          /\ q # r => more \subseteq add(q, stage[q])
  BY DEF Due
<1>. HIDE DEF add, new
<1>6. \A q \in Requests, s \in Stages : reasons'[q][s] = new(q, s)
  BY <1>2
<1>7. reasons' \in [Requests -> [Stages -> SUBSET Reasons]]
  BY <1>2, <1>3
<1>8. \A q \in Requests : build[q] \in Building =>
          reasons'[q][stage[q]] = reasons[q][stage[q]] \cup add(q, stage[q])
  BY <1>1, <1>4, <1>6
<1>9. Grows
  BY <1>3, <1>6 DEF Grows
<1>10. ASSUME NEW q \in Requests, build[q] \in Building
       PROVE  /\ hand[r] < current /\ hand[r] < Due(q) =>
                     "overtaken" \in reasons'[q][stage[q]]
              /\ q # r => more \subseteq reasons'[q][stage[q]]
  <2>1. add(q, stage[q]) \subseteq reasons'[q][stage[q]]
    BY <1>8, <1>10
  <2>. QED  BY <1>5, <2>1
<1>. QED  BY <1>7, <1>9, <1>10

-----------------------------------------------------------------------------
(***************************************************************************)
(* Types, reasons and the directory.                                       *)
(***************************************************************************)

\* Reasons stay, and are of the four kinds.
Grown == Grows /\ reasons' \in [Requests -> [Stages -> SUBSET Reasons]]

\* Every step keeps the reasons there are, and their type.
LEMMA ReasonsKept ==
    ASSUME TypeOK, [Next]_vars
    PROVE  Grown
<1>1. ASSUME reasons' = reasons PROVE Grown
  BY <1>1 DEF Grown, Grows, TypeOK
<1>2. ASSUME NEW r \in Requests, NEW reason \in Reasons, Note(r, reason) PROVE Grown
  BY <1>2, Noted DEF Grown
<1>3. ASSUME NEW r \in Requests, NoteClone(r) PROVE Grown
  BY <1>1, <1>2, <1>3 DEF NoteClone, Reasons
<1>4. ASSUME NEW r \in Requests, NEW current \in Nat, NEW more \in SUBSET Reasons,
             NoteOvertaken(r, current, more)
      PROVE  Grown
  BY <1>4, OvertakenNoted DEF Grown
<1>5. /\ {} \in SUBSET Reasons /\ {"rewritten"} \in SUBSET Reasons
      /\ "failed" \in Reasons
      /\ tracking \in Nat /\ work \in Nat
  BY Typed DEF Reasons
<1>6. ASSUME NEW r \in Requests, Fetch(r) PROVE Grown
  BY <1>1, <1>3, <1>4, <1>5, <1>6
  DEF Fetch, FetchStart, FetchOutside, FetchEnd, GitInside, GitOutside
<1>7. ASSUME NEW r \in Requests, Reset(r) PROVE Grown
  BY <1>1, <1>3, <1>4, <1>5, <1>7
  DEF Reset, ResetStart, ResetOutside, ResetWrites, ResetEnd, GitInside, GitOutside
<1>8. ASSUME NEW r \in Requests, Checkout(r) PROVE Grown
  BY <1>1, <1>3, <1>8 DEF Checkout, GitOutside
<1>9. ASSUME NEW r \in Requests,
             \/ StartTurn(r) \/ Choose(r) \/ Read(r)
             \/ ReadRaises(r) \/ GitFails(r) \/ LeaveTurn(r)
      PROVE  Grown
  BY <1>1, <1>2, <1>5, <1>9
  DEF StartTurn, Choose, Read, ReadRaises, GitFails, LeaveTurn
<1>10. CASE CloneDone \/ CloneFails \/ Push \/ UNCHANGED vars
  BY <1>1, <1>2, <1>5, <1>10 DEF CloneDone, CloneFails, Push, vars
<1>. QED  BY <1>6, <1>7, <1>8, <1>9, <1>10 DEF Next, BuildStep

\* Every step keeps the types.
LEMMA NextType == Inv /\ [Next]_vars => TypeOK'
<1>. SUFFICES ASSUME Inv, [Next]_vars PROVE TypeOK'
  OBVIOUS
<1>. USE DEF repoVars, gitVars, turnVars, BuildGoto
<1>1. /\ TypeOK /\ remote \in Nat /\ tracking \in Nat /\ work \in Nat
      /\ 0 < remote /\ tracking <= remote /\ work <= remote
  BY Typed DEF Inv
<1>2. reasons' \in [Requests -> [Stages -> SUBSET Reasons]]
  BY <1>1, ReasonsKept DEF Grown
<1>3. ASSUME NEW r \in Requests, NEW from \in {"local", "remote"},
             NEW v \in 0 .. remote, EndStage(r, from, v)
      PROVE  /\ build' \in [Requests -> BuildPlaces]
             /\ stage' \in [Requests -> Stages]
             /\ source' \in [Requests -> [Stages -> {"none", "local", "remote"}]]
             /\ version' \in [Requests -> [Stages -> 0 .. remote]]
  BY <1>1, <1>3, StageEnds
<1>4. ASSUME NEW r \in Requests, FallBack(r)
      PROVE  /\ build' \in [Requests -> BuildPlaces]
             /\ stage' \in [Requests -> Stages]
             /\ source' \in [Requests -> [Stages -> {"none", "local", "remote"}]]
             /\ version' \in [Requests -> [Stages -> 0 .. remote]]
  BY <1>1, <1>3, <1>4 DEF FallBack
<1>5. ASSUME NEW r \in Requests, NEW place \in BuildPlaces,
             build' = [build EXCEPT ![r] = place]
      PROVE  build' \in [Requests -> BuildPlaces]
  BY <1>1, <1>5 DEF TypeOK
<1>6. /\ {"choose", "clone", "fetch", "checkout", "reset", "read", "raised", "left"}
             \subseteq BuildPlaces
      /\ AfterFetch \in BuildPlaces
  BY DEF BuildPlaces, Building, GitPlaces, AfterFetch
<1>7. ASSUME NEW r \in Requests, NEW command \in Commands,
             git' = [git EXCEPT ![r] = command]
      PROVE  git' \in [Requests -> Commands]
  BY <1>1, <1>7 DEF TypeOK
<1>8. "none" \in Commands /\ "fetching" \in Commands /\ "resolved" \in Commands
      /\ "writing" \in Commands
  BY DEF Commands
<1>9. ASSUME NEW r \in Requests, NEW place, NEW command \in Commands, NEW v \in 0 .. remote,
             GitInside(r, place, command, v)
      PROVE  TypeOK'
  <2>1. hand' \in [Requests -> 0 .. remote]
    BY <1>1, <1>9 DEF GitInside, TypeOK
  <2>2. git' \in [Requests -> Commands]
    BY <1>7, <1>9 DEF GitInside
  <2>. QED  BY <1>1, <1>2, <1>9, <2>1, <2>2 DEF GitInside, TypeOK
<1>10. ASSUME NEW r \in Requests, NEW next \in BuildPlaces, NEW effects,
              effects \subseteq {outer, "overwritten"}, GitOutside(r, next, effects)
       PROVE  TypeOK'
  <2>1. outer' \in {"own", "overwritten"}
    BY <1>1, <1>10 DEF GitOutside, TypeOK
  <2>2. /\ build' \in [Requests -> BuildPlaces]
        /\ stage' \in [Requests -> Stages]
        /\ source' \in [Requests -> [Stages -> {"none", "local", "remote"}]]
        /\ version' \in [Requests -> [Stages -> 0 .. remote]]
    BY <1>1, <1>4, <1>5, <1>10 DEF GitOutside, TypeOK
  <2>. QED  BY <1>1, <1>2, <1>10, <2>1, <2>2 DEF GitOutside, TypeOK
<1>11. ASSUME NEW r \in Requests, NEW place, NEW next \in BuildPlaces,
              GitEnds(r, place, next),
              UNCHANGED <<remote, dir, outer, floor>>,
              tracking' \in {tracking, hand[r]}, work' \in {work, hand[r]}
       PROVE  TypeOK'
  <2>1. hand[r] \in 0 .. remote
    BY <1>1 DEF TypeOK
  <2>2. build' \in [Requests -> BuildPlaces]
    BY <1>1, <1>5, <1>11 DEF GitEnds, TypeOK
  <2>3. git' \in [Requests -> Commands]
    BY <1>7, <1>8, <1>11 DEF GitEnds
  <2>. QED  BY <1>1, <1>2, <1>11, <2>1, <2>2, <2>3 DEF GitEnds, TypeOK
<1>12. ASSUME NEW r \in Requests, Fetch(r) PROVE TypeOK'
  <2>1. CASE FetchStart(r)
    BY <1>1, <1>8, <1>9, <2>1 DEF FetchStart
  <2>2. CASE FetchOutside(r)
    BY <1>6, <1>10, <2>2 DEF FetchOutside
  <2>3. CASE FetchEnd(r)
    <3>1. tracking' \in {tracking, hand[r]} /\ work' = work
      BY <2>3 DEF FetchEnd
    <3>. QED  BY <1>6, <1>11, <2>3, <3>1 DEF FetchEnd
  <2>. QED  BY <1>12, <2>1, <2>2, <2>3 DEF Fetch
<1>13. ASSUME NEW r \in Requests, Reset(r) PROVE TypeOK'
  <2>1. CASE ResetStart(r)
    BY <1>1, <1>8, <1>9, <2>1 DEF ResetStart
  <2>2. CASE ResetOutside(r)
    BY <1>6, <1>10, <2>2 DEF ResetOutside
  <2>3. CASE ResetWrites(r)
    <3>1. git' \in [Requests -> Commands]
      BY <1>7, <1>8, <2>3 DEF ResetWrites
    <3>. QED  BY <1>1, <1>2, <2>3, <3>1 DEF ResetWrites, TypeOK
  <2>4. CASE ResetEnd(r)
    <3>1. work' \in {work, hand[r]} /\ tracking' = tracking
      BY <2>4 DEF ResetEnd
    <3>. QED  BY <1>6, <1>11, <2>4, <3>1 DEF ResetEnd
  <2>. QED  BY <1>13, <2>1, <2>2, <2>3, <2>4 DEF Reset
<1>14. ASSUME NEW r \in Requests, Checkout(r) PROVE TypeOK'
  <2>1. CASE GitOutside(r, "reset", {outer, "overwritten"})
    BY <1>6, <1>10, <2>1
  <2>2. CASE UNCHANGED <<remote, repoVars, gitVars, stage, source, version, floor>>
             /\ BuildGoto(r, "reset")
    <3>1. build' \in [Requests -> BuildPlaces]
      BY <1>5, <1>6, <2>2
    <3>. QED  BY <1>1, <1>2, <2>2, <3>1 DEF TypeOK
  <2>. QED  BY <1>14, <2>1, <2>2 DEF Checkout
<1>15. ASSUME NEW r \in Requests, Choose(r) PROVE TypeOK'
  <2>1. build' \in [Requests -> BuildPlaces]
    BY <1>5, <1>6, <1>15 DEF Choose
  <2>2. /\ floor \in [Requests -> [Stages -> 0 .. remote]]
        /\ floor' = [floor EXCEPT ![r] = [floor[r] EXCEPT ![stage[r]] = remote]]
    BY <1>1, <1>15 DEF Choose, TypeOK
  <2>3. [floor[r] EXCEPT ![stage[r]] = remote] \in [Stages -> 0 .. remote]
    BY <1>1, <2>2 DEF TypeOK
  <2>4. floor' \in [Requests -> [Stages -> 0 .. remote]]
    BY <2>2, <2>3
  <2>5. tracking' \in 0 .. remote /\ dir' \in Dirs
    BY <1>1, <1>15 DEF Choose, TypeOK, Dirs
  <2>. QED  BY <1>1, <1>2, <1>15, <2>1, <2>4, <2>5 DEF Choose, TypeOK
<1>16. ASSUME NEW r \in Requests, Read(r) PROVE TypeOK'
  <2>1. /\ build' \in [Requests -> BuildPlaces]
        /\ stage' \in [Requests -> Stages]
        /\ source' \in [Requests -> [Stages -> {"none", "local", "remote"}]]
        /\ version' \in [Requests -> [Stages -> 0 .. remote]]
    <3>1. work \in 0 .. remote /\ \A q \in Requests : hand[q] \in 0 .. remote
      BY <1>1 DEF TypeOK
    <3>2. \A v \in tracking .. remote : v \in 0 .. remote
      BY <1>1
    <3>. QED  BY <1>3, <1>4, <1>16, <3>1, <3>2 DEF Read
  <2>. QED  BY <1>1, <1>2, <1>16, <2>1 DEF Read, TypeOK
<1>17. ASSUME NEW r \in Requests, StartTurn(r) \/ ReadRaises(r) \/ LeaveTurn(r)
       PROVE  TypeOK'
  <2>1. build' \in [Requests -> BuildPlaces]
    BY <1>5, <1>6, <1>17 DEF StartTurn, ReadRaises, LeaveTurn
  <2>. QED  BY <1>1, <1>2, <1>17, <2>1 DEF StartTurn, ReadRaises, LeaveTurn, TypeOK
<1>18. ASSUME NEW r \in Requests, GitFails(r) PROVE TypeOK'
  <2>1. git' \in [Requests -> Commands]
    BY <1>7, <1>8, <1>18 DEF GitFails
  <2>. QED  BY <1>1, <1>2, <1>4, <1>18, <2>1 DEF GitFails, TypeOK
<1>19. CASE CloneDone
  <2>1. tracking' \in 0 .. remote /\ work' \in 0 .. remote /\ dir' \in Dirs
    BY <1>1, <1>19 DEF CloneDone, Dirs
  <2>2. build' \in [Requests -> BuildPlaces]
    BY <1>1, <1>6, <1>19 DEF CloneDone, TypeOK
  <2>. QED  BY <1>1, <1>2, <1>19, <2>1, <2>2 DEF CloneDone, TypeOK
<1>20. CASE CloneFails
  <2>1. /\ build' \in [Requests -> BuildPlaces]
        /\ stage' \in [Requests -> Stages]
        /\ source' \in [Requests -> [Stages -> {"none", "local", "remote"}]]
        /\ version' \in [Requests -> [Stages -> 0 .. remote]]
    BY <1>1, <1>4, <1>20 DEF CloneFails, TypeOK
  <2>. QED  BY <1>1, <1>2, <1>20, <2>1 DEF CloneFails, TypeOK, Dirs
<1>21. CASE Push
  <2>1. /\ remote' \in 1 .. MaxVersion /\ remote <= remote'
        /\ UNCHANGED <<repoVars, gitVars, turnVars, floor>>
    BY <1>1, <1>21, PromptConstants DEF Push, TypeOK
  <2>2. 0 .. remote \subseteq 0 .. remote'
    BY <1>1, <2>1, PromptConstants
  <2>3. [Stages -> 0 .. remote] \subseteq [Stages -> 0 .. remote']
    BY <2>2
  <2>. QED  BY <1>1, <1>2, <2>1, <2>2, <2>3 DEF TypeOK
<1>22. CASE UNCHANGED vars
  BY <1>1, <1>22 DEF vars, TypeOK
<1>. QED
  BY <1>12, <1>13, <1>14, <1>15, <1>16, <1>17, <1>18, <1>19, <1>20, <1>21, <1>22
  DEF Next, BuildStep

\* One reset writes at a time, and nothing older than a clone at work is in hand.
LEMMA NextLocked == Inv /\ [Next]_vars => Locked'
<1>. SUFFICES ASSUME Inv, [Next]_vars PROVE Locked'
  OBVIOUS
<1>. USE DEF repoVars, gitVars
<1>1. /\ TypeOK /\ Locked /\ \A q \in Requests : Placed(q)
  BY DEF Inv, TurnInv
<1>2. /\ remote \in Nat /\ tracking \in Nat /\ work \in Nat /\ 0 < remote
      /\ tracking <= remote
      /\ \A q \in Requests : hand[q] \in Nat
      /\ git \in [Requests -> Commands] /\ hand \in [Requests -> 0 .. remote]
  BY <1>1, Typed DEF TypeOK
<1>3. ASSUME NEW r \in Requests, git' = [git EXCEPT ![r] = "none"], hand' = hand,
             dir' = dir, tracking' = tracking, dir # "clone" => work' = work
      PROVE  Locked'
  BY <1>1, <1>2, <1>3 DEF Locked
<1>4. ASSUME UNCHANGED <<repoVars, gitVars>> PROVE Locked'
  BY <1>1, <1>4 DEF Locked
<1>5. ASSUME NEW r \in Requests, NEW place, NEW command \in {"fetching", "resolved"},
             NEW v \in {remote, tracking}, GitInside(r, place, command, v)
      PROVE  Locked'
  <2>1. /\ git' = [git EXCEPT ![r] = command] /\ hand' = [hand EXCEPT ![r] = v]
        /\ UNCHANGED repoVars /\ dir # "absent" /\ tracking <= v
    BY <1>2, <1>5 DEF GitInside
  <2>. QED  BY <1>1, <1>2, <2>1 DEF Locked
<1>6. ASSUME NEW r \in Requests, NEW next, NEW effects, GitOutside(r, next, effects)
      PROVE  Locked'
  <2>1. UNCHANGED <<dir, tracking, work, git, hand>>
    BY <1>6 DEF GitOutside
  <2>. QED  BY <1>1, <2>1 DEF Locked
<1>7. ASSUME NEW r \in Requests, Fetch(r) PROVE Locked'
  <2>1. CASE FetchStart(r)
    BY <1>5, <2>1 DEF FetchStart
  <2>2. CASE FetchOutside(r)
    BY <1>6, <2>2 DEF FetchOutside
  <2>3. CASE FetchEnd(r)
    <3>1. /\ git' = [git EXCEPT ![r] = "none"] /\ hand' = hand
          /\ dir' = dir /\ work' = work
          /\ dir # "clone" => tracking' = tracking
      BY <2>3 DEF FetchEnd, GitEnds
    <3>. QED  BY <1>1, <1>2, <3>1 DEF Locked
  <2>. QED  BY <1>7, <2>1, <2>2, <2>3 DEF Fetch
<1>8. ASSUME NEW r \in Requests, Reset(r) PROVE Locked'
  <2>1. CASE ResetStart(r)
    BY <1>5, <2>1 DEF ResetStart
  <2>2. CASE ResetOutside(r)
    BY <1>6, <2>2 DEF ResetOutside
  <2>3. CASE ResetWrites(r)
    <3>1. /\ git[r] = "resolved" /\ git' = [git EXCEPT ![r] = "writing"]
          /\ \A q \in Requests : git[q] # "writing"
          /\ hand' = hand /\ UNCHANGED repoVars
      BY <2>3 DEF ResetWrites
    <3>. QED  BY <1>1, <1>2, <3>1 DEF Locked
  <2>4. CASE ResetEnd(r)
    BY <1>3, <2>4 DEF ResetEnd, GitEnds
  <2>. QED  BY <1>8, <2>1, <2>2, <2>3, <2>4 DEF Reset
<1>9. ASSUME NEW r \in Requests, Checkout(r) PROVE Locked'
  BY <1>4, <1>6, <1>9 DEF Checkout
<1>10. ASSUME NEW r \in Requests, Choose(r) PROVE Locked'
  BY <1>1, <1>2, <1>10 DEF Choose, Locked, Placed
<1>11. ASSUME NEW r \in Requests,
              StartTurn(r) \/ Read(r) \/ ReadRaises(r) \/ LeaveTurn(r)
       PROVE  Locked'
  BY <1>4, <1>11 DEF StartTurn, Read, ReadRaises, LeaveTurn
<1>12. ASSUME NEW r \in Requests, GitFails(r) PROVE Locked'
  BY <1>3, <1>12 DEF GitFails
<1>13. CASE CloneDone \/ CloneFails
  BY <1>1, <1>13 DEF CloneDone, CloneFails, Locked
<1>14. CASE Push \/ UNCHANGED vars
  BY <1>4, <1>14 DEF Push, vars
<1>. QED
  BY <1>7, <1>8, <1>9, <1>10, <1>11, <1>12, <1>13, <1>14 DEF Next, BuildStep

\* What is done to the outer checkout is done from a directory without a clone.
LEMMA NextOuter == Inv /\ [Next]_vars => OwnTreeUntouched'
<1>. SUFFICES ASSUME Inv, [Next]_vars PROVE OwnTreeUntouched'
  OBVIOUS
<1>. USE DEF repoVars, gitVars
<1>1. TypeOK /\ \A r \in Requests : Placed(r)
  BY DEF Inv, TurnInv
<1>2. \A r \in Requests, s \in Stages : reasons[r][s] \subseteq reasons'[r][s]
  BY <1>1, ReasonsKept DEF Grown, Grows
<1>3. dir = "empty" => dir' = "empty"
  BY DEF Next, BuildStep, StartTurn, Choose, Fetch, FetchStart, FetchOutside, FetchEnd,
         Checkout, Reset, ResetStart, ResetOutside, ResetWrites, ResetEnd, Read,
         ReadRaises, GitFails, LeaveTurn, CloneDone, CloneFails, Push, vars, GitInside,
         GitOutside
<1>4. ASSUME NEW r \in Requests, NEW next, NEW effects, GitOutside(r, next, effects),
             outer' # outer
      PROVE  /\ Enclosed
             /\ \/ dir' = "empty"
                \/ \E q \in Requests, s \in Stages : "unfinished" \in reasons'[q][s]
  <2>1. Enclosed /\ dir' = dir /\ dir # "clone" /\ build[r] \in GitPlaces /\ NoteClone(r)
    BY <1>4 DEF GitOutside
  <2>2. dir \in {"cloning", "empty"}
    BY <1>1, <2>1 DEF Placed, GitPlaces, TypeOK, Dirs
  <2>3. CASE dir = "cloning"
    <3>1. Note(r, "unfinished") /\ "unfinished" \in Reasons
      BY <2>1, <2>3 DEF NoteClone, Reasons
    <3>2. stage[r] \in Stages /\ "unfinished" \in reasons'[r][stage[r]]
      BY <1>1, <3>1, Noted, Typed
    <3>. QED  BY <2>1, <3>2
  <2>. QED  BY <2>1, <2>2, <2>3
<1>5. \/ outer' = outer
      \/ \E r \in Requests : \E next, effects : GitOutside(r, next, effects)
  <2>1. ASSUME NEW r \in Requests, Fetch(r)
        PROVE  outer' = outer \/ \E next, effects : GitOutside(r, next, effects)
    BY <2>1 DEF Fetch, FetchStart, FetchOutside, FetchEnd, GitInside
  <2>2. ASSUME NEW r \in Requests, Reset(r)
        PROVE  outer' = outer \/ \E next, effects : GitOutside(r, next, effects)
    BY <2>2 DEF Reset, ResetStart, ResetOutside, ResetWrites, ResetEnd, GitInside
  <2>3. ASSUME NEW r \in Requests, Checkout(r)
        PROVE  outer' = outer \/ \E next, effects : GitOutside(r, next, effects)
    BY <2>3 DEF Checkout
  <2>. QED
    BY <2>1, <2>2, <2>3
    DEF Next, BuildStep, StartTurn, Choose, Read, ReadRaises, GitFails, LeaveTurn,
        CloneDone, CloneFails, Push, vars
<1>6. CASE outer' = outer
  BY <1>2, <1>3, <1>6 DEF Inv, OwnTreeUntouched, Met
<1>7. CASE outer' # outer
  BY <1>4, <1>5, <1>7 DEF OwnTreeUntouched, Met
<1>. QED  BY <1>6, <1>7

-----------------------------------------------------------------------------
(***************************************************************************)
(* What a step of one turn means for the others, and for itself.           *)
(***************************************************************************)

\* What a step of r may do to the directory that another turn q works in.
DirSafe(q) ==
    \/ dir' = dir
    \/ dir = "absent" /\ dir' = "cloning"
    \/ dir = "cloning" /\ dir' = "empty" /\ build[q] # "clone"

TrackSafe(q) ==
    \/ tracking' = tracking \/ dir = "absent"
    \/ /\ dir = "clone"
       /\ \/ tracking <= tracking' \/ Due(q) <= tracking'
          \/ build[q] \in Building => "overtaken" \in Here(q)'

WorkSafe(r) ==
    \/ work' = work
    \/ dir = "clone" /\ git[r] = "writing" /\ work' = hand[r] /\ git'[r] = "none"

WriteSafe(r, q) ==
    git'[r] = "writing" =>
        /\ hand'[r] = hand[r] /\ UNCHANGED <<dir, work>>
        /\ \/ git[r] = "writing"
           \/ build[q] \in Building =>
                  /\ hand[r] < work /\ hand[r] < Due(q) => "overtaken" \in Here(q)'
                  /\ hand[r] # work => "rewritten" \in Here(q)'

Harmless(r) ==
    /\ Others(r) /\ WorkSafe(r)
    /\ \A q \in Requests \ {r} : DirSafe(q) /\ TrackSafe(q) /\ WriteSafe(r, q)

\* It does another turn no harm that is not noted.
LEMMA OthersKept ==
    ASSUME Inv, TypeOK', Grows, NEW r \in Requests, Harmless(r),
           NEW q \in Requests \ {r}
    PROVE  TurnInv(q)'
<1>1. /\ TurnInv(q) /\ Locked /\ Others(r) /\ WorkSafe(r)
      /\ DirSafe(q) /\ TrackSafe(q) /\ WriteSafe(r, q)
  BY DEF Inv, Harmless
<1>2. /\ build'[q] = build[q] /\ stage'[q] = stage[q]
      /\ source'[q] = source[q] /\ version'[q] = version[q] /\ floor'[q] = floor[q]
      /\ \A p \in Requests \ {r} : git'[p] = git[p] /\ hand'[p] = hand[p]
  BY <1>1 DEF Others
<1>3. /\ tracking \in Nat /\ tracking' \in Nat /\ work \in Nat /\ work' \in Nat
      /\ Due(q) \in Nat /\ Due(q)' = Due(q) /\ stage[q] \in Stages
      /\ \A p \in Requests : hand[p] \in Nat
  <2>1. tracking' \in Nat /\ work' \in Nat
    BY PromptConstants DEF TypeOK
  <2>2. /\ tracking \in Nat /\ work \in Nat /\ Due(q) \in Nat /\ stage[q] \in Stages
        /\ \A p \in Requests : hand[p] \in Nat
    BY Typed DEF Inv, Due
  <2>3. Due(q)' = Due(q)
    BY <1>2 DEF Due
  <2>. QED  BY <2>1, <2>2, <2>3
<1>4. /\ \A s \in Stages : reasons[q][s] \subseteq reasons'[q][s]
      /\ Here(q) \subseteq Here(q)'
  BY <1>2, <1>3 DEF Grows, Here
<1>5. Placed(q)'
  BY <1>1, <1>2, <1>4 DEF TurnInv, Placed, DirSafe, Beyond
<1>6. Unbuilt(q)'
  BY <1>1, <1>2 DEF TurnInv, Unbuilt
<1>7. Served(q)' /\ Reasoned(q)'
  BY <1>1, <1>2, <1>4 DEF TurnInv, Served, Reasoned, DirSafe
<1>8. Warned(q)'
  <2>. SUFFICES ASSUME build[q] \in {"clone", "read"}, dir' \in {"cloning", "clone"},
                       NEW p \in Requests, git'[p] = "writing", hand'[p] # work'
                PROVE  "rewritten" \in Here(q)' \/ "unfinished" \in Here(q)'
    BY <1>2 DEF Warned
  <2>1. dir' = dir /\ dir \in {"cloning", "clone"}
    BY <1>1 DEF DirSafe, TurnInv, Placed
  <2>2. CASE p # r
    <3>1. git[p] = "writing" /\ hand[p] = hand'[p]
      BY <1>2, <2>2
    <3>2. work' = work
      BY <1>1, <2>2, <3>1 DEF WorkSafe, Locked
    <3>. QED  BY <1>1, <1>4, <2>1, <3>1, <3>2 DEF TurnInv, Warned
  <2>3. CASE p = r
    <3>1. hand'[r] = hand[r] /\ work' = work
      BY <1>1, <2>3 DEF WriteSafe
    <3>2. CASE git[r] = "writing"
      BY <1>1, <1>4, <2>1, <2>3, <3>1, <3>2 DEF TurnInv, Warned
    <3>3. CASE git[r] # "writing"
      BY <1>1, <2>3, <3>1, <3>3 DEF WriteSafe, Building
    <3>. QED  BY <3>2, <3>3
  <2>. QED  BY <2>2, <2>3
<1>9. Fresh(q)'
  <2>1. CASE Disturbed(q) \/ Disturbed(q)'
    BY <1>4, <2>1 DEF Fresh, Disturbed
  <2>2. CASE ~Disturbed(q) /\ ~Disturbed(q)'
    <3>1. build[q] = "clone" => Due(q) <= tracking'
      BY <1>1, <1>3, <2>2 DEF TurnInv, Fresh, Placed, TrackSafe
    <3>2. ASSUME dir' = "clone" PROVE dir = "clone"
      BY <1>1, <3>2 DEF DirSafe
    <3>3. ASSUME dir' = "clone", build[q] \in {"checkout", "reset"}, git[q] = "none"
          PROVE  Due(q) <= tracking'
      <4>1. Due(q) <= tracking /\ build[q] \in Building
        BY <1>1, <2>2, <3>2, <3>3 DEF TurnInv, Fresh, Building, GitPlaces
      <4>. QED  BY <1>1, <1>3, <2>2, <3>2, <3>3, <4>1 DEF TrackSafe, Disturbed
    <3>4. ASSUME dir' = "clone", build[q] = "read"
          PROVE  /\ Due(q) <= work'
                 /\ \A p \in Requests : git'[p] = "writing" => Due(q) <= hand'[p]
      <4>1. /\ Due(q) <= work /\ build[q] \in Building
            /\ \A p \in Requests : git[p] = "writing" => Due(q) <= hand[p]
        BY <1>1, <2>2, <3>2, <3>4 DEF TurnInv, Fresh, Building
      <4>2. Due(q) <= work'
        BY <1>1, <4>1 DEF WorkSafe
      <4>3. git'[r] = "writing" => Due(q) <= hand'[r]
        BY <1>1, <1>3, <2>2, <4>1 DEF WriteSafe, Disturbed
      <4>. QED  BY <1>2, <4>1, <4>2, <4>3
    <3>5. dir' = "clone" =>
             /\ build[q] = "fetch" /\ git[q] = "fetching" => Due(q) <= hand[q]
             /\ build[q] = "reset" /\ git[q] # "none" => Due(q) <= hand[q]
      BY <1>1, <2>2, <3>2 DEF TurnInv, Fresh
    <3>. QED  BY <1>2, <1>3, <3>1, <3>3, <3>4, <3>5 DEF Fresh
  <2>. QED  BY <2>1, <2>2
<1>. QED  BY <1>5, <1>6, <1>7, <1>8, <1>9 DEF TurnInv

\* A turn that moves on inside a stage keeps what is known of its prompts.
LEMMA Moves ==
    ASSUME Inv, Grows, NEW r \in Requests, build[r] \in {"absent"} \cup Building,
           UNCHANGED <<stage, source, version>>,
           \A s \in Stages \ {stage[r]} : floor'[r][s] = floor[r][s],
           dir = "empty" => dir' = "empty"
    PROVE  Unbuilt(r)' /\ Served(r)' /\ Reasoned(r)'
<1>1. TypeOK /\ TurnInv(r) /\ source[r][stage[r]] = "none"
  BY DEF Inv, TurnInv, Unbuilt
<1>2. \A s \in Stages : reasons[r][s] \subseteq reasons'[r][s]
  BY DEF Grows
<1>3. Unbuilt(r)'
  BY <1>1 DEF TurnInv, Unbuilt
<1>4. Served(r)'
  BY <1>1, <1>2 DEF TurnInv, Served
<1>5. Reasoned(r)'
  BY <1>1, <1>2 DEF TurnInv, Reasoned
<1>. QED  BY <1>3, <1>4, <1>5

\* A turn that ends a stage for a good reason is well off in the next.
LEMMA Ends ==
    ASSUME Inv, TypeOK', Grows, NEW r \in Requests, build[r] \in Building \ {"choose"},
           NEW from \in {"local", "remote"}, NEW v \in Nat, EndStage(r, from, v),
           floor' = floor, hand' = hand, git' = [git EXCEPT ![r] = "none"],
           UNCHANGED <<tracking, work>>,
           dir' = dir \/ (dir = "cloning" /\ dir' = "empty" /\ build[r] = "clone"),
           from = "remote" => Disturbed(r) \/ v >= Due(r),
           from = "local" =>
               \/ reasons'[r][stage[r]] \cap {"failed", "unfinished", "rewritten"} # {}
               \/ dir' = "empty"
    PROVE  (\A q \in Requests : TurnInv(q)') /\ OneClone'
<1>1. TypeOK /\ TurnInv(r) /\ stage[r] \in Stages /\ git'[r] = "none"
  BY DEF Inv, TypeOK
<1>2. /\ source'[r][stage[r]] = from /\ version'[r][stage[r]] = v
      /\ \A s \in Stages \ {stage[r]} :
             source'[r][s] = source[r][s] /\ version'[r][s] = version[r][s]
      /\ stage' = [stage EXCEPT ![r] = "reply"]
      /\ \/ stage[r] = "intent" /\ build' = [build EXCEPT ![r] = "choose"]
         \/ stage[r] = "reply" /\ build' = [build EXCEPT ![r] = "ready"]
      /\ \A q \in Requests \ {r} : source'[q] = source[q] /\ version'[q] = version[q]
  BY <1>1, StageEnds
<1>3. /\ stage'[r] = "reply"
      /\ \/ stage[r] = "intent" /\ build'[r] = "choose"
         \/ stage[r] = "reply" /\ build'[r] = "ready"
      /\ \A q \in Requests \ {r} : build'[q] = build[q] /\ stage'[q] = stage[q]
  BY <1>1, <1>2 DEF TypeOK
<1>4. /\ \A s \in Stages : reasons[r][s] \subseteq reasons'[r][s]
      /\ Here(r) \subseteq reasons'[r][stage[r]]
  BY <1>1 DEF Grows, Here
<1>5. dir # "absent" /\ dir' # "absent"
  BY <1>1 DEF TurnInv, Placed, Building, GitPlaces
<1>6. Placed(r)' /\ Fresh(r)' /\ Warned(r)'
  BY <1>1, <1>3, <1>5 DEF Placed, Fresh, Warned, Beyond
<1>7. Unbuilt(r)'
  BY <1>1, <1>2, <1>3 DEF TurnInv, Unbuilt, Building, GitPlaces, Stages
<1>8. Served(r)'
  BY <1>1, <1>2, <1>4 DEF TurnInv, Served, Disturbed, Due
<1>9. Reasoned(r)'
  BY <1>1, <1>2, <1>4 DEF TurnInv, Reasoned
<1>10. Others(r)
  BY <1>1, <1>2, <1>3 DEF Others, TypeOK
<1>11. Harmless(r)
  <2>1. \A q \in Requests \ {r} : DirSafe(q)
    BY DEF DirSafe, Inv, OneClone
  <2>. QED  BY <1>1, <1>10, <2>1 DEF Harmless, WorkSafe, TrackSafe, WriteSafe
<1>12. \A q \in Requests \ {r} : TurnInv(q)'
  BY <1>11, OthersKept
<1>13. OneClone'
  BY <1>3 DEF Inv, OneClone
<1>. QED  BY <1>6, <1>7, <1>8, <1>9, <1>12, <1>13 DEF TurnInv

\* A turn that moves on, with a place to be in that is right for it.
LEMMA MovingOn ==
    ASSUME Inv, TypeOK', Grows, NEW r \in Requests, Harmless(r),
           build[r] \in {"absent"} \cup Building,
           build'[r] # "clone" \/ dir = "absent",
           UNCHANGED <<stage, source, version>>,
           \A s \in Stages \ {stage[r]} : floor'[r][s] = floor[r][s],
           dir = "empty" => dir' = "empty",
           Placed(r)', Fresh(r)', Warned(r)'
    PROVE  (\A q \in Requests : TurnInv(q)') /\ OneClone'
<1>1. Unbuilt(r)' /\ Served(r)' /\ Reasoned(r)'
  BY Moves
<1>2. \A q \in Requests \ {r} : TurnInv(q)'
  BY OthersKept
<1>3. OneClone'
  BY DEF Harmless, Others, Inv, TurnInv, Placed, OneClone
<1>. QED  BY <1>1, <1>2, <1>3 DEF TurnInv

-----------------------------------------------------------------------------
(***************************************************************************)
(* Every step keeps what holds of each turn.                               *)
(***************************************************************************)

\* Every turn and the clone of one of them are as the invariant says.
TurnsInv == (\A q \in Requests : TurnInv(q)) /\ OneClone

\* A git command outside a finished clone falls back, or moves on in a clone it
\* knows not to be done or in a directory that never becomes one.
LEMMA OutsideKeeps ==
    ASSUME Inv, TypeOK', Grows, NEW r \in Requests, NEW next \in Beyond, NEW effects,
           GitOutside(r, next, effects)
    PROVE  TurnsInv'
<1>1. /\ TypeOK /\ Placed(r) /\ build[r] \in GitPlaces /\ git[r] = "none"
      /\ UNCHANGED <<dir, tracking, work, git, hand, floor>> /\ dir # "clone"
      /\ NoteClone(r)
  BY DEF GitOutside, gitVars, Inv, TurnInv
<1>2. dir \in {"cloning", "empty"}
  BY <1>1 DEF Placed, GitPlaces, TypeOK, Dirs
<1>3. dir = "cloning" => "unfinished" \in reasons'[r][stage[r]]
  BY <1>1, Noted DEF NoteClone, Reasons
<1>4. build[r] \in Building \ {"choose"} /\ git' = [git EXCEPT ![r] = "none"]
  BY <1>1 DEF Building, GitPlaces, TypeOK
<1>5. CASE FallBack(r)
  <2>1. \/ reasons'[r][stage[r]] \cap {"failed", "unfinished", "rewritten"} # {}
        \/ dir' = "empty"
    BY <1>1, <1>2, <1>3
  <2>. QED  BY <1>1, <1>4, <1>5, <2>1, Ends DEF FallBack, TurnsInv
<1>6. CASE build' = [build EXCEPT ![r] = next] /\ UNCHANGED <<stage, source, version>>
  <2>1. build'[r] = next /\ \A q \in Requests \ {r} : build'[q] = build[q]
    BY <1>1, <1>6 DEF TypeOK
  <2>2. Others(r)
    BY <1>1, <1>6, <2>1 DEF Others
  <2>3. Harmless(r)
    BY <1>1, <2>2 DEF Harmless, DirSafe, WorkSafe, TrackSafe, WriteSafe
  <2>4. dir = "cloning" => "unfinished" \in Here(r)'
    BY <1>3, <1>6 DEF Here
  <2>5. Placed(r)' /\ Fresh(r)' /\ Warned(r)'
    BY <1>1, <1>2, <2>1, <2>4 DEF Placed, Fresh, Warned, Disturbed, Beyond
  <2>. QED
    BY <1>1, <1>4, <1>6, <2>1, <2>3, <2>5, MovingOn DEF Beyond, TurnsInv
<1>. QED  BY <1>5, <1>6 DEF GitOutside, BuildGoto

\* A command that begins has in hand what is due to its turn.
LEMMA InsideKeeps ==
    ASSUME Inv, TypeOK', Grows, NEW r \in Requests,
           \/ GitInside(r, "fetch", "fetching", remote)
           \/ GitInside(r, "reset", "resolved", tracking)
    PROVE  TurnsInv'
<1>1. PICK place \in {"fetch", "reset"}, command \in {"fetching", "resolved"},
           v \in {remote, tracking} :
         /\ GitInside(r, place, command, v)
         /\ \/ place = "fetch" /\ command = "fetching" /\ v = remote
            \/ place = "reset" /\ command = "resolved" /\ v = tracking
  OBVIOUS
<1>2. /\ build[r] = place /\ git[r] = "none" /\ dir \in {"cloning", "clone"}
      /\ git' = [git EXCEPT ![r] = command] /\ hand' = [hand EXCEPT ![r] = v]
      /\ UNCHANGED <<dir, tracking, work, build, stage, source, version, floor>>
      /\ NoteClone(r)
  BY <1>1 DEF GitInside, repoVars, turnVars
<1>3. /\ TypeOK /\ TurnInv(r) /\ Due(r) \in Nat /\ Due(r) <= remote
      /\ git'[r] = command /\ hand'[r] = v /\ Due(r)' = Due(r)
      /\ \A q \in Requests \ {r} : git'[q] = git[q] /\ hand'[q] = hand[q]
  BY <1>2, Typed DEF Inv, TypeOK, Due
<1>4. /\ dir = "cloning" => "unfinished" \in Here(r)'
      /\ Here(r) \subseteq Here(r)'
  BY <1>2, <1>3, Noted, Typed DEF NoteClone, Here, Reasons, Grows
<1>5. Harmless(r)
  BY <1>1, <1>2, <1>3 DEF Harmless, Others, DirSafe, WorkSafe, TrackSafe, WriteSafe
<1>6. Placed(r)' /\ Warned(r)'
  BY <1>1, <1>2, <1>3, <1>4 DEF Placed, Warned, Beyond
<1>7. Fresh(r)'
  <2>1. CASE Disturbed(r)'
    BY <2>1 DEF Fresh
  <2>2. CASE ~Disturbed(r)'
    <3>1. ~Disturbed(r) /\ dir = "clone"
      BY <1>2, <1>4, <2>2 DEF Disturbed
    <3>2. Due(r) <= v
      BY <1>1, <1>2, <1>3, <3>1 DEF TurnInv, Fresh
    <3>. QED  BY <1>1, <1>2, <1>3, <3>1, <3>2 DEF Fresh
  <2>. QED  BY <2>1, <2>2
<1>. QED
  BY <1>1, <1>2, <1>5, <1>6, <1>7, MovingOn DEF Building, GitPlaces, TurnsInv

\* A fetch ends: the tracking branch is as new as the turn asked for, and what
\* that takes from others is noted.
LEMMA FetchEndKeeps ==
    ASSUME Inv, TypeOK', Grows, NEW r \in Requests, FetchEnd(r)
    PROVE  TurnsInv'
<1>1. /\ git[r] = "fetching" /\ git' = [git EXCEPT ![r] = "none"]
      /\ UNCHANGED <<dir, work, hand, stage, source, version, floor>>
      /\ build' = IF build[r] = "fetch" THEN [build EXCEPT ![r] = AfterFetch] ELSE build
      /\ dir = "clone" => tracking' = hand[r] /\ NoteOvertaken(r, tracking, {})
      /\ dir # "clone" => tracking' = tracking
  BY DEF FetchEnd, GitEnds, BuildGoto
<1>2. /\ TypeOK /\ TurnInv(r) /\ tracking \in Nat
      /\ \A q \in Requests : hand[q] \in Nat /\ Due(q) \in Nat
      /\ git'[r] = "none" /\ Due(r)' = Due(r) /\ Here(r) \subseteq Here(r)'
      /\ \A q \in Requests \ {r} : git'[q] = git[q] /\ build'[q] = build[q]
  <2>1. Here(r) \subseteq Here(r)'
    BY <1>1, Typed DEF Inv, Here, Grows
  <2>. QED  BY <1>1, <2>1, Typed DEF Inv, TypeOK, Due
<1>3. ASSUME NEW q \in Requests PROVE TrackSafe(q)
  <2>1. CASE dir = "clone"
    <3>1. build[q] \in Building /\ hand[r] < tracking /\ hand[r] < Due(q) =>
              "overtaken" \in reasons'[q][stage[q]]
      BY <1>1, <1>2, <2>1, OvertakenNoted
    <3>. QED  BY <1>1, <1>2, <2>1, <3>1 DEF TrackSafe, Here
  <2>. QED  BY <1>1, <2>1 DEF TrackSafe
<1>4. Harmless(r)
  BY <1>1, <1>2, <1>3 DEF Harmless, Others, DirSafe, WorkSafe, WriteSafe
<1>5. CASE build[r] = "fetch"
  <2>1. build'[r] = AfterFetch /\ AfterFetch \in {"checkout", "reset"}
    BY <1>1, <1>2, <1>5 DEF TypeOK, AfterFetch
  <2>2. Placed(r)' /\ Warned(r)'
    BY <1>1, <1>2, <1>5, <2>1 DEF TurnInv, Placed, Warned, Beyond
  <2>3. Fresh(r)'
    BY <1>1, <1>2, <1>5, <2>1 DEF TurnInv, Fresh, Disturbed
  <2>. QED
    BY <1>1, <1>4, <1>5, <2>1, <2>2, <2>3, MovingOn DEF Building, GitPlaces, TurnsInv
<1>6. CASE build[r] # "fetch"
  <2>1. build' = build /\ build[r] = "left"
    BY <1>1, <1>2, <1>6 DEF TurnInv, Placed
  <2>2. TurnInv(r)'
    BY <1>1, <1>2, <2>1
    DEF TurnInv, Placed, Unbuilt, Fresh, Warned, Served, Reasoned, Building, GitPlaces,
        Beyond, Grows
  <2>. QED  BY <1>4, <2>1, <2>2, OthersKept DEF Inv, OneClone, TurnsInv
<1>. QED  BY <1>5, <1>6

\* A reset begins to write: those it may take a newer version or the file from
\* know.
LEMMA ResetWritesKeeps ==
    ASSUME Inv, TypeOK', Grows, NEW r \in Requests, ResetWrites(r)
    PROVE  TurnsInv'
<1>1. /\ git[r] = "resolved" /\ git' = [git EXCEPT ![r] = "writing"]
      /\ \A q \in Requests : git[q] # "writing"
      /\ UNCHANGED <<dir, tracking, work, hand, build, stage, source, version, floor>>
      /\ hand[r] # work => NoteOvertaken(r, work, {"rewritten"})
  BY DEF ResetWrites, repoVars, turnVars
<1>2. /\ TypeOK /\ TurnInv(r) /\ work \in Nat
      /\ \A q \in Requests : hand[q] \in Nat /\ Due(q) \in Nat
      /\ git'[r] = "writing" /\ Due(r)' = Due(r) /\ Here(r) \subseteq Here(r)'
      /\ \A q \in Requests \ {r} : git'[q] = git[q]
  <2>1. Here(r) \subseteq Here(r)'
    BY <1>1, Typed DEF Inv, Here, Grows
  <2>. QED  BY <1>1, <2>1, Typed DEF Inv, TypeOK, Due
<1>3. ASSUME NEW q \in Requests \ {r} PROVE WriteSafe(r, q)
  <2>1. CASE hand[r] # work
    <3>1. {"rewritten"} \in SUBSET Reasons
      BY DEF Reasons
    <3>2. build[q] \in Building =>
              /\ hand[r] < work /\ hand[r] < Due(q) =>
                     "overtaken" \in reasons'[q][stage[q]]
              /\ {"rewritten"} \subseteq reasons'[q][stage[q]]
      BY <1>1, <1>2, <2>1, <3>1, OvertakenNoted
    <3>. QED  BY <1>1, <3>2 DEF WriteSafe, Here
  <2>. QED  BY <1>1, <1>2, <2>1 DEF WriteSafe
<1>4. Harmless(r)
  BY <1>1, <1>2, <1>3 DEF Harmless, Others, DirSafe, WorkSafe, TrackSafe
<1>5. TurnInv(r)'
  BY <1>1, <1>2
  DEF TurnInv, Placed, Unbuilt, Fresh, Disturbed, Warned, Served, Reasoned, Building,
      GitPlaces, Beyond, Grows
<1>. QED  BY <1>1, <1>4, <1>5, OthersKept DEF Inv, OneClone, TurnsInv

\* A reset ends: the tree is as new as the turn asked for.
LEMMA ResetEndKeeps ==
    ASSUME Inv, TypeOK', Grows, NEW r \in Requests, ResetEnd(r)
    PROVE  TurnsInv'
<1>1. /\ git[r] = "writing" /\ git' = [git EXCEPT ![r] = "none"]
      /\ UNCHANGED <<dir, tracking, hand, stage, source, version, floor, reasons>>
      /\ build' = IF build[r] = "reset" THEN [build EXCEPT ![r] = "read"] ELSE build
      /\ work' = IF dir = "clone" THEN hand[r] ELSE work
  BY DEF ResetEnd, GitEnds, BuildGoto
<1>2. /\ TypeOK /\ TurnInv(r) /\ git'[r] = "none" /\ Due(r)' = Due(r)
      /\ Here(r)' = Here(r)
      /\ \A q \in Requests \ {r} :
             git'[q] = git[q] /\ build'[q] = build[q] /\ git[q] # "writing"
  BY <1>1 DEF Inv, TypeOK, Due, Here, Locked
<1>3. Harmless(r)
  BY <1>1, <1>2 DEF Harmless, Others, DirSafe, WorkSafe, TrackSafe, WriteSafe
<1>4. CASE build[r] = "reset"
  <2>1. build'[r] = "read"
    BY <1>1, <1>2, <1>4 DEF TypeOK
  <2>2. \A q \in Requests : git'[q] # "writing"
    BY <1>2
  <2>3. Placed(r)' /\ Warned(r)'
    BY <1>1, <1>2, <1>4, <2>1, <2>2 DEF TurnInv, Placed, Warned, Beyond
  <2>4. Fresh(r)'
    BY <1>1, <1>2, <1>4, <2>1, <2>2 DEF TurnInv, Fresh, Disturbed
  <2>. QED
    BY <1>1, <1>3, <1>4, <2>1, <2>3, <2>4, MovingOn DEF Building, GitPlaces, TurnsInv
<1>5. CASE build[r] # "reset"
  <2>1. build' = build /\ build[r] = "left"
    BY <1>1, <1>2, <1>5 DEF TurnInv, Placed
  <2>2. TurnInv(r)'
    BY <1>1, <1>2, <2>1
    DEF TurnInv, Placed, Unbuilt, Fresh, Warned, Served, Reasoned, Building, GitPlaces,
        Beyond
  <2>. QED  BY <1>3, <2>1, <2>2, OthersKept DEF Inv, OneClone, TurnsInv
<1>. QED  BY <1>4, <1>5

\* The checkout of the branch the clone is on changes nothing.
LEMMA CheckoutKeeps ==
    ASSUME Inv, TypeOK', Grows, NEW r \in Requests, Checkout(r)
    PROVE  TurnsInv'
<1>1. CASE GitOutside(r, "reset", {outer, "overwritten"})
  BY <1>1, OutsideKeeps DEF Beyond
<1>2. CASE /\ dir \in {"cloning", "clone"} /\ NoteClone(r)
           /\ build' = [build EXCEPT ![r] = "reset"]
           /\ UNCHANGED <<remote, repoVars, gitVars, stage, source, version, floor>>
  <2>1. /\ TypeOK /\ TurnInv(r) /\ build[r] = "checkout"
        /\ build'[r] = "reset" /\ \A q \in Requests \ {r} : build'[q] = build[q]
        /\ UNCHANGED <<dir, tracking, work, git, hand, floor>>
    BY <1>2 DEF Checkout, Inv, TypeOK, repoVars, gitVars
  <2>2. Harmless(r)
    BY <1>2, <2>1 DEF Harmless, Others, DirSafe, WorkSafe, TrackSafe, WriteSafe
  <2>3. /\ dir = "cloning" => "unfinished" \in Here(r)'
        /\ Here(r) \subseteq Here(r)' /\ Due(r)' = Due(r)
    BY <1>2, <2>1, Noted, Typed DEF NoteClone, Here, Due, Reasons, Grows
  <2>4. git[r] = "none"
    BY <2>1 DEF TurnInv, Placed, TypeOK, Commands
  <2>5. Placed(r)' /\ Warned(r)'
    BY <1>2, <2>1, <2>3, <2>4 DEF Placed, Warned, Beyond
  <2>6. Fresh(r)'
    BY <1>2, <2>1, <2>3, <2>4 DEF TurnInv, Fresh, Disturbed
  <2>. QED
    BY <1>2, <2>1, <2>2, <2>5, <2>6, MovingOn DEF Building, GitPlaces, TurnsInv
<1>. QED  BY <1>1, <1>2 DEF Checkout, BuildGoto

\* A turn begins, or ends for good.
LEMMA PlainStepKeeps ==
    ASSUME Inv, TypeOK', Grows, NEW r \in Requests,
           StartTurn(r) \/ ReadRaises(r) \/ LeaveTurn(r)
    PROVE  TurnsInv'
<1>1. PICK place \in {"choose", "raised", "left"} :
         /\ build' = [build EXCEPT ![r] = place]
         /\ place = "choose" => build[r] = "absent"
         /\ place = "raised" => build[r] = "read" /\ dir = "clone"
  BY DEF StartTurn, ReadRaises, LeaveTurn, BuildGoto, Replacing
<1>2. /\ UNCHANGED <<dir, tracking, work, git, hand, stage, source, version, floor, reasons>>
      /\ build[r] \in {"absent"} \cup Building
  BY DEF StartTurn, ReadRaises, LeaveTurn, repoVars, gitVars, Building
<1>3. /\ TypeOK /\ TurnInv(r) /\ build'[r] = place
      /\ \A q \in Requests \ {r} : build'[q] = build[q]
  BY <1>1 DEF Inv, TypeOK
<1>4. Harmless(r)
  BY <1>2, <1>3 DEF Harmless, Others, DirSafe, WorkSafe, TrackSafe, WriteSafe
<1>5. Placed(r)' /\ Fresh(r)' /\ Warned(r)'
  BY <1>1, <1>2, <1>3
  DEF TurnInv, Placed, Fresh, Warned, Building, GitPlaces, Beyond, Here
<1>. QED  BY <1>2, <1>3, <1>4, <1>5, MovingOn DEF TurnsInv

\* A turn looks for the directory, and is the first to clone or one more to
\* fetch.
LEMMA ChooseKeeps ==
    ASSUME Inv, TypeOK', Grows, NEW r \in Requests, Choose(r)
    PROVE  TurnsInv'
<1>1. /\ build[r] = "choose" /\ UNCHANGED <<work, git, hand, stage, source, version, reasons>>
      /\ build' = [build EXCEPT ![r] = IF dir = "absent" THEN "clone" ELSE "fetch"]
      /\ dir' = IF dir = "absent" THEN "cloning" ELSE dir
      /\ tracking' = IF dir = "absent" THEN remote ELSE tracking
      /\ floor' = [floor EXCEPT ![r][stage[r]] = remote]
  BY DEF Choose, BuildGoto, gitVars
<1>2. /\ TypeOK /\ TurnInv(r) /\ Locked /\ remote \in Nat /\ stage[r] \in Stages
      /\ build'[r] = IF dir = "absent" THEN "clone" ELSE "fetch"
      /\ \A q \in Requests \ {r} : build'[q] = build[q] /\ floor'[q] = floor[q]
      /\ git[r] = "none"
  BY <1>1, Typed DEF Inv, TypeOK, TurnInv, Placed, Commands
<1>3. Due(r)' = remote /\ \A s \in Stages \ {stage[r]} : floor'[r][s] = floor[r][s]
  <2>1. floor'[r] = [floor[r] EXCEPT ![stage[r]] = remote]
    BY <1>1, <1>2 DEF TypeOK
  <2>. QED  BY <1>1, <1>2, <2>1 DEF Due, TypeOK
<1>4. Harmless(r)
  BY <1>1, <1>2 DEF Harmless, Others, DirSafe, WorkSafe, TrackSafe, WriteSafe
<1>5. Placed(r)' /\ Fresh(r)'
  BY <1>1, <1>2, <1>3 DEF Placed, Fresh, Beyond
<1>6. Warned(r)'
  <2>1. dir = "absent" => \A q \in Requests : git'[q] # "writing"
    BY <1>1 DEF Inv, TurnInv, Placed
  <2>. QED  BY <1>1, <1>2, <2>1 DEF Warned
<1>. QED
  BY <1>1, <1>2, <1>3, <1>4, <1>5, <1>6, MovingOn DEF Building, TurnsInv

\* A turn reads what is in the tree, or the version a reset is putting there, or
\* falls back for a reason.
LEMMA ReadKeeps ==
    ASSUME Inv, TypeOK', Grows, NEW r \in Requests, Read(r)
    PROVE  TurnsInv'
<1>1. /\ build[r] = "read"
      /\ UNCHANGED <<dir, tracking, work, git, hand, floor, reasons>>
  BY DEF Read, repoVars, gitVars
<1>2. /\ TypeOK /\ TurnInv(r) /\ build[r] \in Building \ {"choose"}
      /\ work \in Nat /\ tracking \in Nat /\ remote \in Nat
      /\ \A q \in Requests : hand[q] \in Nat
      /\ git' = [git EXCEPT ![r] = "none"]
  <2>1. git[r] = "none"
    BY <1>1 DEF Inv, TurnInv, Placed, TypeOK, Commands
  <2>. QED  BY <1>1, <2>1, Typed DEF Inv, TypeOK, Building
<1>3. /\ dir = "cloning" => "unfinished" \in Here(r)
      /\ dir # "absent"
  BY <1>1, <1>2 DEF TurnInv, Placed, Beyond
<1>4. ASSUME NEW v \in Nat, EndStage(r, "remote", v), Disturbed(r) \/ v >= Due(r)
      PROVE  TurnsInv'
  BY <1>1, <1>2, <1>4, Ends DEF TurnsInv
<1>5. CASE dir = "clone" /\ EndStage(r, "remote", work)
  BY <1>1, <1>2, <1>4, <1>5 DEF TurnInv, Fresh
<1>6. ASSUME NEW q \in Requests, Replacing(q), EndStage(r, "remote", hand[q])
      PROVE  TurnsInv'
  <2>1. Disturbed(r) \/ hand[q] >= Due(r)
    BY <1>1, <1>2, <1>6 DEF Replacing, TurnInv, Fresh
  <2>. QED  BY <1>2, <1>4, <1>6, <2>1
<1>7. ASSUME NEW v \in tracking .. remote, dir = "cloning", EndStage(r, "remote", v)
      PROVE  TurnsInv'
  <2>1. v \in Nat /\ Disturbed(r)
    BY <1>2, <1>3, <1>7 DEF Disturbed
  <2>. QED  BY <1>4, <1>7, <2>1
<1>8. CASE FallBack(r) /\ (dir # "clone" \/ \E q \in Requests : Replacing(q))
  <2>1. \/ reasons'[r][stage[r]] \cap {"failed", "unfinished", "rewritten"} # {}
        \/ dir' = "empty"
    <3>1. \/ "rewritten" \in Here(r) \/ "unfinished" \in Here(r)
          \/ dir = "empty"
      BY <1>1, <1>2, <1>3, <1>8 DEF Replacing, TurnInv, Warned, TypeOK, Dirs
    <3>. QED  BY <1>1, <3>1 DEF Here
  <2>. QED  BY <1>1, <1>2, <1>8, <2>1, Ends DEF FallBack, TurnsInv
<1>. QED  BY <1>5, <1>6, <1>7, <1>8 DEF Read

\* git fails and the turn falls back.
LEMMA GitFailsKeeps ==
    ASSUME Inv, TypeOK', Grows, NEW r \in Requests, GitFails(r)
    PROVE  TurnsInv'
<1>1. /\ build[r] \in Building \ {"choose"} /\ EndStage(r, "local", 0)
      /\ Note(r, "failed") /\ git' = [git EXCEPT ![r] = "none"]
      /\ UNCHANGED <<dir, tracking, work, hand, floor>>
  BY DEF GitFails, FallBack, repoVars, Building, GitPlaces
<1>2. "failed" \in reasons'[r][stage[r]]
  BY <1>1, Noted DEF Inv, Reasons
<1>. QED  BY <1>1, <1>2, Ends DEF TurnsInv

\* The clone is done: who waited for it reads it, who found it unfinished knows.
LEMMA CloneDoneKeeps ==
    ASSUME Inv, TypeOK', CloneDone
    PROVE  TurnsInv'
<1>1. /\ dir = "cloning" /\ dir' = "clone"
      /\ UNCHANGED <<git, hand, stage, source, version, floor, reasons>>
  BY DEF CloneDone, gitVars
<1>2. /\ tracking \in Nat /\ tracking <= tracking' /\ tracking <= work'
      /\ tracking' \in Nat /\ work' \in Nat /\ TypeOK /\ Locked
      /\ \A p \in Requests : hand[p] \in Nat
  BY Typed DEF CloneDone, Inv
<1>3. ASSUME NEW q \in Requests PROVE TurnInv(q)' /\ build'[q] # "clone"
  <2>1. /\ build'[q] = IF build[q] = "clone" THEN "read" ELSE build[q]
        /\ TurnInv(q) /\ Due(q) \in Nat
    BY Typed DEF CloneDone, Inv, Due
  <2>2. /\ build'[q] \in {"absent"} \cup Building => build[q] \in {"absent"} \cup Building
        /\ build'[q] # "clone"
    BY <2>1 DEF Building
  <2>3. Placed(q)' /\ Unbuilt(q)' /\ Served(q)' /\ Reasoned(q)'
    BY <1>1, <2>1, <2>2 DEF TurnInv, Placed, Unbuilt, Served, Reasoned
  <2>4. Here(q)' = Here(q) /\ Due(q)' = Due(q)
    BY <1>1 DEF Here, Due
  <2>5. Fresh(q)'
    <3>1. CASE build[q] = "clone"
      <4>1. Disturbed(q) \/ Due(q) <= tracking
        BY <2>1, <3>1 DEF TurnInv, Fresh
      <4>2. \A p \in Requests : git[p] = "writing" => tracking <= hand[p]
        BY <1>1, <1>2 DEF Locked
      <4>. QED  BY <1>1, <1>2, <2>1, <2>4, <3>1, <4>1, <4>2 DEF Fresh, Disturbed
    <3>2. CASE build[q] # "clone"
      <4>1. CASE build[q] \in Beyond \/ (build[q] = "fetch" /\ git[q] # "none")
        BY <1>1, <2>1, <2>4, <4>1 DEF TurnInv, Placed, Fresh, Disturbed
      <4>2. CASE ~(build[q] \in Beyond \/ (build[q] = "fetch" /\ git[q] # "none"))
        BY <1>1, <2>1, <3>2, <4>2 DEF Fresh, Beyond
      <4>. QED  BY <4>1, <4>2
    <3>. QED  BY <3>1, <3>2
  <2>6. Warned(q)'
    <3>. SUFFICES ASSUME build'[q] = "read", NEW p \in Requests, git[p] = "writing"
                  PROVE  "rewritten" \in Here(q) \/ "unfinished" \in Here(q)
      BY <1>1, <2>2, <2>4 DEF Warned
    <3>1. hand[p] # work
      BY <1>1, <1>2 DEF Locked
    <3>. QED  BY <1>1, <2>1, <3>1 DEF TurnInv, Warned
  <2>. QED  BY <2>2, <2>3, <2>5, <2>6 DEF TurnInv
<1>. QED  BY <1>3 DEF TurnsInv, OneClone

\* The clone fails: who waited for it falls back.
LEMMA CloneFailsKeeps ==
    ASSUME Inv, TypeOK', Grows, CloneFails
    PROVE  TurnsInv'
<1>1. /\ dir = "cloning" /\ dir' = "empty"
      /\ UNCHANGED <<tracking, work, git, hand, floor>>
  BY DEF CloneFails, gitVars
<1>2. ASSUME NEW r \in Requests, build[r] = "clone", FallBack(r), Note(r, "failed")
      PROVE  TurnsInv'
  <2>1. git' = [git EXCEPT ![r] = "none"]
    <3>1. git[r] = "none"
      BY <1>2 DEF Inv, TurnInv, Placed, TypeOK, Commands
    <3>. QED  BY <1>1, <3>1 DEF Inv, TypeOK
  <2>. QED  BY <1>1, <1>2, <2>1, Ends DEF FallBack, Building, TurnsInv
<1>3. CASE (\A r \in Requests : build[r] # "clone") /\ UNCHANGED <<turnVars, reasons>>
  <2>1. ASSUME NEW q \in Requests PROVE TurnInv(q)'
    BY <1>1, <1>3
    DEF turnVars, Inv, TurnInv, Placed, Unbuilt, Fresh, Disturbed, Warned, Served,
        Reasoned, Here, Due
  <2>. QED  BY <1>3, <2>1 DEF OneClone, turnVars, TurnsInv
<1>. QED  BY <1>2, <1>3 DEF CloneFails

\* Every step does.
LEMMA NextTurns == Inv /\ [Next]_vars => TurnsInv'
<1>. SUFFICES ASSUME Inv, [Next]_vars PROVE TurnsInv'
  OBVIOUS
<1>1. TypeOK' /\ Grows
  BY NextType, ReasonsKept DEF Inv, Grown
<1>2. ASSUME NEW r \in Requests, Fetch(r) PROVE TurnsInv'
  <2>1. CASE FetchStart(r)
    BY <1>1, <2>1, InsideKeeps DEF FetchStart
  <2>2. CASE FetchOutside(r)
    BY <1>1, <2>2, OutsideKeeps DEF FetchOutside, AfterFetch, Beyond
  <2>3. CASE FetchEnd(r)
    BY <1>1, <2>3, FetchEndKeeps
  <2>. QED  BY <1>2, <2>1, <2>2, <2>3 DEF Fetch
<1>3. ASSUME NEW r \in Requests, Reset(r) PROVE TurnsInv'
  <2>1. CASE ResetStart(r)
    BY <1>1, <2>1, InsideKeeps DEF ResetStart
  <2>2. CASE ResetOutside(r)
    BY <1>1, <2>2, OutsideKeeps DEF ResetOutside, Beyond
  <2>3. CASE ResetWrites(r) \/ ResetEnd(r)
    BY <1>1, <2>3, ResetWritesKeeps, ResetEndKeeps
  <2>. QED  BY <1>3, <2>1, <2>2, <2>3 DEF Reset
<1>4. ASSUME NEW r \in Requests, Checkout(r) PROVE TurnsInv'
  BY <1>1, <1>4, CheckoutKeeps
<1>5. ASSUME NEW r \in Requests, Choose(r) \/ Read(r) \/ GitFails(r) PROVE TurnsInv'
  BY <1>1, <1>5, ChooseKeeps, ReadKeeps, GitFailsKeeps
<1>6. ASSUME NEW r \in Requests, StartTurn(r) \/ ReadRaises(r) \/ LeaveTurn(r)
      PROVE  TurnsInv'
  BY <1>1, <1>6, PlainStepKeeps
<1>7. CASE CloneDone \/ CloneFails
  BY <1>1, <1>7, CloneDoneKeeps, CloneFailsKeeps
<1>8. CASE Push \/ UNCHANGED vars
  BY <1>8
  DEF Push, vars, repoVars, gitVars, turnVars, Inv, TurnsInv, OneClone, TurnInv, Placed,
      Unbuilt, Fresh, Disturbed, Warned, Served, Reasoned, Here, Due
<1>. QED
  BY <1>2, <1>3, <1>4, <1>5, <1>6, <1>7, <1>8 DEF Next, BuildStep

\* The initial states satisfy the invariant.
LEMMA InitInv == Init => Inv
<1>. SUFFICES ASSUME Init PROVE Inv
  OBVIOUS
<1>. USE DEF Init
<1>1. TypeOK
  BY PromptConstants DEF TypeOK, Dirs, BuildPlaces, Stages, Commands, Reasons
<1>2. ASSUME NEW r \in Requests PROVE TurnInv(r)
  BY DEF TurnInv, Placed, Unbuilt, Fresh, Warned, Served, Reasoned, Stages, Beyond
<1>. QED  BY <1>1, <1>2 DEF Inv, Locked, OneClone, OwnTreeUntouched

\* The invariant holds in every reachable state.
LEMMA Invariant == Spec => []Inv
<1>1. Inv /\ [Next]_vars => Inv'
  <2>1. TypeOK' /\ Locked' /\ TurnsInv' /\ OwnTreeUntouched' => Inv'
    BY DEF Inv, TurnsInv
  <2>. QED  BY <2>1, NextType, NextLocked, NextTurns, NextOuter
<1>. QED  BY <1>1, InitInv, PTL DEF Spec

-----------------------------------------------------------------------------
(***************************************************************************)
(* Theorems.                                                               *)
(***************************************************************************)

\* The shared directory and every turn (system_prompt.py) are well typed; no
\* version in the clone or in a command's hand is ahead of the remote.
THEOREM PromptTypeCorrect == Spec => []TypeOK
<1>1. Inv => TypeOK
  BY DEF Inv
<1>. QED  BY <1>1, Invariant, PTL

\* However the fetches, resets and reads of the turns interleave in the one
\* directory (_fetch_remote_prompt has no lock), a remote prompt is at least as
\* new as the repository was when the turn asked for it, unless the turn met a
\* clone that was not done or a command of another turn, begun before, put an
\* older version in place during the stage.
THEOREM PromptsAreCurrent == Spec => []ServedIsCurrent
<1>1. Inv => ServedIsCurrent
  BY DEF Inv, TurnInv, Served, ServedIsCurrent, Met
<1>. QED  BY <1>1, Invariant, PTL

\* A turn does without the remote prompt only if git failed in that stage, if it
\* met a clone that was not done, if the reset of another turn began to replace
\* the files during the stage, or if the one clone has failed for good.
THEOREM LocalIsExplained == Spec => []LocalHasReason
<1>1. Inv => LocalHasReason
  BY DEF Inv, TurnInv, Reasoned, LocalHasReason, Met
<1>. QED  BY <1>1, Invariant, PTL

\* git touches the program's own checkout only if that encloses the directory
\* and a turn found the directory there without a clone in it.
THEOREM OwnTreeIsSafe == Spec => []OwnTreeUntouched
<1>1. Inv => OwnTreeUntouched
  BY DEF Inv
<1>. QED  BY <1>1, Invariant, PTL
=============================================================================
