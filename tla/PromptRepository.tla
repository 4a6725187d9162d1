-------------------------- MODULE PromptRepository --------------------------
(***************************************************************************)
(* Where the two system prompts of a turn come from (runtime.run,          *)
(* prompts/context.py, prompts/system_prompt.py): the clone of a remote    *)
(* repository in .prompt/remote, else a local file or the built-in text.   *)
(*                                                                         *)
(* Every turn runs git twice over the one directory, once for the intent   *)
(* prompt and once for the reply prompt, and turns overlap without a lock  *)
(* of their own.  A git command is a process that first reads what it goes *)
(* by and changes the clone later: other turns come in between, and it     *)
(* does not stop when the turn that started it is cancelled.               *)
(***************************************************************************)
EXTENDS ChatRequests

CONSTANTS
    HasBranch,  \* git_branch is configured
    Enclosed,   \* the program itself runs from a git checkout
    MaxVersion  \* bound: versions of the remote repository

ASSUME PromptConstants ==
    HasBranch \in BOOLEAN /\ Enclosed \in BOOLEAN /\ MaxVersion \in Nat \ {0}

VARIABLES
    remote,    \* the version of the prompts in the remote repository
    dir,       \* .prompt/remote
    tracking,  \* the version its remote-tracking branch is at; in a clone at
               \* work, the version the remote had when that began
    work,      \* the version in its working tree
    outer,     \* the working tree the program runs from
    git,       \* the git command of a turn that is under way
    hand,      \* the version that command has read and will put in place
    build,     \* where a turn stands in building its prompts
    stage,     \* the prompt it is building
    source,    \* where each of its prompts came from
    version,   \* the version of each remote prompt
    floor,     \* history: remote when the stage began
    reasons    \* history: what came in the way of that stage

repoVars == <<dir, tracking, work, outer>>
gitVars == <<git, hand>>
turnVars == <<build, stage, source, version>>
vars == <<remote, repoVars, gitVars, turnVars, floor, reasons>>

Stages == {"intent", "reply"}
\* empty: made for a clone that failed; cloning: git clone is at work in it.
Dirs == {"absent", "empty", "cloning", "clone"}
\* fetching: the remote's refs are read; resolved: so is the ref to reset to;
\* writing: reset holds the index lock and replaces the files.
Commands == {"none", "fetching", "resolved", "writing"}
GitPlaces == {"fetch", "checkout", "reset"}
Building == {"choose", "clone", "read"} \cup GitPlaces
BuildPlaces == {"absent", "ready", "raised", "left"} \cup Building

(***************************************************************************)
(* failed      the network or a lock made one of its git commands fail     *)
(* unfinished  it met a clone that was not done yet                        *)
(* rewritten   the reset of another turn began to replace the files        *)
(* overtaken   a command of another turn that had read an older version    *)
(*             than this turn asked for put it in place after a newer one  *)
(***************************************************************************)
Reasons == {"failed", "unfinished", "rewritten", "overtaken"}

\* Types; versions of the clone are versions the remote has had.
TypeOK ==
    /\ remote \in 1 .. MaxVersion
    /\ tracking \in 0 .. remote /\ work \in 0 .. remote
    /\ dir \in Dirs
    /\ outer \in {"own", "overwritten"}
    /\ git \in [Requests -> Commands]
    /\ hand \in [Requests -> 0 .. remote]
    /\ build \in [Requests -> BuildPlaces]
    /\ stage \in [Requests -> Stages]
    /\ source \in [Requests -> [Stages -> {"none", "local", "remote"}]]
    /\ version \in [Requests -> [Stages -> 0 .. remote]]
    /\ floor \in [Requests -> [Stages -> 0 .. remote]]
    /\ reasons \in [Requests -> [Stages -> SUBSET Reasons]]

Init ==
    /\ remote = 1 /\ tracking = 0 /\ work = 0
    /\ dir = "absent"
    /\ outer = "own"
    /\ git = [r \in Requests |-> "none"]
    /\ hand = [r \in Requests |-> 0]
    /\ build = [r \in Requests |-> "absent"]
    /\ stage = [r \in Requests |-> "intent"]
    /\ source = [r \in Requests |-> [s \in Stages |-> "none"]]
    /\ version = [r \in Requests |-> [s \in Stages |-> 0]]
    /\ floor = [r \in Requests |-> [s \in Stages |-> 0]]
    /\ reasons = [r \in Requests |-> [s \in Stages |-> {}]]

BuildGoto(r, place) == build' = [build EXCEPT ![r] = place]

Note(r, reason) == reasons' = [reasons EXCEPT ![r][stage[r]] = @ \cup {reason}]

\* A git command that begins in a clone at work.
NoteClone(r) == IF dir = "cloning" THEN Note(r, "unfinished") ELSE UNCHANGED reasons

\* build_system_prompt returns; the turn goes on to its next prompt.
EndStage(r, from, v) ==
    /\ source' = [source EXCEPT ![r][stage[r]] = from]
    /\ version' = [version EXCEPT ![r][stage[r]] = v]
    /\ stage' = [stage EXCEPT ![r] = "reply"]
    /\ BuildGoto(r, IF stage[r] = "intent" THEN "choose" ELSE "ready")

\* Mutant: the source is recorded by the name of the constant.
FallBackToBase(r) == EndStage(r, "base", 0)

\* Any RuntimeError or OSError of git, or a file that is not there: the local
\* file, else the built-in text.
FallBack(r) == EndStage(r, "local", 0)

-----------------------------------------------------------------------------
StartTurn(r) ==
    /\ build[r] = "absent"
    /\ BuildGoto(r, "choose")
    /\ UNCHANGED <<remote, repoVars, gitVars, stage, source, version, floor, reasons>>

\* _fetch_remote_prompt up to its first git process: the directory is made
\* before anything is cloned into it.
Choose(r) ==
    /\ build[r] = "choose"
    /\ IF dir = "absent"
       THEN dir' = "cloning" /\ BuildGoto(r, "clone")
       ELSE BuildGoto(r, "fetch") /\ UNCHANGED dir
    /\ tracking' = IF dir = "absent" THEN remote ELSE tracking
    /\ floor' = [floor EXCEPT ![r][stage[r]] = remote]
    /\ UNCHANGED <<remote, work, outer, gitVars, stage, source, version, reasons>>

\* git clone ends well, with a version the remote had since it began; the turn
\* that started it may have been cancelled, others may have fetched already.
CloneDone ==
    /\ dir = "cloning"
    /\ dir' = "clone"
    /\ tracking' \in tracking .. remote
    /\ work' \in tracking .. remote
    /\ build' = [r \in Requests |-> IF build[r] = "clone" THEN "read" ELSE build[r]]
    /\ UNCHANGED <<remote, outer, gitVars, stage, source, version, floor, reasons>>

\* git clone fails and removes what it wrote, but not the directory, which it
\* found there.
CloneFails ==
    /\ dir = "cloning"
    /\ dir' = "empty"
    /\ \/ \E r \in Requests : build[r] = "clone" /\ FallBack(r) /\ Note(r, "failed")
       \/ /\ \A r \in Requests : build[r] # "clone"
          /\ UNCHANGED <<turnVars, reasons>>
    /\ UNCHANGED <<remote, tracking, work, outer, gitVars, floor>>

\* What git does in a directory that it does not take for a repository: it
\* takes the one around it, to whatever effect, or fails if there is none or it
\* has no such branch.
GitOutside(r, next, effects) ==
    /\ build[r] \in GitPlaces /\ git[r] = "none"
    /\ dir # "clone"
    /\ NoteClone(r)
    /\ \/ /\ Enclosed /\ outer' \in effects
          /\ BuildGoto(r, next)
          /\ UNCHANGED <<stage, source, version>>
       \/ FallBack(r) /\ UNCHANGED outer
    /\ UNCHANGED <<remote, dir, tracking, work, gitVars, floor>>

\* Where it does; a clone at work may pass for a repository already.
GitInside(r, place, command, v) ==
    /\ build[r] = place /\ git[r] = "none"
    /\ dir \in {"cloning", "clone"}
    /\ NoteClone(r)
    /\ git' = [git EXCEPT ![r] = command]
    /\ hand' = [hand EXCEPT ![r] = v]
    /\ UNCHANGED <<remote, repoVars, turnVars, floor>>

\* The command of r puts the version it has read over current, perhaps while
\* others work from a newer one that they asked for.
NoteOvertaken(r, current, more) ==
    reasons' = [q \in Requests |-> [s \in Stages |->
        IF build[q] \in Building /\ stage[q] = s
        THEN reasons[q][s] \cup
                 (IF hand[r] < current /\ hand[r] < floor[q][s]
                  THEN {"overtaken"} ELSE {}) \cup
                 (IF q # r THEN more ELSE {})
        ELSE reasons[q][s]]]

\* A git command ends; the turn may have left meanwhile.
GitEnds(r, place, next) ==
    /\ git' = [git EXCEPT ![r] = "none"]
    /\ IF build[r] = place THEN BuildGoto(r, next) ELSE UNCHANGED build
    /\ UNCHANGED <<hand, stage, source, version>>

AfterFetch == IF HasBranch THEN "checkout" ELSE "reset"

\* git fetch asks the remote for its refs.
FetchStart(r) == GitInside(r, "fetch", "fetching", remote)

FetchOutside(r) ==
    build[r] = "fetch" /\ GitOutside(r, AfterFetch, {outer})

\* Mutant: fetch does not move the remote-tracking branch.
FetchNothing(r) ==
    /\ git[r] = "fetching"
    /\ GitEnds(r, "fetch", AfterFetch)
    /\ UNCHANGED <<remote, repoVars, floor, reasons>>

\* It sets the remote-tracking branch to what it was told, whatever another
\* fetch has set it to since (the refspec of a clone forces the update).
FetchEnd(r) ==
    /\ git[r] = "fetching"
    /\ IF dir = "clone"
       THEN tracking' = hand[r] /\ NoteOvertaken(r, tracking, {})
       ELSE UNCHANGED <<tracking, reasons>>
    /\ GitEnds(r, "fetch", AfterFetch)
    /\ UNCHANGED <<remote, dir, work, outer, floor>>

\* With a branch configured only; the clone is on that branch already.
Checkout(r) ==
    /\ build[r] = "checkout"
    /\ \/ /\ dir \in {"cloning", "clone"}
          /\ NoteClone(r)
          /\ BuildGoto(r, "reset")
          /\ UNCHANGED <<remote, repoVars, gitVars, stage, source, version, floor>>
       \/ GitOutside(r, "reset", {outer, "overwritten"})

\* Mutant: git reset runs in the program's own directory.
ResetInParent(r) ==
    /\ build[r] = "reset"
    /\ outer' = "overwritten"
    /\ BuildGoto(r, "read")
    /\ UNCHANGED <<remote, dir, tracking, work, gitVars, stage, source, version,
                   floor, reasons>>

\* git reset --hard looks up the remote-tracking branch.
ResetStart(r) == GitInside(r, "reset", "resolved", tracking)

\* The reset in the repository around the directory, to its upstream.
ResetOutside(r) ==
    build[r] = "reset" /\ GitOutside(r, "read", {"overwritten"})

\* It takes the index lock; with it, it replaces the files that differ.
ResetWrites(r) ==
    /\ git[r] = "resolved"
    /\ \A q \in Requests : git[q] # "writing"
    /\ git' = [git EXCEPT ![r] = "writing"]
    /\ IF hand[r] # work
       THEN NoteOvertaken(r, work, {"rewritten"})
       ELSE UNCHANGED reasons
    /\ UNCHANGED <<remote, repoVars, hand, turnVars, floor>>

ResetEnd(r) ==
    /\ git[r] = "writing"
    /\ work' = IF dir = "clone" THEN hand[r] ELSE work
    /\ GitEnds(r, "reset", "read")
    /\ UNCHANGED <<remote, dir, tracking, outer, floor, reasons>>

\* A reset of another turn is replacing the files.
Replacing(q) == dir = "clone" /\ git[q] = "writing" /\ hand[q] # work

\* Mutant: the file is looked for beside the clone.
ReadBeside(r) ==
    /\ build[r] = "read"
    /\ FallBack(r)
    /\ UNCHANGED <<remote, repoVars, gitVars, floor, reasons>>

\* is_file and read_text: the version in the tree; while it is replaced, the
\* old one, the new one (be it cut off) or none.
Read(r) ==
    /\ build[r] = "read"
    /\ \/ dir = "clone" /\ EndStage(r, "remote", work)
       \/ \E q \in Requests : Replacing(q) /\ EndStage(r, "remote", hand[q])
       \/ \E v \in tracking .. remote : dir = "cloning" /\ EndStage(r, "remote", v)
       \/ FallBack(r) /\ (dir # "clone" \/ \E q \in Requests : Replacing(q))
    /\ UNCHANGED <<remote, repoVars, gitVars, floor, reasons>>

\* The file goes between the two; this exception nobody catches.
ReadRaises(r) ==
    /\ build[r] = "read"
    /\ \E q \in Requests : Replacing(q)
    /\ BuildGoto(r, "raised")
    /\ UNCHANGED <<remote, repoVars, gitVars, stage, source, version, floor, reasons>>

\* The network, or a lock that another turn's git holds.
GitFails(r) ==
    /\ build[r] \in GitPlaces
    /\ git[r] # "writing"
    /\ FallBack(r)
    /\ Note(r, "failed")
    /\ git' = [git EXCEPT ![r] = "none"]
    /\ UNCHANGED <<remote, repoVars, hand, floor>>

\* The client leaves; a git command of the turn goes on.
LeaveTurn(r) ==
    /\ build[r] \in Building
    /\ BuildGoto(r, "left")
    /\ UNCHANGED <<remote, repoVars, gitVars, stage, source, version, floor, reasons>>

Push ==
    /\ remote < MaxVersion
    /\ remote' = remote + 1
    /\ UNCHANGED <<repoVars, gitVars, turnVars, floor, reasons>>

-----------------------------------------------------------------------------
Fetch(r) == FetchStart(r) \/ FetchOutside(r) \/ FetchEnd(r)

Reset(r) == ResetStart(r) \/ ResetOutside(r) \/ ResetWrites(r) \/ ResetEnd(r)

BuildStep(r) == Choose(r) \/ Fetch(r) \/ Checkout(r) \/ Reset(r) \/ Read(r)

Next ==
    \/ \E r \in Requests :
           StartTurn(r) \/ BuildStep(r) \/ ReadRaises(r) \/ GitFails(r) \/ LeaveTurn(r)
    \/ CloneDone \/ CloneFails \/ Push

Spec == Init /\ [][Next]_vars
-----------------------------------------------------------------------------
(***************************************************************************)
(* Properties.                                                             *)
(***************************************************************************)

Met(r, s, kinds) == reasons[r][s] \cap kinds # {}

\* A remote prompt is older than the repository was when the turn asked for it
\* only if the turn met a clone that was not done, or if a git command of
\* another turn, begun before, put an older version in place during the stage:
\* everything else that turns do to the one clone leaves the prompt current.
ServedIsCurrent ==
    \A r \in Requests, s \in Stages :
        source[r][s] = "remote" /\ ~Met(r, s, {"unfinished", "overtaken"})
            => version[r][s] >= floor[r][s]

\* A turn goes without the remote prompt only if the network or a lock failed
\* git in that stage, if it met a clone that was not done, if the reset of
\* another turn began to replace the files during the stage (one that began
\* before is over by then, by git's index lock), or if a clone has failed for
\* good.
LocalHasReason ==
    \A r \in Requests, s \in Stages :
        source[r][s] = "local" =>
            Met(r, s, {"failed", "unfinished", "rewritten"}) \/ dir = "empty"

\* The program's own checkout is touched only if it encloses the directory and
\* a turn found the directory there without a finished clone in it.
OwnTreeUntouched ==
    outer # "own" =>
        /\ Enclosed
        /\ dir = "empty" \/ \E r \in Requests, s \in Stages : Met(r, s, {"unfinished"})

(***************************************************************************)
(* What the repository says of the program and the code does not do.       *)
(***************************************************************************)

\* "Clone if there is no local copy, else overwrite it with the remote one": a
\* stage has the remote prompt unless the network, a lock or a git command of
\* another turn comes in its way.
ReachableIsServed ==
    \A r \in Requests, s \in Stages :
        source[r][s] = "local" => Met(r, s, {"failed", "unfinished", "rewritten"})
=============================================================================
