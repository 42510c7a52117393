----------------------------- MODULE MergeSlot -----------------------------
(***************************************************************************)
(* The merge slot: an issue whose status says whether the slot is free and *)
(* whose metadata names its holder and the waiters                         *)
(* (internal/storage/merge_slot.go).  Acquire and release are transactions *)
(* under the file lock; creation, and the setting of other metadata keys   *)
(* (internal/storage/doltlite/slots.go), read first and write later.       *)
(*                                                                         *)
(* Calls of the second kind protect nothing against one another: Solitary  *)
(* says whether clients make them only while no other call is under way.   *)
(***************************************************************************)
EXTENDS Naturals, Sequences, FiniteSets

CONSTANTS
    Agents,
    Keys,      \* other keys of the slot's metadata
    None,
    Solitary   \* create, set and clear run alone

ASSUME SlotAssumption ==
    /\ None \notin Agents
    /\ Solitary \in BOOLEAN

VARIABLES
    slot,    \* the slot's issue
    lock,   \* who holds the file lock
    proc,   \* the call each agent is in
    holds,  \* the agents that were told they acquired and have not asked to release
    forced, \* the agents whose last hold was ended by a release that names no holder
    waits   \* the agents that were told they wait

slotVars == <<slot, lock, proc, holds, forced, waits>>
told == <<holds, forced, waits>>

Rows == [status: {"absent", "open", "in_progress"}, holder: Agents \cup {None},
         waiters: Seq(Agents), extra: SUBSET Keys]

Absent == [status |-> "absent", holder |-> None, waiters |-> <<>>, extra |-> {}]
NewRow == [Absent EXCEPT !.status = "open"]

\* MergeSlotResult lives outside the callback: what an attempt said stays said
\* when the callback runs again.
Procs == [pc: {"idle", "lock", "run", "commit", "answer"},
          op: {"none", "acquire", "release", "force", "create", "keys"},
          wait: BOOLEAN, acquired: BOOLEAN, waiting: BOOLEAN, seen: Rows, want: Rows]

Idle == [pc |-> "idle", op |-> "none", wait |-> FALSE, acquired |-> FALSE, waiting |-> FALSE,
         seen |-> Absent, want |-> Absent]

\* The file lock is held from the first attempt of a transaction to its end.
SlotTypeOK ==
    /\ slot \in Rows
    /\ lock \in Agents \cup {None}
    /\ proc \in [Agents -> Procs]
    /\ holds \in SUBSET Agents
    /\ forced \in SUBSET Agents
    /\ waits \in SUBSET Agents
    /\ \A a \in Agents : proc[a].pc \in {"run", "commit"} <=> lock = a

SlotInit ==
    /\ slot = Absent
    /\ lock = None
    /\ proc = [a \in Agents |-> Idle]
    /\ holds = {}
    /\ forced = {}
    /\ waits = {}

IsIdle(a) == proc[a].pc = "idle"
Elems(s) == {s[i] : i \in 1..Len(s)}

-----------------------------------------------------------------------------
(* The calls.                                                              *)

Unprotected == {"create", "keys"}

Ask(a, op, wait, seen) ==
    /\ IsIdle(a)
    /\ Solitary => \A b \in Agents : /\ proc[b].op \notin Unprotected
                                     /\ op \in Unprotected => IsIdle(b)
    /\ proc' = [proc EXCEPT ![a] = [Idle EXCEPT !.pc = "lock", !.op = op, !.wait = wait,
                                                !.seen = seen]]
    /\ UNCHANGED <<slot, lock, forced, waits>>

AskAcquire(a, wait) == Ask(a, "acquire", wait, Absent) /\ UNCHANGED holds

\* Whoever asks to release stops acting as the holder.
AskRelease(a) == Ask(a, "release", FALSE, Absent) /\ holds' = holds \ {a}

\* A release may name no holder.
AskForce(a) == Ask(a, "force", FALSE, Absent) /\ UNCHANGED holds

\* MergeSlotCreate looks first, and creates the slot if it saw none.
AskCreate(a) ==
    /\ slot.status = "absent"
    /\ Ask(a, "create", FALSE, Absent)
    /\ UNCHANGED holds

\* SlotSet and SlotClear read the whole metadata and write it back changed.
AskKeys(a, k) ==
    /\ slot.status # "absent"
    /\ \/ Ask(a, "keys", FALSE, [slot EXCEPT !.extra = @ \cup {k}])
       \/ k \in slot.extra /\ Ask(a, "keys", FALSE, [slot EXCEPT !.extra = @ \ {k}])
    /\ UNCHANGED holds

TakeLock(a) ==
    /\ proc[a].pc = "lock"
    /\ lock = None
    /\ lock' = a
    /\ proc' = [proc EXCEPT ![a].pc = "run"]
    /\ UNCHANGED <<slot, told>>

-----------------------------------------------------------------------------
(* The callback of a transaction, on the row as it finds it.               *)

Wanting(a, want) == proc' = [proc EXCEPT ![a].pc = "commit", ![a].want = want]

\* Mutant: the status of the slot is not looked at.
TakeIfPresent(a) ==
    /\ slot.status # "absent"
    /\ proc' = [proc EXCEPT ![a].pc = "commit", ![a].acquired = TRUE,
          ![a].want = [slot EXCEPT !.status = "in_progress", !.holder = a, !.extra = {}]]

\* The metadata is written anew: other keys of it are lost, the waiters stay.
TakeIfOpen(a) ==
    /\ slot.status = "open"
    /\ proc' = [proc EXCEPT ![a].pc = "commit", ![a].acquired = TRUE,
          ![a].want = [slot EXCEPT !.status = "in_progress", !.holder = a, !.extra = {}]]

\* Mutant: the queue is written anew with the caller alone.
StandAlone(a) ==
    /\ slot.status = "in_progress"
    /\ proc[a].wait
    /\ proc' = [proc EXCEPT ![a].pc = "commit", ![a].waiting = TRUE,
                            ![a].want = [slot EXCEPT !.waiters = <<a>>, !.extra = {}]]

StandInLine(a) ==
    LET queue == IF a \in Elems(slot.waiters) THEN slot.waiters ELSE Append(slot.waiters, a)
    IN  /\ slot.status = "in_progress"
        /\ proc[a].wait
        /\ proc' = [proc EXCEPT ![a].pc = "commit",
                                ![a].waiting = TRUE,
                                ![a].want = [slot EXCEPT !.waiters = queue, !.extra = {}]]

SeeHeld(a) ==
    /\ slot.status = "in_progress"
    /\ ~proc[a].wait
    /\ Wanting(a, slot)

\* Mutant: whoever asks may release.
LetAnyoneGo(a) ==
    /\ slot.status = "in_progress"
    /\ Wanting(a, [slot EXCEPT !.status = "open", !.holder = None, !.extra = {}])

LetGo(a) ==
    /\ slot.status = "in_progress"
    /\ proc[a].op = "force" \/ slot.holder = a
    /\ Wanting(a, [slot EXCEPT !.status = "open", !.holder = None, !.extra = {}])

\* A release that names no holder finds the slot open already.
NothingToRelease(a) ==
    /\ slot.status = "open"
    /\ proc[a].op = "force" \/ slot.holder = a
    /\ Wanting(a, slot)

\* INSERT OR REPLACE, whatever row is there by now.
InsertSlot(a) == Wanting(a, NewRow)

WriteMetadata(a) ==
    Wanting(a, [slot EXCEPT !.holder = proc[a].seen.holder, !.waiters = proc[a].seen.waiters,
                           !.extra = proc[a].seen.extra])

Run(a) ==
    /\ proc[a].pc = "run"
    /\ CASE proc[a].op = "acquire" -> TakeIfOpen(a) \/ StandInLine(a) \/ SeeHeld(a)
         [] proc[a].op \in {"release", "force"} -> LetGo(a) \/ NothingToRelease(a)
         [] proc[a].op = "create" -> InsertSlot(a)
         [] proc[a].op = "keys" -> WriteMetadata(a)
         [] OTHER -> FALSE
    /\ UNCHANGED <<slot, lock, told>>

-----------------------------------------------------------------------------
(* The end of the transaction.                                             *)

Commit(a) ==
    /\ proc[a].pc = "commit"
    /\ slot' = proc[a].want
    /\ lock' = None
    /\ proc' = [proc EXCEPT ![a] = [@ EXCEPT !.pc = "answer", !.wait = FALSE,
                                             !.seen = Absent, !.want = Absent]]
    /\ forced' = (IF proc[a].op = "force" THEN forced \cup (Agents \cap {slot.holder})
                  ELSE IF proc[a].acquired THEN forced \ {a} ELSE forced)
    /\ UNCHANGED <<holds, waits>>

\* A conflict: the callback runs again under the same lock.
Conflict(a) ==
    /\ proc[a].pc = "commit"
    /\ proc' = [proc EXCEPT ![a].pc = "run", ![a].want = Absent]
    /\ UNCHANGED <<slot, lock, told>>

\* An error: no slot, another holder, the last conflict.  Nothing is written.
Fail(a) ==
    /\ proc[a].pc \in {"run", "commit"}
    /\ lock' = None
    /\ proc' = [proc EXCEPT ![a] = Idle]
    /\ UNCHANGED <<slot, told>>

\* The version commit may still fail; then the caller gets an error.
Answer(a) ==
    /\ proc[a].pc = "answer"
    /\ \/ /\ holds' = IF proc[a].acquired THEN holds \cup {a} ELSE holds
          /\ waits' = IF proc[a].waiting THEN waits \cup {a} ELSE waits
       \/ UNCHANGED <<holds, waits>>
    /\ proc' = [proc EXCEPT ![a] = Idle]
    /\ UNCHANGED <<slot, lock, forced>>

Step(a) ==
    \/ \E wait \in BOOLEAN : AskAcquire(a, wait)
    \/ AskRelease(a)
    \/ AskForce(a)
    \/ AskCreate(a)
    \/ \E k \in Keys : AskKeys(a, k)
    \/ TakeLock(a)
    \/ Run(a)
    \/ Commit(a)
    \/ Conflict(a)
    \/ Fail(a)
    \/ Answer(a)

SlotNext == \E a \in Agents : Step(a)

SlotSpec == SlotInit /\ [][SlotNext]_slotVars

-----------------------------------------------------------------------------
(* Properties.                                                             *)

\* The agents that may act as holders: they were told so, have not asked to
\* release, and nobody has released the slot over their heads.
Holders == holds \ forced

\* A holder is the holder of the slot in the database, whatever other agents did
\* since it was answered, so that its release will be accepted (MergeSlotRelease).
HolderCanRelease == \A a \in Holders : slot.status = "in_progress" /\ slot.holder = a

\* An agent that was told it waits stands in the queue, and nobody stands in it
\* twice, although each call writes the whole metadata anew (MergeSlotAcquire).
WaitersKept ==
    /\ waits \subseteq Elems(slot.waiters)
    /\ \A i, j \in 1..Len(slot.waiters) : slot.waiters[i] = slot.waiters[j] => i = j

\* Two agents are never holders at the same time (merge_slot.go:80-82).
HoldersExclude == \A a, b \in Holders : a = b

\* The slot is a mutual exclusion lock on its holders (MergeSlotAcquire).
Slot == INSTANCE ExclusiveSlot WITH owners <- Holders
IsExclusiveSlot == Slot!Spec
=============================================================================
