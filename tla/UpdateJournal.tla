---------------------------- MODULE UpdateJournal ----------------------------
(***************************************************************************)
(* The durable update journal (SYSUPD0.JRN / SYSUPD1.JRN) and the update   *)
(* lease of system_update_engine.zig.                                      *)
(*                                                                         *)
(* Every SYSUPD command is a process of its own.  The journal lives in two *)
(* files; a write goes to the slot that is NOT the newest one, is trusted  *)
(* only after an exact readback, and may be cut short by a crash.  APPLY   *)
(* looks at the journal before it owns the lease and again under it;       *)
(* RESUME reads it only under the lease.                                   *)
(*                                                                         *)
(* A record is reduced to its JOURNAL_GENERATION and to whether its phase  *)
(* is terminal: what the transaction writes into it is the subject of      *)
(* UpdateTransaction, which uses the journal as the cell that this module  *)
(* shows it to be.                                                         *)
(***************************************************************************)
EXTENDS Naturals

CONSTANTS Procs,      \* processes that run SYSUPD commands
          Nobody,     \* the lease is free
          MaxGen      \* stands for maxInt(u64)

ASSUME JournalAssumption == /\ Nobody \notin Procs
                            /\ MaxGen \in Nat \ {0}

VARIABLES slots,      \* content of the two journal files
          lease,      \* owner of C:\R4OS\UPDATE\SYSLOCK, a live stream slot
          pc,         \* where each process is
          command,    \* the command each process runs
          seen,       \* the process's scan of the two slots
          base,       \* generation of the last journal it read or wrote
          draft,      \* the record it is writing, and to which slot
          acked       \* the newest record some process was told is durable

vars == <<slots, lease, pc, command, seen, base, draft, acked>>

-----------------------------------------------------------------------------
Slot == {0, 1}
Record == [gen : 1 .. MaxGen, open : BOOLEAN]
Missing == [gen |-> 0, open |-> FALSE]
Torn == [gen |-> 0, open |-> TRUE]       \* present, but does not parse
Unread == [gen |-> MaxGen + 1, open |-> FALSE]
Content == Record \cup {Missing, Torn}
NoDraft == [slot |-> 0, rec |-> Missing]

Valid(c) == c.gen > 0

Scanning == {"preflight", "scan"}
Holding == {"scan", "held", "write", "writing", "readback"}
Writing == {"write", "writing", "readback"}

TypeOK == /\ slots \in [Slot -> Content]
          /\ lease \in Procs \cup {Nobody}
          /\ pc \in [Procs -> Holding \cup {"idle", "preflight", "lease"}]
          /\ command \in [Procs -> {"apply", "resume"}]
          /\ seen \in [Procs -> [Slot -> Content \cup {Unread}]]
          /\ base \in [Procs -> 0 .. MaxGen]
          /\ draft \in [Procs -> [slot : Slot, rec : Record \cup {Missing}]]
          /\ acked \in Record \cup {Missing}

-----------------------------------------------------------------------------
(* selectNewestSlot over a scan: the higher of two valid generations, the  *)
(* only valid one, nothing at all, or no answer.  An invalid slot counts   *)
(* for nothing as long as the other one is valid.                          *)
Selectable(scan) == \/ \A s \in Slot : scan[s] = Missing
                    \/ /\ \E s \in Slot : Valid(scan[s])
                       /\ scan[0].gen # scan[1].gen

NewestSlot(scan) == IF scan[1].gen > scan[0].gen THEN 1 ELSE 0

Newest(scan) == IF \E s \in Slot : Valid(scan[s])
                THEN scan[NewestSlot(scan)]
                ELSE Missing

Init == /\ slots = [s \in Slot |-> Missing]
        /\ lease = Nobody
        /\ pc = [p \in Procs |-> "idle"]
        /\ command = [p \in Procs |-> "apply"]
        /\ seen = [p \in Procs |-> [s \in Slot |-> Unread]]
        /\ base = [p \in Procs |-> 0]
        /\ draft = [p \in Procs |-> NoDraft]
        /\ acked = Missing

(* A process ends: it returns or is killed.  Its stream slots, and with    *)
(* them the lease, are gone.                                               *)
Leave(p) == /\ pc' = [pc EXCEPT ![p] = "idle"]
            /\ lease' = IF lease = p THEN Nobody ELSE lease
            /\ seen' = [seen EXCEPT ![p] = [s \in Slot |-> Unread]]
            /\ base' = [base EXCEPT ![p] = 0]
            /\ draft' = [draft EXCEPT ![p] = NoDraft]
            /\ UNCHANGED command

(* applyCommand, acquireUpdateLock(ctx, false): the lease-free first look. *)
BeginApply(p) == /\ pc[p] = "idle"
                 /\ pc' = [pc EXCEPT ![p] = "preflight"]
                 /\ command' = [command EXCEPT ![p] = "apply"]
                 /\ UNCHANGED <<slots, lease, seen, base, draft, acked>>

(* resumeCommand, acquireUpdateLock(ctx, true).                            *)
BeginResume(p) == /\ pc[p] = "idle"
                  /\ pc' = [pc EXCEPT ![p] = "lease"]
                  /\ command' = [command EXCEPT ![p] = "resume"]
                  /\ UNCHANGED <<slots, lease, seen, base, draft, acked>>

(* readNewestValidJournalInto reads slot 0, then slot 1; another process   *)
(* may write between the two.                                              *)
ScanSlot(p, s) == /\ pc[p] \in Scanning
                  /\ seen[p][s] = Unread
                  /\ s = 1 => seen[p][0] # Unread
                  /\ seen' = [seen EXCEPT ![p][s] = slots[s]]
                  /\ UNCHANGED <<slots, lease, pc, command, base, draft, acked>>

Scanned(p) == \A s \in Slot : seen[p][s] # Unread

(* One read failed for good: the whole lookup is .io, it never falls back  *)
(* to the slot it could read.                                              *)
ScanFails(p) == /\ pc[p] \in Scanning
                /\ Leave(p)
                /\ UNCHANGED <<slots, acked>>

Preflight(p) == /\ pc[p] = "preflight"
                /\ Scanned(p)
                /\ IF Selectable(seen[p]) /\ ~Newest(seen[p]).open
                   THEN /\ pc' = [pc EXCEPT ![p] = "lease"]
                        /\ UNCHANGED <<lease, command, seen, base, draft>>
                   ELSE Leave(p)
                /\ UNCHANGED <<slots, acked>>

(* A slip a maintainer could make: trust the lease-free look.              *)
TakeLeaseKeepsScan(p) ==
    /\ pc[p] = "lease"
    /\ lease = Nobody
    /\ lease' = p
    /\ pc' = [pc EXCEPT ![p] = "scan"]
    /\ UNCHANGED <<slots, command, seen, base, draft, acked>>

(* acquireUpdateLease: a create-only stream on the lock path; the journal  *)
(* is read afresh under it.                                                *)
TakeLease(p) == /\ pc[p] = "lease"
                /\ lease = Nobody
                /\ lease' = p
                /\ pc' = [pc EXCEPT ![p] = "scan"]
                /\ seen' = [seen EXCEPT ![p] = [s \in Slot |-> Unread]]
                /\ UNCHANGED <<slots, command, base, draft, acked>>

LeaseRefused(p) == /\ pc[p] = "lease"
                   /\ Leave(p)
                   /\ UNCHANGED <<slots, acked>>

(* Under the lease: APPLY starts from nothing or from a terminal journal,  *)
(* RESUME only from one that is not terminal.                              *)
Admits(p) == /\ Selectable(seen[p])
             /\ command[p] = "apply" => ~Newest(seen[p]).open
             /\ command[p] = "resume" => Newest(seen[p]).open

Decide(p) == /\ pc[p] = "scan"
             /\ Scanned(p)
             /\ IF Admits(p)
                THEN /\ pc' = [pc EXCEPT ![p] = "held"]
                     /\ base' = [base EXCEPT ![p] = Newest(seen[p]).gen]
                     /\ UNCHANGED <<lease, command, seen, draft>>
                ELSE Leave(p)
             /\ UNCHANGED <<slots, acked>>

(* A slip: write over the newest slot instead of the other one.            *)
DraftOverNewest(p, o) ==
    /\ pc[p] = "held"
    /\ Selectable(slots)
    /\ Newest(slots).gen < MaxGen
    /\ pc' = [pc EXCEPT ![p] = "write"]
    /\ draft' = [draft EXCEPT ![p] =
                   [slot |-> NewestSlot(slots),
                    rec |-> [gen |-> Newest(slots).gen + 1, open |-> o]]]
    /\ UNCHANGED <<slots, lease, command, seen, base, acked>>

(* writeInactiveJournal, first half: look the newest slot up again, take   *)
(* the other one and the next generation; an exhausted counter or an       *)
(* undecidable lookup writes nothing.  A first journal goes to slot 0.     *)
Draft(p, o) ==
    /\ pc[p] = "held"
    /\ Selectable(slots)
    /\ Newest(slots).gen < MaxGen
    /\ pc' = [pc EXCEPT ![p] = "write"]
    /\ draft' = [draft EXCEPT ![p] =
                   [slot |-> IF Newest(slots) = Missing THEN 0
                             ELSE 1 - NewestSlot(slots),
                    rec |-> [gen |-> Newest(slots).gen + 1, open |-> o]]]
    /\ UNCHANGED <<slots, lease, command, seen, base, acked>>

(* fileWrite: the old content of the slot is gone before the new record    *)
(* is complete.                                                            *)
StartWrite(p) == /\ pc[p] = "write"
                 /\ pc' = [pc EXCEPT ![p] = "writing"]
                 /\ slots' = [slots EXCEPT ![draft[p].slot] = Torn]
                 /\ UNCHANGED <<lease, command, seen, base, draft, acked>>

FinishWrite(p) == /\ pc[p] = "writing"
                  /\ pc' = [pc EXCEPT ![p] = "readback"]
                  /\ slots' = [slots EXCEPT ![draft[p].slot] = draft[p].rec]
                  /\ UNCHANGED <<lease, command, seen, base, draft, acked>>

(* The call failed before or in the middle of the write.  Its result is    *)
(* ignored: a negative completion can still describe a durable write.      *)
WriteFails(p) == /\ pc[p] \in {"write", "writing"}
                 /\ pc' = [pc EXCEPT ![p] = "readback"]
                 /\ UNCHANGED <<slots, lease, command, seen, base, draft, acked>>

OnDisk(p) == slots[draft[p].slot] = draft[p].rec

(* After a terminal record the command is done; otherwise it goes on.      *)
Proceed(p) == IF draft[p].rec.open
              THEN /\ pc' = [pc EXCEPT ![p] = "held"]
                   /\ base' = [base EXCEPT ![p] = IF OnDisk(p) THEN draft[p].rec.gen
                                                  ELSE base[p]]
                   /\ draft' = [draft EXCEPT ![p] = NoDraft]
                   /\ UNCHANGED <<lease, command, seen>>
              ELSE Leave(p)

(* A slip: believe the completion code of the write.                       *)
TrustCompletion(p) == /\ pc[p] = "readback"
                      /\ acked' = draft[p].rec
                      /\ Proceed(p)
                      /\ UNCHANGED slots

(* Second half: only the exact record, read back, is durable.              *)
Readback(p) == /\ pc[p] = "readback"
               /\ OnDisk(p)
               /\ acked' = draft[p].rec
               /\ Proceed(p)
               /\ UNCHANGED slots

(* The readback failed or differs: writeInactiveJournal returns false.     *)
(* The record may be durable all the same.  Most callers return; the       *)
(* rollback paths that ignore the result go on.                            *)
ReadbackFails(p) == /\ pc[p] = "readback"
                    /\ \/ Proceed(p)
                       \/ Leave(p)
                    /\ UNCHANGED <<slots, acked>>

(* The command returns, or the process or the machine dies under it.       *)
End(p) == /\ pc[p] # "idle"
          /\ Leave(p)
          /\ UNCHANGED <<slots, acked>>

Next == \E p \in Procs :
           \/ BeginApply(p)
           \/ BeginResume(p)
           \/ \E s \in Slot : ScanSlot(p, s)
           \/ ScanFails(p)
           \/ Preflight(p)
           \/ TakeLease(p)
           \/ LeaseRefused(p)
           \/ Decide(p)
           \/ \E o \in BOOLEAN : Draft(p, o)
           \/ StartWrite(p)
           \/ FinishWrite(p)
           \/ WriteFails(p)
           \/ Readback(p)
           \/ ReadbackFails(p)
           \/ End(p)

Spec == Init /\ [][Next]_vars

-----------------------------------------------------------------------------
(* What a process was told is durable stays readable: later lookups that   *)
(* reach both files find it or a newer record, whatever was torn since.    *)
(* writeInactiveJournal: "never overwrite the other slot on ambiguity".    *)
AckedSurvives ==
    acked # Missing => /\ Selectable(slots)
                       /\ Newest(slots).gen >= acked.gen
                       /\ Newest(slots).gen = acked.gen => Newest(slots) = acked

(* Two valid slots never carry the same generation, which                  *)
(* selectNewestSlot would have to refuse as ambiguous.                     *)
NeverAmbiguous == Valid(slots[0]) => slots[0].gen # slots[1].gen

(* Whoever changes the newest record had read exactly the record it        *)
(* replaces, or had written it: no command continues from a stale copy,    *)
(* the race the comment in resumeTransaction tells of.                     *)
NoStaleContinuation ==
    [][Newest(slots') # Newest(slots) =>
         \E p \in Procs : /\ pc[p] = "writing"
                          /\ lease = p
                          /\ base[p] = Newest(slots).gen]_vars

(* The two files behave as one cell written atomically.                    *)
Cell == INSTANCE DurableCell WITH generation <- Newest(slots).gen,
                                  open <- Newest(slots).open
CellSpec == Cell!CellSpec
=============================================================================
