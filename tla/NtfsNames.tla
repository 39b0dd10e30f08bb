------------------------------ MODULE NtfsNames ------------------------------
(***************************************************************************)
(* How ntfs_volume.zig moves, publishes, creates and removes file names on *)
(* a device that may lose power, fail a request, or lose its answer.       *)
(*                                                                         *)
(* A name is an index entry of one directory: it refers to an object, an   *)
(* MFT record with its sequence number.  The record in turn carries its    *)
(* canonical $FILE_NAME.  A move publishes the new index entry before it   *)
(* detaches the old one, so for a while an object has two names of which   *)
(* one is canonical; replaceFileAtomic is two such moves.  Everything      *)
(* happens between setting the volume's dirty bit and clearing it.         *)
(*                                                                         *)
(* The device acknowledges writes before they are durable.  Next to the    *)
(* current content each sector has the set of contents that it may have    *)
(* after a loss of power: a write adds to the set, a flush that succeeds   *)
(* reduces it to the current content.                                      *)
(*                                                                         *)
(* Calls on one volume run one at a time.                                  *)
(***************************************************************************)
EXTENDS Naturals

CONSTANTS Names,       \* names in the directory
          Objects,     \* file objects: {record, sequence}
          None,        \* no object, or no name
          Placements,  \* the directories it starts from
          Workloads    \* which calls are made, and a bound on the failed
                       \* requests and losses of power that disturb them

Ops == {"replace", "publish", "rename", "delete", "create", "recover", "other"}

Call == [op : Ops, to : Names, from : Names, aside : Names]

ASSUME NamesAssumption ==
    /\ None \notin Names \cup Objects
    /\ Workloads \subseteq [calls : (SUBSET Call) \ {{}}, faults : Nat]
    /\ \A w \in Workloads : \A c \in w.calls :
          c.to # c.from /\ c.to # c.aside /\ c.from # c.aside
    /\ Placements \subseteq [Names -> Objects \cup {None}]
    /\ \A p \in Placements : \A m, n \in Names : p[m] = p[n] => m = n \/ p[m] = None

VARIABLES index,       \* the directory: object under each name
          canon,       \* canonical name in each record; None: record free
          dirty,       \* the dirty bit of $Volume
          mayIndex, mayCanon, mayDirty,    \* the same after a loss of power
          pc,          \* next device request of the running call
          call,        \* the running call, or the last one
          to, from,    \* names of the move that is under way
          obj,         \* the object it resolved
          more,        \* the second leg of a replacement is still to come
          answer,      \* what the last call returned
          faults,      \* failures so far
          faulty,      \* the running (or last) call met one
          before,      \* the directory at the start
          work         \* the calls and failures of this behaviour

live == <<index, canon, dirty>>
image == <<mayIndex, mayCanon, mayDirty>>
volume == <<live, image>>
frame == <<pc, call, to, from, obj, more, answer>>
counters == <<faults, faulty, before, work>>
vars == <<volume, frame, counters>>

Answers == {"none", "ok", "io", "not_found", "conflict", "exists", "unlinked"}
Labels == {"idle", "look", "leg", "mark", "markflush", "canon", "canonflush", "insert",
           "publish", "detach", "settle", "free", "freeflush", "drain", "clear",
           "clearflush"}

TypeOK == /\ index \in [Names -> Objects \cup {None}]
          /\ canon \in [Objects -> Names \cup {None}]
          /\ dirty \in BOOLEAN
          /\ mayIndex \in [Names -> SUBSET (Objects \cup {None})]
          /\ mayCanon \in [Objects -> SUBSET (Names \cup {None})]
          /\ mayDirty \in SUBSET BOOLEAN
          /\ pc \in Labels
          /\ work \in Workloads
          /\ call \in work.calls
          /\ to \in Names /\ from \in Names
          /\ obj \in Objects \cup {None}
          /\ more \in BOOLEAN
          /\ more => call.op = "replace" /\ to = call.aside /\ from = call.to
          /\ answer \in Answers
          /\ faults \in 0 .. work.faults
          /\ faulty \in BOOLEAN
          /\ before \in Placements

Init == /\ before \in Placements
        /\ index = before
        /\ canon = [o \in Objects |->
                      IF \E n \in Names : before[n] = o
                      THEN CHOOSE n \in Names : before[n] = o ELSE None]
        /\ dirty = FALSE
        /\ mayIndex = [n \in Names |-> {index[n]}]
        /\ mayCanon = [o \in Objects |-> {canon[o]}]
        /\ mayDirty = {FALSE}
        /\ pc = "idle"
        /\ work \in Workloads
        /\ call = CHOOSE c \in work.calls : TRUE
        /\ to = call.to /\ from = call.from
        /\ obj = None
        /\ more = FALSE
        /\ answer = "none"
        /\ faults = 0
        /\ faulty = FALSE

-----------------------------------------------------------------------------
(* Device requests.  A write is visible at once and durable later.         *)
WriteIndex(n, o) == /\ index' = [index EXCEPT ![n] = o]
                    /\ mayIndex' = [mayIndex EXCEPT ![n] = @ \cup {o}]
                    /\ UNCHANGED <<canon, dirty, mayCanon, mayDirty>>

WriteCanon(o, n) == /\ canon' = [canon EXCEPT ![o] = n]
                    /\ mayCanon' = [mayCanon EXCEPT ![o] = @ \cup {n}]
                    /\ UNCHANGED <<index, dirty, mayIndex, mayDirty>>

WriteDirty(b) == /\ dirty' = b
                 /\ mayDirty' = mayDirty \cup {b}
                 /\ UNCHANGED <<index, canon, mayIndex, mayCanon>>

deviceFlush == /\ mayIndex' = [n \in Names |-> {index[n]}]
               /\ mayCanon' = [o \in Objects |-> {canon[o]}]
               /\ mayDirty' = {dirty}
               /\ UNCHANGED live

Goto(label) == /\ pc' = label
               /\ UNCHANGED <<call, to, from, obj, more, answer, counters>>

Return(result) == /\ pc' = "idle"
                  /\ answer' = result
                  /\ more' = FALSE
                  /\ UNCHANGED <<call, to, from, obj, counters>>

-----------------------------------------------------------------------------
(* What the lookups at the start of a call tell it.                        *)
Live(o) == canon[o] # None
Resolves(n) == index[n] # None /\ canon[index[n]] = n   \* lookupInDirectoryStatus
Aliases(o) == {n \in Names : index[n] = o}

\* A slip: the object found under the destination name is not compared.
PublishCheckByName(t, s) ==
    CASE index[s] = None -> "not_found"
      [] index[s] # None /\ ~Live(index[s]) -> "io"
      [] OTHER -> "go"

(* publishFileCreateOnly: `t' is the destination of the move, `s' its      *)
(* source.  "go" is what it does when no check stops it.                   *)
PublishCheck(t, s) ==
    CASE index[t] # None /\ index[t] # index[s] -> "conflict"
      [] index[t] = None /\ index[s] = None -> "not_found"
      [] index[s] # None /\ ~Live(index[s]) -> "io"
      [] index[s] # None /\ Live(index[s]) /\ canon[index[s]] \notin {t, s} -> "conflict"
      [] OTHER -> "go"

(* inspectRenamePhase.                                                     *)
RenamePhase(t, s) ==
    LET o == IF index[s] # None THEN index[s] ELSE index[t]
    IN  CASE index[t] = None /\ index[s] = None -> "missing"
          [] o # None /\ ~Live(o) -> "io"
          [] index[t] # None /\ index[s] # None /\ index[t] # index[s] -> "conflict"
          [] canon[o] \notin {t, s} -> "io"
          [] index[t] = None -> IF canon[o] = s THEN "initial" ELSE "io"
          [] index[s] # None -> IF canon[o] = s THEN "alias_published"
                                                ELSE "canonical_rewritten"
          [] OTHER -> IF canon[o] = t THEN "complete" ELSE "io"

-----------------------------------------------------------------------------
(* createFile takes a record that nothing refers to; record and sequence   *)
(* make it an object of its own.  The volume has room for it.              *)
Unused(o) == /\ mayCanon[o] = {None}
             /\ \A n \in Names : o \notin mayIndex[n]

(* The lookups, one action per kind of call.                               *)
Begin == \E c \in work.calls :
            /\ pc = "idle"
            /\ c.op = "create" => \E o \in Objects : Unused(o)
            /\ pc' = IF c.op = "publish" THEN "leg" ELSE "look"
            /\ call' = c
            /\ to' = c.to /\ from' = c.from
            /\ obj' = None
            /\ more' = FALSE
            /\ answer' = "none"
            /\ faulty' = FALSE
            /\ UNCHANGED <<volume, faults, before, work>>

StartLeg(t, s, second) == /\ pc' = "leg"
                          /\ to' = t /\ from' = s
                          /\ more' = second
                          /\ UNCHANGED <<call, obj, answer, counters>>

WorkOn(o) == /\ pc' = "mark"
             /\ obj' = o
             /\ UNCHANGED <<call, to, from, more, answer, counters>>

\* A slip: the target is set aside without looking for a staged file.
LookReplaceNoStage ==
    /\ pc = "look" /\ call.op = "replace"
    /\ UNCHANGED volume
    /\ IF index[call.to] = None
       THEN StartLeg(call.to, call.from, FALSE)
       ELSE StartLeg(call.aside, call.to, TRUE)
\* A slip: a first leg that stopped after its alias is not recognised.
FirstLegOpenNoAlias(t, b) == b = None

(* The target can still be set aside: nothing is under the backup name, or *)
(* the target itself, which the first leg put there.                       *)
FirstLegOpen(t, b) == b \in {None, t}

(* replaceFileAtomic.  A missing stage next to a present target is taken   *)
(* for a replacement whose answer was lost.                                *)
LookReplace ==
    /\ pc = "look" /\ call.op = "replace"
    /\ UNCHANGED volume
    /\ LET t == index[call.to]
           s == index[call.from]
           b == index[call.aside]
       IN  \/ /\ \E o \in {t, s, b} \ {None} : ~Live(o)
              /\ Return("io")
           \/ /\ \A o \in {t, s, b} \ {None} : Live(o)
              /\ \/ s = None /\ t = None /\ Return("not_found")
                 \/ s = None /\ t # None /\ Goto("drain")
                 \/ s # None /\ t \in {None, s} /\ StartLeg(call.to, call.from, FALSE)
                 \/ /\ s # None /\ t \notin {None, s} /\ FirstLegOpen(t, b)
                    /\ StartLeg(call.aside, call.to, TRUE)
                 \/ /\ s # None /\ t \notin {None, s} /\ ~FirstLegOpen(t, b)
                    /\ Return("conflict")

LookLeg == /\ pc = "leg"
           /\ UNCHANGED volume
           /\ IF PublishCheck(to, from) = "go"
              THEN WorkOn(index[from])
              ELSE Return(PublishCheck(to, from))

(* renameEntry.                                                            *)
LookRename ==
    /\ pc = "look" /\ call.op = "rename"
    /\ UNCHANGED volume
    /\ LET phase == RenamePhase(to, from)
       IN  CASE phase = "missing" -> Return("not_found")
             [] phase = "conflict" -> Return("exists")
             [] phase = "io" -> Return("io")
             [] phase = "complete" -> IF dirty THEN WorkOn(index[to])
                                               ELSE Return("not_found")
             [] phase = "initial" -> WorkOn(index[from])
             [] OTHER -> IF dirty THEN WorkOn(index[from]) ELSE Return("io")

LookDelete == /\ pc = "look" /\ call.op = "delete"
              /\ UNCHANGED volume
              /\ IF index[from] = None THEN Return("not_found")
                 ELSE IF Resolves(from) THEN WorkOn(index[from]) ELSE Return("io")

LookCreate == /\ pc = "look" /\ call.op = "create"
              /\ UNCHANGED volume
              /\ \/ /\ index[to] # None
                    /\ Return(IF Resolves(to) THEN "exists" ELSE "io")
                 \/ /\ index[to] = None
                    /\ \E o \in Objects : Unused(o) /\ WorkOn(o)

(* deleteRecoveryEntryIfIdentity, called with the identity that the name   *)
(* has; with any other it changes nothing.                                 *)
LookRecover == /\ pc = "look" /\ call.op = "recover"
               /\ UNCHANGED volume
               /\ IF index[from] = None THEN Return("not_found")
                  ELSE IF Live(index[from]) THEN WorkOn(index[from]) ELSE Return("io")

(* Any operation on another object: an append, a createDirectory.          *)
LookOther == /\ pc = "look" /\ call.op = "other"
             /\ UNCHANGED volume
             /\ WorkOn(None)

-----------------------------------------------------------------------------
Moving == call.op \in {"replace", "publish"}

AfterMark ==
    CASE Moving -> IF canon[obj] # to THEN "canon"
                   ELSE IF index[to] = None THEN "insert" ELSE "detach"
      [] call.op = "rename" -> CASE RenamePhase(to, from) = "initial" -> "insert"
                                 [] RenamePhase(to, from) = "alias_published" -> "canon"
                                 [] RenamePhase(to, from) = "complete" -> "clear"
                                 [] OTHER -> "detach"
      [] call.op \in {"delete", "recover"} -> "detach"
      [] call.op = "create" -> "canon"
      [] OTHER -> "settle"

(* ensureDirtyDurable flushes a bit that it finds set; setDirty(true) does *)
(* not.                                                                    *)
Mark == /\ pc = "mark"
        /\ \/ ~dirty /\ WriteDirty(TRUE) /\ Goto("markflush")
           \/ dirty /\ Moving /\ UNCHANGED volume /\ Goto("markflush")
           \/ dirty /\ ~Moving /\ UNCHANGED volume /\ Goto(AfterMark)

MarkFlush == pc = "markflush" /\ deviceFlush /\ Goto(AfterMark)

(* The canonical name.  A move to a free name goes straight on to the      *)
(* index entry.                                                            *)
Canon == /\ pc = "canon"
         /\ WriteCanon(obj, to)
         /\ Goto(IF Moving /\ index[to] = None THEN "insert" ELSE "canonflush")

CanonFlush == /\ pc = "canonflush"
              /\ deviceFlush
              /\ Goto(IF call.op = "create" THEN "insert" ELSE "detach")

Insert == pc = "insert" /\ WriteIndex(to, obj) /\ Goto("publish")

\* A slip: the alias is not flushed before the old name goes.
PublishUnflushed == pc = "publish" /\ UNCHANGED volume /\ Goto("detach")

Publish == /\ pc = "publish"
           /\ deviceFlush
           /\ Goto(CASE Moving -> "detach"
                     [] call.op = "rename" -> "canon"
                     [] OTHER -> "clear")

Detach == pc = "detach" /\ WriteIndex(from, None) /\ Goto("settle")

\* A slip: the record is released before the removal of the name is durable.
SettleUnflushed == /\ pc = "settle"
                   /\ UNCHANGED volume
                   /\ Goto(IF call.op \in {"delete", "recover"} /\ Aliases(obj) = {}
                           THEN "free" ELSE "clear")

(* The object of a delete, and of a recovery that took its last name, is   *)
(* released.                                                               *)
Settle == /\ pc = "settle"
          /\ deviceFlush
          /\ Goto(IF call.op \in {"delete", "recover"} /\ Aliases(obj) = {}
                  THEN "free" ELSE "clear")

Free == pc = "free" /\ WriteCanon(obj, None) /\ Goto("freeflush")

FreeFlush == pc = "freeflush" /\ deviceFlush /\ Goto("clear")

\* A slip: the answer that was lost is taken for durable.
DrainUnflushed == pc = "drain" /\ UNCHANGED volume /\ Goto("clear")

Drain == pc = "drain" /\ deviceFlush /\ Goto("clear")    \* finishDeferred

\* A slip: the replacement answers after its first leg.
FinishFirstLeg == Return(IF call.op = "recover" /\ Live(obj) THEN "unlinked" ELSE "ok")

(* The bracket is closed: the second leg, or the answer.                   *)
Finish == IF more THEN StartLeg(call.to, call.from, FALSE)
          ELSE Return(IF call.op = "recover" /\ Live(obj) THEN "unlinked" ELSE "ok")

Clear == /\ pc = "clear"
         /\ \/ dirty /\ WriteDirty(FALSE) /\ Goto("clearflush")
            \/ ~dirty /\ UNCHANGED volume /\ Finish

ClearFlush == pc = "clearflush" /\ deviceFlush /\ Finish

-----------------------------------------------------------------------------
(* Faults: a request fails, having had its effect or not; power is lost.   *)
Fault == faults < work.faults /\ faults' = faults + 1 /\ UNCHANGED <<before, work>>

Abandon == /\ Fault
           /\ pc' = "idle" /\ answer' = "io" /\ more' = FALSE /\ faulty' = TRUE
           /\ UNCHANGED <<call, to, from, obj>>

FailWrite == /\ Abandon
             /\ \/ pc = "mark" /\ ~dirty /\ WriteDirty(TRUE)
                \/ pc = "canon" /\ WriteCanon(obj, to)
                \/ pc = "insert" /\ WriteIndex(to, obj)
                \/ pc = "detach" /\ WriteIndex(from, None)
                \/ pc = "free" /\ WriteCanon(obj, None)
                \/ pc = "clear" /\ dirty /\ WriteDirty(FALSE)

(* A flush or a read that fails, a write that does not reach the device.   *)
FailWithoutEffect == /\ Abandon
                     /\ pc # "idle"
                     /\ UNCHANGED volume

PowerLoss == /\ Fault
             /\ index' \in {f \in [Names -> Objects \cup {None}] :
                               \A n \in Names : f[n] \in mayIndex[n]}
             /\ canon' \in {f \in [Objects -> Names \cup {None}] :
                               \A o \in Objects : f[o] \in mayCanon[o]}
             /\ dirty' \in mayDirty
             /\ mayIndex' = [n \in Names |-> {index'[n]}]
             /\ mayCanon' = [o \in Objects |-> {canon'[o]}]
             /\ mayDirty' = {dirty'}
             /\ pc' = "idle" /\ answer' = "none" /\ more' = FALSE /\ faulty' = FALSE
             /\ UNCHANGED <<call, to, from, obj>>

Look == \/ LookReplace \/ LookLeg \/ LookRename \/ LookDelete
        \/ LookCreate \/ LookRecover \/ LookOther

Request == \/ Mark \/ MarkFlush \/ Canon \/ CanonFlush \/ Insert \/ Publish
           \/ Detach \/ Settle \/ Free \/ FreeFlush \/ Drain \/ Clear \/ ClearFlush

Next == Begin \/ Look \/ Request \/ FailWrite \/ FailWithoutEffect \/ PowerLoss

Spec == Init /\ [][Next]_vars

-----------------------------------------------------------------------------
(* Properties.  Those of the volume speak of every content it may have     *)
(* after a loss of power.                                                  *)
Only(ops) == \A c \in work.calls : c.op \in ops
OnlyMoves == Only({"replace", "publish", "other"})
Replacing == {c \in work.calls : c.op = "replace"}

(* One replacement is under way: every move is of the same staged file to  *)
(* the same target, set aside under the same name.  Two different ones can *)
(* undo each other, and the volume cannot tell.                            *)
SameMove(c, d) == c.to = d.to /\ c.from = d.from /\ c.aside = d.aside
OneMove == \A c, d \in work.calls : {c.op, d.op} \subseteq {"replace", "publish"} => SameMove(c, d)
Alone == OnlyMoves /\ OneMove
Holds(n, o) == mayIndex[n] = {o}           \* whatever happens, n names o

(* replaceFileAtomic and publishFileCreateOnly publish before they detach: *)
(* no object that was in the directory is ever without a name that         *)
(* survives a loss of power, wherever the moves and their repetitions are  *)
(* interrupted.                                                            *)
Named == \A n \in Names : before[n] # None => \E m \in Names : Holds(m, before[n])
NeverNameless == OnlyMoves => Named

(* The target is never torn or lost: it has the old or the new object, or  *)
(* it is absent and both are safe, the old one under the backup name and   *)
(* the new one under the stage name.                                       *)
TargetOldOrNew ==
    Alone => \A c \in Replacing : before[c.to] # None /\ before[c.from] # None =>
        \/ mayIndex[c.to] \subseteq {before[c.to], before[c.from]}
        \/ Holds(c.aside, before[c.to]) /\ Holds(c.from, before[c.from])

(* Repeating the same replacement completes it: a call that met no fault   *)
(* is refused only when a foreign backup stands next to a target, or there *)
(* was never anything to install.                                          *)
ReplayCompletes ==
    Alone /\ pc = "idle" /\ call.op = "replace" /\ ~faulty /\ answer # "none" =>
        \/ answer = "ok"
        \/ answer = "conflict" /\ before[call.to] # None /\ before[call.aside] # None
        \/ answer = "not_found" /\ before[call.to] = None /\ before[call.from] = None

(* An answer of ok is durable: the target is the staged file, the stage    *)
(* name is gone, and the old target, if there was one, is the backup.      *)
OkMeansReplaced ==
    Alone /\ pc = "idle" /\ call.op = "replace" /\ answer = "ok" /\ before[call.from] # None =>
        /\ Holds(call.to, before[call.from])
        /\ Holds(call.from, None)
        /\ before[call.to] # None => Holds(call.aside, before[call.to])

(* A volume that can come up clean is complete: every object has exactly   *)
(* the one name that its record has, and no record is in use without one.  *)
Stored(o) == \E n \in Names : /\ mayCanon[o] = {n}
                              /\ Holds(n, o)
                              /\ \A m \in Names \ {n} : o \notin mayIndex[m]
CleanMeansComplete ==
    OneMove /\ Only({"replace", "publish"}) /\ FALSE \in mayDirty =>
        \A o \in Objects : Stored(o) \/ Unused(o)

(* No name ever refers to a released record: releaseFileObjectLocked       *)
(* removes the name durably first, createFile stores the record first.     *)
NoImageDangles == \A n \in Names : \A o \in mayIndex[n] \ {None} : None \notin mayCanon[o]

(* What the comment of replaceFileAtomic says of a crash between its legs. *)
BetweenLegsDirty ==
    \A c \in Replacing :
        /\ before[c.to] # None /\ before[c.from] # None
        /\ Holds(c.aside, before[c.to]) /\ Holds(c.to, None)
        => mayDirty = {TRUE}

(* What the dirty flag is for: a record in use that no name refers to is   *)
(* never found on a clean volume.                                          *)
DirtyTellsOrphans ==
    FALSE \in mayDirty => \A o \in Objects : Unused(o) \/ \E n \in Names : Holds(n, o)

(* What the comment of renameEntry says: the destination alias is durable  *)
(* before the source alias is detached.                                    *)
RenameAliasFirst == pc = "settle" /\ call.op = "rename" => Holds(to, obj)

(* What the comment of renameLocked says: each phase is replayable, so a   *)
(* rename that met no fault is never refused with an I/O error.            *)
RenameReplays == pc = "idle" /\ call.op = "rename" /\ answer = "io" => faulty

-----------------------------------------------------------------------------
(* As a whole, a replacement moves whole objects, in one order.  An object *)
(* is where its durable name is; when it has two, where it is going.       *)
Replacement == CHOOSE c \in UNION {w.calls : w \in Workloads} : c.op = "replace"
Rank(n) == CASE n = Replacement.aside -> 0 [] n = Replacement.to -> 1 [] OTHER -> 2
home == [o \in {before[n] : n \in Names} \ {None} |->
            IF \A n \in Names : ~Holds(n, o) THEN None
            ELSE CHOOSE n \in Names : /\ Holds(n, o)
                                      /\ \A m \in Names : Holds(m, o) => Rank(n) <= Rank(m)]

Whole == INSTANCE AtomicReplace WITH Target <- Replacement.to,
                                     Stage <- Replacement.from,
                                     Backup <- Replacement.aside

(* replaceFileAtomic implements it, through faults and repetitions.        *)
Whose == Alone /\ \E c \in Replacing : SameMove(c, Replacement)
ReplaceSpec == /\ Whose => Whole!MoveInit
               /\ [][Whose => Whole!MoveNext]_home
=============================================================================
