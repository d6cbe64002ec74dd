----------------------------- MODULE SessionStore -----------------------------
(***************************************************************************)
(* The store of one session file (rust/src/session/mod.rs): create, open,  *)
(* append, close and drop, down to torn lines.  A transaction is          *)
(* one line; which ones the reducer accepts is a choice (see ReducerLog).  *)
(*                                                                         *)
(* One process at a time has the file (docs/session-design.md:518); it may *)
(* hold several handles, and clones of each.  A write may stop after any   *)
(* byte: the process dies, or the caller gets an error.                    *)
(***************************************************************************)
EXTENDS Naturals, FiniteSets, SequencesExt

CONSTANTS
  Txn,            (* the transactions callers may append                   *)
  Facts,          (* how many facts each of them has                       *)
  Handle,         (* the handles a process may open on the file            *)
  MaxClones,      (* bound: references to one handle at once               *)
  Crashes,        (* bound: how often the process may die                  *)
  MaxUnits        (* bound: the length up to which a write may stop short  *)

ASSUME FactsAssumption == Facts \in [Txn -> Nat \ {0}]
ASSUME CrashesAssumption == Crashes \in Nat

VARIABLES
  file,           (* the bytes on disk; << >> when there is no file        *)
  writers,        (* the registry WRITERS has the path                     *)
  handle,         (* the StoreInner of each handle, and its clones         *)
  acked,          (* history: the log as of the last append that resolved  *)
  spoiled,        (* history: a whole line was written behind a torn one   *)
  crashes

vars == <<file, writers, handle, acked, spoiled, crashes>>

-----------------------------------------------------------------------------
(* A line is its text and a line feed.  What a write that stops leaves of   *)
(* it: nothing, a part of the text, or all of the text.                     *)

LF == [kind |-> "lf"]
Hole == [kind |-> "hole"]
Part == [kind |-> "part"]
Header == [kind |-> "header"]
Text(t, seq) == [kind |-> "facts", txn |-> t, seq |-> seq]

Unit ==
  {LF, Hole, Part, Header} \cup [kind : {"facts"}, txn : Txn, seq : Nat \ {0}]

Torn(line) == {<< >>, <<Part>>, <<line[1]>>}

HeaderLine == <<Header, LF>>

(* The line append_locked makes: its first fact gets the next number.       *)
Line(t, seq) == <<Text(t, seq), LF>>

Cut(units, n) == SubSeq(units, 1, n)

(* What a write leaves when the cursor of the file is at pos.               *)
WriteAt(units, pos, new) ==
  LET end == pos + Len(new)
      len == IF end > Len(units) THEN end ELSE Len(units)
  IN  [i \in 1..len |->
         IF i \in pos + 1..end THEN new[i - pos]
         ELSE IF i \in DOMAIN units THEN units[i] ELSE Hole]

-----------------------------------------------------------------------------
(* Reading (reduce_session): what follows the last line feed is torn; every *)
(* line before it must be the header or a transaction with the next number. *)

(* A bug: a tail without a line feed is taken for a line.                   *)
UnrepairedLength(units) == Len(units)

RepairedLength(units) ==
  LET feeds == {i \in DOMAIN units : units[i] = LF}
  IN  IF feeds = {} THEN 0 ELSE CHOOSE i \in feeds : \A j \in feeds : j <= i

(* The number after the facts of a line.                                    *)
SeqAfter(text) == IF text = Header THEN 1 ELSE text.seq + Facts[text.txn]

IsSession(units) ==
  /\ Len(units) > 0 /\ Len(units) % 2 = 0
  /\ units[1] = Header
  /\ \A k \in 1..Len(units) \div 2 :
       /\ units[2 * k] = LF
       /\ k > 1 => /\ units[2 * k - 1].kind = "facts"
                   /\ units[2 * k - 1].seq = SeqAfter(units[2 * k - 3])

Read(bytes) ==
  LET units == Cut(bytes, RepairedLength(bytes))
      len == Len(units) \div 2
  IN  IF IsSession(units)
      THEN [ok |-> TRUE, log |-> [k \in 1..len - 1 |-> units[2 * k + 1].txn],
            nextSeq |-> SeqAfter(units[2 * len - 1])]
      ELSE [ok |-> FALSE, log |-> << >>, nextSeq |-> 1]

-----------------------------------------------------------------------------
(* Handles *)

NoHandle ==
  [status |-> "none", bytes |-> << >>, pos |-> 0, nextSeq |-> 1,
   clones |-> 0, dropping |-> 0]

(* A handle as create_at and open return it.                                *)
Opened(bytes) ==
  [status |-> "open", bytes |-> bytes, pos |-> Len(bytes),
   nextSeq |-> Read(bytes).nextSeq, clones |-> 1, dropping |-> 0]

HandleState ==
  [status : {"none", "opening", "open", "closed", "dropped"}, bytes : Seq(Unit),
   pos : Nat, nextSeq : Nat \ {0}, clones : Nat, dropping : Nat]

(* The handle may write to the file, now or when its open has finished.     *)
Live(h) == handle[h].status \in {"opening", "open"}

Init ==
  /\ file = << >>
  /\ writers = FALSE
  /\ handle = [h \in Handle |-> NoHandle]
  /\ acked = << >>
  /\ spoiled = FALSE
  /\ crashes = 0

(* create_at.  The path is new, so the insertion is not checked; a write    *)
(* that fails removes the file, and nothing has changed.                    *)
Create(h) ==
  /\ file = << >>
  /\ handle[h] = NoHandle
  /\ file' = HeaderLine
  /\ writers' = TRUE
  /\ handle' = [handle EXCEPT ![h] = Opened(HeaderLine)]
  /\ UNCHANGED <<acked, spoiled, crashes>>

(* open, up to the registration of the path.                                *)
OpenRegister(h) ==
  /\ file # << >>
  /\ handle[h] = NoHandle
  /\ ~writers
  /\ writers' = TRUE
  /\ handle' = [handle EXCEPT ![h].status = "opening"]
  /\ UNCHANGED <<file, acked, spoiled, crashes>>

(* A bug: the torn tail stays in the file.                                  *)
OpenReadUncut(h) ==
  /\ handle[h].status = "opening"
  /\ Read(file).ok
  /\ handle' = [handle EXCEPT ![h] = Opened(Cut(file, RepairedLength(file)))]
  /\ UNCHANGED <<file, writers, acked, spoiled, crashes>>

(* The rest of open: read, reduce, cut the torn tail, go to the end.        *)
OpenRead(h) ==
  /\ handle[h].status = "opening"
  /\ Read(file).ok
  /\ file' = Cut(file, RepairedLength(file))
  /\ handle' = [handle EXCEPT ![h] = Opened(file')]
  /\ UNCHANGED <<writers, acked, spoiled, crashes>>

(* The file does not reduce, or a call to the system fails, before the tail *)
(* is cut or after it: the path is free again.                              *)
OpenFails(h) ==
  /\ handle[h].status = "opening"
  /\ \/ file' = file
     \/ Read(file).ok /\ file' = Cut(file, RepairedLength(file))
  /\ writers' = FALSE
  /\ handle' = [handle EXCEPT ![h] = NoHandle]
  /\ UNCHANGED <<acked, spoiled, crashes>>

MayAppend(h) == handle[h].status = "open" /\ handle[h].clones > 0

(* Every transaction is appended at most once: it stands for its content.   *)
Unwritten(t) == \A i \in DOMAIN file : file[i].kind = "facts" => file[i].txn # t

(* A write of this handle stopped short: its cursor is behind what is torn. *)
(* The code does not look, and most callers go on (lib.rs:1731).            *)
Behind(h) == handle[h].pos # Len(handle[h].bytes)

(* append_locked, all of it under the lock: the line is on disk, and the    *)
(* memory of the store follows.                                             *)
AppendCommits(h, t) ==
  /\ MayAppend(h) /\ Unwritten(t)
  /\ LET line == Line(t, handle[h].nextSeq)
         bytes == handle[h].bytes \o line
     IN  /\ file' = WriteAt(file, handle[h].pos, line)
         /\ handle' = [handle EXCEPT ![h].bytes = bytes,
                                     ![h].pos = @ + Len(line),
                                     ![h].nextSeq = @ + Facts[t]]
         /\ acked' = Read(bytes).log
  /\ spoiled' = (spoiled \/ Behind(h))
  /\ UNCHANGED <<writers, crashes>>

(* write_all fails in the middle: the part is on disk and the cursor is     *)
(* behind it, the memory has not changed, and the caller gets the error.    *)
AppendFails(h, t) ==
  /\ MayAppend(h) /\ Unwritten(t) /\ Len(file) < MaxUnits
  /\ \E part \in Torn(Line(t, handle[h].nextSeq)) :
       /\ file' = WriteAt(file, handle[h].pos, part)
       /\ handle' = [handle EXCEPT ![h].pos = @ + Len(part)]
  /\ UNCHANGED <<writers, acked, spoiled, crashes>>

(* Nobody reads or writes the StoreInner after that: its fields are reset   *)
(* here for want of a meaning.                                              *)
Retired(h, status) ==
  [status |-> status, bytes |-> << >>, pos |-> 0, nextSeq |-> 1,
   clones |-> handle[h].clones, dropping |-> handle[h].dropping]

Close(h) ==
  /\ handle[h].status = "open" /\ handle[h].clones > 0
  /\ handle' = [handle EXCEPT ![h] = Retired(h, "closed")]
  /\ writers' = FALSE
  /\ UNCHANGED <<file, acked, spoiled, crashes>>

Clone(h) ==
  /\ handle[h].clones > 0
  /\ handle[h].clones + handle[h].dropping < MaxClones
  /\ handle' = [handle EXCEPT ![h].clones = @ + 1]
  /\ UNCHANGED <<file, writers, acked, spoiled, crashes>>

(* A bug: a handle that is closed leaves the registry a second time.        *)
DropAlways(h) ==
  LET last == handle[h].clones + handle[h].dropping = 1
      inner == IF last THEN Retired(h, "dropped") ELSE handle[h]
  IN  /\ handle[h].clones > 0
      /\ handle' = [handle EXCEPT ![h] =
                      [inner EXCEPT !.clones = @ - 1, !.dropping = @ + 1]]
      /\ writers' = (writers /\ ~last)
      /\ UNCHANGED <<file, acked, spoiled, crashes>>

(* Drop::drop looks at the count of references, which still includes this   *)
(* one, and at `closed`; the reference itself goes afterwards.              *)
Drop(h) ==
  LET last == handle[h].clones + handle[h].dropping = 1
              /\ handle[h].status = "open"
      inner == IF last THEN Retired(h, "dropped") ELSE handle[h]
  IN  /\ handle[h].clones > 0
      /\ handle' = [handle EXCEPT ![h] =
                      [inner EXCEPT !.clones = @ - 1, !.dropping = @ + 1]]
      /\ writers' = (writers /\ ~last)
      /\ UNCHANGED <<file, acked, spoiled, crashes>>

(* The reference goes, and with the last one the StoreInner and its file.   *)
Release(h) ==
  /\ handle[h].dropping > 0
  /\ handle' = [handle EXCEPT ![h] =
                  IF @.clones + @.dropping = 1 THEN NoHandle
                  ELSE [handle[h] EXCEPT !.dropping = @ - 1]]
  /\ UNCHANGED <<file, writers, acked, spoiled, crashes>>

Dies ==
  /\ crashes < Crashes
  /\ crashes' = crashes + 1
  /\ writers' = FALSE
  /\ handle' = [h \in Handle |-> NoHandle]

(* The process dies between two calls, or in one, with a part of the header *)
(* or of a line, or all of it, handed to the system.                        *)
Crash == Dies /\ UNCHANGED <<file, acked, spoiled>>

CrashInCreate ==
  /\ file = << >>
  /\ Dies
  /\ \E part \in Torn(HeaderLine) \cup {HeaderLine} : file' = part
  /\ UNCHANGED <<acked, spoiled>>

CrashInAppend(h, t) ==
  /\ MayAppend(h) /\ Unwritten(t) /\ Len(file) < MaxUnits
  /\ Dies
  /\ LET line == Line(t, handle[h].nextSeq)
     IN  \E part \in Torn(line) \cup {line} :
           /\ file' = WriteAt(file, handle[h].pos, part)
           /\ spoiled' = (spoiled \/ (part = line /\ Behind(h)))
  /\ UNCHANGED acked

Next ==
  \/ \E h \in Handle :
       \/ Create(h) \/ OpenRegister(h) \/ OpenRead(h) \/ OpenFails(h)
       \/ Close(h) \/ Clone(h) \/ Drop(h) \/ Release(h)
       \/ \E t \in Txn :
            AppendCommits(h, t) \/ AppendFails(h, t) \/ CrashInAppend(h, t)
  \/ Crash \/ CrashInCreate

Spec == Init /\ [][Next]_vars

-----------------------------------------------------------------------------
(* Properties *)

TypeOK ==
  /\ file \in Seq(Unit)
  /\ writers \in BOOLEAN
  /\ handle \in [Handle -> HandleState]
  /\ acked \in Seq(Txn)
  /\ spoiled \in BOOLEAN
  /\ crashes \in 0..Crashes

(* At most one handle of a process may write to the file, however opens,    *)
(* closes and drops of handles and of their clones fall.                    *)
SoleWriter ==
  \A g, h \in Handle : Live(g) /\ Live(h) => g = h

(* What the store has in memory is what a reader of the file would find:    *)
(* the same log, the next number of a fact, and the cursor at its end, also *)
(* behind a torn line, until a whole line is written behind that one.       *)
MemoryIsFile ==
  ~spoiled =>
    \A h \in Handle : handle[h].status = "open" =>
      /\ IsPrefix(handle[h].bytes, file) /\ handle[h].pos = Len(file)
      /\ Read(file) = Read(handle[h].bytes) /\ Read(file).ok
      /\ handle[h].nextSeq = Read(file).nextSeq

(* docs/session-design.md:569: a transaction whose append has resolved is   *)
(* in the file when it is opened again; a torn append is discarded.         *)
AckedIsKept == IsPrefix(acked, Read(file).log)

(* The store implements the log it promises; the log is damaged when a      *)
(* whole line is written behind a torn one.                                 *)
Log == INSTANCE DurableLog
         WITH log <- Read(file).log, accepted <- acked, damaged <- spoiled
ImplementsLog == Log!Spec

===============================================================================
