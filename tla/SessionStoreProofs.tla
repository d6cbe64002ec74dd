------------------------- MODULE SessionStoreProofs -------------------------
(***************************************************************************)
(* Proofs about SessionStore, for every choice of its constants.           *)
(***************************************************************************)
EXTENDS SessionStore, SequenceTheorems, WellFoundedInduction, TLAPS

Below == {ss \in Nat \X Nat : ss[1] < ss[2]}

(* The numbers are well founded.                                            *)
LEMMA BelowWellFounded == IsWellFoundedOn(Below, Nat)
BY NatLessThanWellFounded DEF OpToRel, Below

(* A set of numbers that has an upper bound has a greatest.                 *)
LEMMA Greatest ==
  ASSUME NEW n \in Nat, NEW S \in SUBSET (1..n), S # {}
  PROVE  \E i \in S : \A j \in S : j <= i
<1> DEFINE Over == {m \in Nat : \E i \in S : m = n - i}
<1>1. Over \subseteq Nat
  OBVIOUS
<1>2. Over # {}
  <2>1. PICK i \in S : TRUE
    OBVIOUS
  <2>2. n - i \in Over
    OBVIOUS
  <2> QED BY <2>2
<1>3. PICK m \in Over : \A k \in Over : ~ (<<k, m>> \in Below)
  <2> HIDE DEF Over
  <2> QED BY <1>1, <1>2, BelowWellFounded, WFMin
<1>4. PICK i \in S : m = n - i
  OBVIOUS
<1>5. ASSUME NEW j \in S PROVE j <= i
  <2>1. n - j \in Over
    OBVIOUS
  <2>2. ~ (n - j < m)
    BY <1>1, <1>3, <2>1 DEF Below
  <2> QED BY <1>4, <2>2
<1> QED BY <1>4, <1>5

(* RepairedLength finds the last line feed.                                 *)
LEMMA LastFeed ==
  ASSUME NEW f \in Seq(Unit)
  PROVE  LET n == RepairedLength(f)
         IN  /\ n \in 0..Len(f)
             /\ n > 0 => f[n] = LF
             /\ \A j \in n + 1..Len(f) : f[j] # LF
<1> DEFINE feeds == {i \in DOMAIN f : f[i] = LF}
<1>1. DOMAIN f = 1..Len(f) /\ Len(f) \in Nat
  OBVIOUS
<1>2. CASE feeds = {}
  <2>1. RepairedLength(f) = 0
    BY <1>2 DEF RepairedLength
  <2> QED BY <1>1, <1>2, <2>1
<1>3. CASE feeds # {}
  <2>1. \E i \in feeds : \A j \in feeds : j <= i
    BY <1>1, <1>3, Greatest
  <2>2. PICK n : n \in feeds /\ (\A j \in feeds : j <= n) /\ RepairedLength(f) = n
    BY <1>3, <2>1, Zenon DEF RepairedLength
  <2> QED BY <1>1, <2>2
<1> QED BY <1>2, <1>3

LEMMA Cuts ==
  ASSUME NEW f \in Seq(Unit), NEW n \in 0..Len(f)
  PROVE  /\ Cut(f, n) \in Seq(Unit)
         /\ Len(Cut(f, n)) = n
         /\ \A i \in 1..n : Cut(f, n)[i] = f[i]
         /\ n = Len(f) => Cut(f, n) = f
BY DEF Cut

-----------------------------------------------------------------------------
(* Whole files: a header and transactions with the right numbers            *)

Whole(f) == f \in Seq(Unit) /\ IsSession(f)

FactText == [kind : {"facts"}, txn : Txn, seq : Nat \ {0}]

LastText(f) == f[Len(f) - 1]

(* The lines of a whole file.                                               *)
LEMMA Lines ==
  ASSUME NEW f, Whole(f)
  PROVE  \E m \in Nat \ {0} :
           /\ Len(f) = 2 * m /\ Len(f) \div 2 = m
           /\ \A k \in 1..m :
                /\ f[2 * k] = LF
                /\ k = 1 => f[2 * k - 1] = Header
                /\ k > 1 => f[2 * k - 1] \in FactText
                /\ SeqAfter(f[2 * k - 1]) \in Nat \ {0}
<1>1. PICK m \in Nat \ {0} : Len(f) = 2 * m /\ Len(f) \div 2 = m
  BY DEF Whole, IsSession
<1>2. ASSUME NEW k \in 1..m
      PROVE  /\ f[2 * k] = LF
             /\ k = 1 => f[2 * k - 1] = Header
             /\ k > 1 => f[2 * k - 1] \in FactText
             /\ SeqAfter(f[2 * k - 1]) \in Nat \ {0}
  <2>1. f[2 * k - 1] \in Unit
    BY <1>1 DEF Whole
  <2>2. f[2 * k] = LF /\ (k > 1 => f[2 * k - 1].kind = "facts")
    BY <1>1 DEF Whole, IsSession
  <2>3. k = 1 => f[2 * k - 1] = Header
    BY DEF Whole, IsSession
  <2>4. k > 1 => f[2 * k - 1] \in FactText
    BY <2>1, <2>2 DEF Unit, LF, Hole, Part, Header, FactText
  <2>5. ASSUME NEW u \in FactText
        PROVE  SeqAfter(u) \in Nat \ {0}
    BY FactsAssumption DEF SeqAfter, Header, FactText
  <2> QED BY <2>2, <2>3, <2>4, <2>5 DEF SeqAfter
<1> QED BY <1>1, <1>2

(* What is whole is read to its end.                                        *)
LEMMA WholeIsRead ==
  ASSUME NEW f, Whole(f)
  PROVE  /\ RepairedLength(f) = Len(f)
         /\ Cut(f, RepairedLength(f)) = f
         /\ Len(f) \in Nat /\ Len(f) > 1 /\ f # << >>
         /\ Read(f).ok
         /\ Read(f).nextSeq = SeqAfter(LastText(f))
         /\ Read(f).nextSeq \in Nat \ {0}
         /\ Read(f).log \in Seq(Txn)
<1>1. PICK m \in Nat \ {0} :
        /\ Len(f) = 2 * m /\ Len(f) \div 2 = m
        /\ \A k \in 1..m :
             /\ f[2 * k] = LF
             /\ k = 1 => f[2 * k - 1] = Header
             /\ k > 1 => f[2 * k - 1] \in FactText
             /\ SeqAfter(f[2 * k - 1]) \in Nat \ {0}
  BY Lines
<1>2. f \in Seq(Unit) /\ IsSession(f)
  BY DEF Whole
<1>3. f[Len(f)] = LF
  BY <1>1
<1>4. RepairedLength(f) = Len(f)
  BY <1>1, <1>2, <1>3, LastFeed
<1>5. Cut(f, RepairedLength(f)) = f
  BY <1>2, <1>4, Cuts
<1>6. Read(f) = [ok |-> TRUE, log |-> [k \in 1..m - 1 |-> f[2 * k + 1].txn],
                 nextSeq |-> SeqAfter(f[2 * m - 1])]
  BY <1>1, <1>2, <1>5 DEF Read
<1>7. [k \in 1..m - 1 |-> f[2 * k + 1].txn] \in Seq(Txn)
  <2>1. ASSUME NEW k \in 1..m - 1 PROVE f[2 * k + 1].txn \in Txn
    <3>1. k + 1 \in 1..m /\ k + 1 > 1 /\ 2 * (k + 1) - 1 = 2 * k + 1
      BY <1>1
    <3>2. f[2 * k + 1].kind = "facts"
      BY <1>1, <1>2, <3>1 DEF IsSession
    <3> QED BY <1>1, <3>1, <3>2 DEF Header, FactText
  <2> QED BY <2>1
<1> QED BY <1>1, <1>2, <1>4, <1>5, <1>6, <1>7 DEF LastText

(* Torn lines after a whole file are cut off by a reader.                   *)
LEMMA TornIsCut ==
  ASSUME NEW g, Whole(g), NEW new \in Seq(Unit), \A i \in 1..Len(new) : new[i] # LF
  PROVE  LET f == g \o new
         IN  /\ f \in Seq(Unit) /\ Len(f) = Len(g) + Len(new)
             /\ RepairedLength(f) = Len(g)
             /\ Cut(f, RepairedLength(f)) = g
             /\ Read(f) = Read(g)
<1> DEFINE f == g \o new
<1>1. g \in Seq(Unit) /\ Len(g) \in Nat /\ g[Len(g)] = LF
  BY Lines, WholeIsRead DEF Whole
<1>2. f \in Seq(Unit) /\ Len(f) = Len(g) + Len(new)
  BY <1>1, ConcatProperties
<1>3. /\ \A i \in 1..Len(g) : f[i] = g[i]
      /\ \A i \in Len(g) + 1..Len(g) + Len(new) : f[i] = new[i - Len(g)]
  BY <1>1, ConcatProperties
<1>4. RepairedLength(f) = Len(g)
  <2> HIDE DEF f
  <2>1. Len(g) > 0 /\ f[Len(g)] = LF
    BY <1>1, <1>3, WholeIsRead
  <2>2. \A j \in Len(g) + 1..Len(f) : f[j] # LF
    <3>1. Len(new) \in Nat
      OBVIOUS
    <3>2. ASSUME NEW j \in Len(g) + 1..Len(g) + Len(new) PROVE f[j] # LF
      <4>1. j - Len(g) \in 1..Len(new)
        BY <1>1, <3>1
      <4> QED BY <1>3, <4>1
    <3> QED BY <1>2, <3>2
  <2> DEFINE n == RepairedLength(f)
  <2>3. n \in 0..Len(f) /\ (n > 0 => f[n] = LF) /\ \A j \in n + 1..Len(f) : f[j] # LF
    BY <1>2, LastFeed
  <2> HIDE DEF n
  <2>4. Len(f) \in Nat /\ Len(g) <= Len(f)
    BY <1>1, <1>2
  <2>5. ~(n < Len(g))
    BY <1>1, <2>1, <2>3, <2>4
  <2>6. ~(n > Len(g))
    BY <1>1, <2>2, <2>3, <2>4
  <2> QED BY <1>1, <2>3, <2>5, <2>6 DEF n
<1>5. Cut(f, RepairedLength(f)) = g
  <2>1. Cut(f, Len(g)) \in Seq(Unit) /\ Len(Cut(f, Len(g))) = Len(g)
        /\ \A i \in 1..Len(g) : Cut(f, Len(g))[i] = f[i]
    <3>1. Len(g) \in 0..Len(f)
      BY <1>1, <1>2
    <3> HIDE DEF f
    <3> QED BY <1>2, <3>1, Cuts
  <2> HIDE DEF f
  <2> QED BY <1>1, <1>3, <1>4, <2>1, SeqEqual
<1>6. Read(f) = Read(g)
  <2>1. Cut(g, RepairedLength(g)) = g
    BY WholeIsRead
  <2> QED BY <1>5, <2>1 DEF Read
<1> QED BY <1>2, <1>4, <1>5, <1>6

(* A file without a line feed is no session, and has no transactions.       *)
LEMMA NoLine ==
  ASSUME NEW f \in Seq(Unit), \A i \in 1..Len(f) : f[i] # LF
  PROVE  RepairedLength(f) = 0 /\ ~Read(f).ok /\ Read(f).log = << >>
<1>1. RepairedLength(f) = 0
  BY LastFeed
<1>2. Len(Cut(f, 0)) = 0
  BY Cuts
<1>3. ~IsSession(Cut(f, 0))
  BY <1>2 DEF IsSession
<1> QED BY <1>1, <1>3 DEF Read

(* The header alone is a session without transactions.                      *)
LEMMA HeaderIsWhole ==
  /\ Whole(HeaderLine) /\ Len(HeaderLine) = 2
  /\ LastText(HeaderLine) = Header
  /\ Read(HeaderLine).log = << >> /\ Read(HeaderLine).nextSeq = 1
<1>1. HeaderLine \in Seq(Unit) /\ Len(HeaderLine) = 2 /\ HeaderLine[1] = Header
      /\ HeaderLine[2] = LF
  BY DEF HeaderLine, Unit
<1>2. IsSession(HeaderLine)
  <2>1. Len(HeaderLine) \div 2 = 1 /\ Len(HeaderLine) % 2 = 0
    BY <1>1
  <2> QED BY <1>1, <2>1 DEF IsSession
<1>3. Whole(HeaderLine)
  BY <1>1, <1>2 DEF Whole
<1>4. Cut(HeaderLine, RepairedLength(HeaderLine)) = HeaderLine
  BY <1>3, WholeIsRead
<1>5. Read(HeaderLine).log = [k \in 1..0 |-> HeaderLine[2 * k + 1].txn]
      /\ Read(HeaderLine).nextSeq = SeqAfter(HeaderLine[1])
  <2>1. Len(HeaderLine) \div 2 = 1 /\ 1 - 1 = 0 /\ 2 * 1 - 1 = 1
    BY <1>1
  <2> QED BY <1>1, <1>2, <1>4, <2>1 DEF Read
<1> QED BY <1>1, <1>3, <1>5 DEF LastText, SeqAfter

(* A line with the next number makes a whole file of a whole file, and its  *)
(* transaction the last of the log.                                         *)
LEMMA LineExtends ==
  ASSUME NEW g, Whole(g), NEW t \in Txn
  PROVE  LET f == g \o Line(t, Read(g).nextSeq)
         IN  /\ Whole(f)
             /\ Read(f).log = Append(Read(g).log, t)
             /\ Read(f).nextSeq = Read(g).nextSeq + Facts[t]
<1> DEFINE n == Read(g).nextSeq
           x == Text(t, n)
           f == g \o Line(t, n)
<1>1. PICK m \in Nat \ {0} :
        /\ Len(g) = 2 * m /\ Len(g) \div 2 = m
        /\ \A k \in 1..m :
             /\ g[2 * k] = LF
             /\ k = 1 => g[2 * k - 1] = Header
             /\ k > 1 => g[2 * k - 1] \in FactText
             /\ SeqAfter(g[2 * k - 1]) \in Nat \ {0}
  BY Lines
<1>2. g \in Seq(Unit) /\ IsSession(g)
  BY DEF Whole
<1>3. n = SeqAfter(g[2 * m - 1]) /\ n \in Nat \ {0}
  BY <1>1, WholeIsRead DEF LastText
<1>4. x \in FactText /\ x \in Unit /\ LF \in Unit
      /\ SeqAfter(x) = n + Facts[t] /\ x.seq = n /\ x.kind = "facts" /\ x.txn = t
  BY <1>3 DEF Text, FactText, Unit, SeqAfter, Header
<1>5. f = g \o <<x, LF>>
  BY DEF Line
<1>6. /\ f \in Seq(Unit) /\ Len(f) = 2 * m + 2
      /\ f[2 * m + 1] = x /\ f[2 * m + 2] = LF
      /\ \A i \in 1..2 * m : f[i] = g[i]
  <2> HIDE DEF x, n, f
  <2>1. <<x, LF>> \in Seq(Unit) /\ Len(<<x, LF>>) = 2
        /\ <<x, LF>>[1] = x /\ <<x, LF>>[2] = LF
    BY <1>4
  <2> DEFINE line == <<x, LF>>
  <2> HIDE DEF line
  <2>2. line \in Seq(Unit) /\ Len(line) = 2 /\ line[1] = x /\ line[2] = LF
    BY <2>1 DEF line
  <2>3. f = g \o line
    BY <1>5 DEF line
  <2>4. f \in Seq(Unit) /\ Len(f) = Len(g) + 2
    <3>1. g \o line \in Seq(Unit) /\ Len(g \o line) = Len(g) + Len(line)
      BY <1>2, <2>2, ConcatProperties
    <3> QED BY <2>2, <2>3, <3>1
  <2>5. ASSUME NEW i \in 1..Len(g) + 2
        PROVE  f[i] = IF i <= Len(g) THEN g[i] ELSE line[i - Len(g)]
    BY <1>2, <2>2, <2>3, ConcatProperties
  <2>6. f[Len(g) + 1] = line[1] /\ f[Len(g) + 2] = line[2]
        /\ \A i \in 1..Len(g) : f[i] = g[i]
    <3>1. Len(g) \in Nat
      BY <1>2
    <3> QED BY <2>5, <3>1
  <2> QED BY <1>1, <2>2, <2>4, <2>6
<1>7. Len(f) \div 2 = m + 1 /\ Len(f) % 2 = 0
  BY <1>6
<1>8. IsSession(f)
  <2>1. f[1] = Header
    BY <1>2, <1>6 DEF IsSession
  <2>2. ASSUME NEW k \in 1..m + 1
        PROVE  /\ f[2 * k] = LF
               /\ k > 1 => /\ f[2 * k - 1].kind = "facts"
                           /\ f[2 * k - 1].seq = SeqAfter(f[2 * k - 3])
    <3>1. CASE k = m + 1
      <4>1. 2 * k - 1 = 2 * m + 1 /\ 2 * k - 3 = 2 * m - 1 /\ 2 * k = 2 * m + 2
        BY <3>1
      <4> HIDE DEF x, n, f
      <4> QED BY <1>3, <1>4, <1>6, <4>1
    <3>2. CASE k \in 1..m
      <4>1. 2 * k \in 1..2 * m /\ 2 * k - 1 \in 1..2 * m
            /\ (k > 1 => 2 * k - 3 \in 1..2 * m)
        BY <3>2
      <4>2. g[2 * k] = LF /\ (k > 1 => g[2 * k - 1].kind = "facts"
                                /\ g[2 * k - 1].seq = SeqAfter(g[2 * k - 3]))
        BY <1>1, <1>2, <3>2 DEF IsSession
      <4> HIDE DEF x, n, f
      <4> QED BY <1>6, <4>1, <4>2
    <3> HIDE DEF f
    <3> QED BY <3>1, <3>2
  <2> HIDE DEF f
  <2> QED BY <1>6, <1>7, <2>1, <2>2 DEF IsSession
<1>9. Whole(f)
  BY <1>6, <1>8 DEF Whole
<1>10. Cut(f, RepairedLength(f)) = f /\ Cut(g, RepairedLength(g)) = g
  BY <1>9, WholeIsRead
<1>11. /\ Read(f).log = [k \in 1..m |-> f[2 * k + 1].txn]
       /\ Read(f).nextSeq = SeqAfter(f[2 * m + 1])
  <2> HIDE DEF f
  <2>1. m + 1 - 1 = m /\ 2 * (m + 1) - 1 = 2 * m + 1
    OBVIOUS
  <2> QED BY <1>7, <1>8, <1>10, <2>1 DEF Read
<1>12. Read(g).log = [k \in 1..m - 1 |-> g[2 * k + 1].txn]
  BY <1>1, <1>2, <1>10 DEF Read
<1>13. Read(f).log = Append(Read(g).log, t)
  <2> HIDE DEF f, x, n
  <2>1. ASSUME NEW k \in 1..m - 1 PROVE f[2 * k + 1] = g[2 * k + 1]
    BY <1>6
  <2>2. Len(Read(g).log) = m - 1
    BY <1>12
  <2> QED BY <1>4, <1>6, <1>11, <1>12, <2>1, <2>2
<1> QED BY <1>4, <1>6, <1>9, <1>11, <1>13

(* What is written at the end of a file is appended to it.                  *)
LEMMA WrittenAtEnd ==
  ASSUME NEW f \in Seq(Unit), NEW new \in Seq(Unit)
  PROVE  WriteAt(f, Len(f), new) = f \o new
<1>1. Len(f) \in Nat /\ Len(new) \in Nat /\ DOMAIN f = 1..Len(f)
  OBVIOUS
<1>2. (IF Len(f) + Len(new) > Len(f) THEN Len(f) + Len(new) ELSE Len(f))
        = Len(f) + Len(new)
  BY <1>1
<1>3. WriteAt(f, Len(f), new) =
        [i \in 1..Len(f) + Len(new) |->
           IF i \in Len(f) + 1..Len(f) + Len(new) THEN new[i - Len(f)]
           ELSE IF i \in DOMAIN f THEN f[i] ELSE Hole]
  BY <1>2 DEF WriteAt
<1>4. WriteAt(f, Len(f), new) \in Seq(Unit)
      /\ Len(WriteAt(f, Len(f), new)) = Len(f) + Len(new)
  <2>1. \A i \in 1..Len(f) + Len(new) :
          (IF i \in Len(f) + 1..Len(f) + Len(new) THEN new[i - Len(f)]
           ELSE IF i \in DOMAIN f THEN f[i] ELSE Hole) \in Unit
    BY <1>1
  <2> QED BY <1>1, <1>3, <2>1
<1>5. f \o new \in Seq(Unit) /\ Len(f \o new) = Len(f) + Len(new)
  BY ConcatProperties
<1>6. ASSUME NEW i \in 1..Len(f) + Len(new)
      PROVE  WriteAt(f, Len(f), new)[i] = (f \o new)[i]
  BY <1>1, <1>3, ConcatProperties
<1> QED BY <1>4, <1>5, <1>6, SeqEqual

(* Wherever it is written, a file does not get shorter.                     *)
LEMMA WrittenType ==
  ASSUME NEW f \in Seq(Unit), NEW new \in Seq(Unit), NEW pos \in Nat
  PROVE  /\ WriteAt(f, pos, new) \in Seq(Unit)
         /\ f # << >> => WriteAt(f, pos, new) # << >>
<1>1. Hole \in Unit
  BY DEF Unit
<1>2. Len(f) \in Nat /\ Len(new) \in Nat
  OBVIOUS
<1> DEFINE end == pos + Len(new)
           len == IF end > Len(f) THEN end ELSE Len(f)
           unit(i) == IF i \in pos + 1..end THEN new[i - pos]
                      ELSE IF i \in DOMAIN f THEN f[i] ELSE Hole
<1>3. len \in Nat /\ len >= Len(f)
  BY <1>2
<1>4. ASSUME NEW i \in 1..len PROVE unit(i) \in Unit
  BY <1>1, <1>2
<1>5. WriteAt(f, pos, new) = [i \in 1..len |-> unit(i)]
  BY DEF WriteAt
<1> HIDE DEF unit, len
<1>6. [i \in 1..len |-> unit(i)] \in Seq(Unit) /\ Len([i \in 1..len |-> unit(i)]) = len
  BY <1>3, <1>4
<1> QED BY <1>3, <1>5, <1>6

(* Whatever the bytes are, what a reader takes of them is a whole file or   *)
(* nothing.                                                                 *)
LEMMA ReadType ==
  ASSUME NEW f \in Seq(Unit)
  PROVE  /\ Cut(f, RepairedLength(f)) \in Seq(Unit)
         /\ Read(f).log \in Seq(Txn) /\ Read(f).nextSeq \in Nat \ {0}
         /\ Read(f).ok => /\ Whole(Cut(f, RepairedLength(f)))
                          /\ Read(Cut(f, RepairedLength(f))) = Read(f)
<1> DEFINE g == Cut(f, RepairedLength(f))
<1>1. g \in Seq(Unit)
  BY LastFeed, Cuts
<1>2. CASE IsSession(g)
  <2>1. Whole(g)
    BY <1>1, <1>2 DEF Whole
  <2>2. Cut(g, RepairedLength(g)) = g
    BY <2>1, WholeIsRead
  <2>3. Read(g) = Read(f)
    BY <2>2 DEF Read
  <2> QED BY <1>1, <2>1, <2>3, WholeIsRead
<1>3. CASE ~IsSession(g)
  <2>1. Read(f) = [ok |-> FALSE, log |-> << >>, nextSeq |-> 1]
    BY <1>3 DEF Read
  <2> QED BY <1>1, <2>1
<1> QED BY <1>2, <1>3

(* The lines that are written, and their parts.                             *)
LEMMA LineType ==
  ASSUME NEW t \in Txn, NEW n \in Nat \ {0}
  PROVE  /\ Line(t, n) \in Seq(Unit) /\ Len(Line(t, n)) = 2
         /\ \A part \in Torn(Line(t, n)) :
              \/ part = << >>
              \/ \E x \in Unit \ {LF} : part = <<x>>
         /\ Torn(Line(t, n)) \subseteq Seq(Unit)
<1>1. Text(t, n) \in Unit \ {LF} /\ Part \in Unit \ {LF} /\ LF \in Unit
  BY DEF Text, Unit, LF, Part
<1>2. Line(t, n) = <<Text(t, n), LF>> /\ Line(t, n)[1] = Text(t, n)
  BY DEF Line
<1> QED BY <1>1, <1>2 DEF Torn

LEMMA HeaderParts ==
  /\ \A part \in Torn(HeaderLine) :
       \/ part = << >>
       \/ \E x \in Unit \ {LF} : part = <<x>>
  /\ Torn(HeaderLine) \subseteq Seq(Unit)
<1>1. Header \in Unit \ {LF} /\ Part \in Unit \ {LF} /\ HeaderLine[1] = Header
  BY DEF Header, Unit, LF, Part, HeaderLine
<1> QED BY <1>1 DEF Torn

-----------------------------------------------------------------------------
(* One writer *)

Registered == \A h \in Handle : Live(h) => writers /\ file # << >>

StoreInv == TypeOK /\ Registered /\ SoleWriter

LEMMA HandleTypes ==
  /\ NoHandle \in HandleState
  /\ ~(NoHandle.status \in {"opening", "open"})
  /\ \A f \in Seq(Unit) : /\ Opened(f) \in HandleState
                          /\ Opened(f).status = "open"
                          /\ Opened(f).bytes = f /\ Opened(f).pos = Len(f)
                          /\ Opened(f).nextSeq = Read(f).nextSeq
<1>1. NoHandle \in HandleState /\ NoHandle.status = "none"
  BY DEF NoHandle, HandleState
<1>2. ASSUME NEW f \in Seq(Unit)
      PROVE  Opened(f) = [status |-> "open", bytes |-> f, pos |-> Len(f),
                          nextSeq |-> Read(f).nextSeq, clones |-> 1, dropping |-> 0]
  BY DEF Opened, NoHandle
<1>3. ASSUME NEW f \in Seq(Unit)
      PROVE  Opened(f) \in HandleState
  <2>1. Len(f) \in Nat /\ Read(f).nextSeq \in Nat \ {0}
    BY ReadType
  <2> DEFINE l == Len(f)
             n == Read(f).nextSeq
  <2> HIDE DEF l, n
  <2>2. [status |-> "open", bytes |-> f, pos |-> l, nextSeq |-> n,
         clones |-> 1, dropping |-> 0] \in HandleState
    BY <2>1 DEF HandleState, l, n
  <2> QED BY <1>2, <2>2 DEF l, n
<1> QED BY <1>1, <1>2, <1>3

(* A step that only touches one handle keeps the others.                    *)
LEMMA OneHandle ==
  ASSUME TypeOK, NEW h \in Handle, NEW x \in HandleState,
         handle' = [handle EXCEPT ![h] = x]
  PROVE  /\ handle' \in [Handle -> HandleState]
         /\ handle'[h] = x
         /\ \A g \in Handle \ {h} : handle'[g] = handle[g]
BY DEF TypeOK

(* The parts of StoreInv after a step that opens no handle.                 *)
LEMMA NoneOpened ==
  ASSUME StoreInv,
         \A g \in Handle : Live(g)' => Live(g),
         (\E g \in Handle : Live(g)') => writers',
         file # << >> => file' # << >>
  PROVE  Registered' /\ SoleWriter'
BY DEF StoreInv, Registered, SoleWriter

(* What a write at the cursor leaves is typed, and a file.                  *)
LEMMA WritesKeep ==
  ASSUME TypeOK, NEW h \in Handle, NEW t \in Txn
  PROVE  LET line == Line(t, handle[h].nextSeq)
         IN  \A new \in Torn(line) \cup {line} :
               /\ WriteAt(file, handle[h].pos, new) \in Seq(Unit)
               /\ file # << >> => WriteAt(file, handle[h].pos, new) # << >>
<1>1. file \in Seq(Unit) /\ handle[h].nextSeq \in Nat \ {0} /\ handle[h].pos \in Nat
  BY DEF TypeOK, HandleState
<1> QED BY <1>1, LineType, WrittenType

(* A handle with other contents.                                            *)
Grown(x, b, p, n) == [x EXCEPT !.bytes = b, !.pos = p, !.nextSeq = n]

Moved(x, p) == [x EXCEPT !.pos = p]

Counted(x, c, d) == [x EXCEPT !.clones = c, !.dropping = d]

LEMMA FieldTypes ==
  ASSUME NEW x \in HandleState, NEW b \in Seq(Unit), NEW p \in Nat, NEW n \in Nat \ {0}
  PROVE  /\ Grown(x, b, p, n) \in HandleState
         /\ Grown(x, b, p, n).status = x.status
         /\ Grown(x, b, p, n).bytes = b
         /\ Grown(x, b, p, n).pos = p
         /\ Grown(x, b, p, n).nextSeq = n
BY DEF HandleState, Grown

LEMMA MoveTypes ==
  ASSUME NEW x \in HandleState, NEW p \in Nat
  PROVE  /\ Moved(x, p) \in HandleState
         /\ Moved(x, p).status = x.status
         /\ Moved(x, p).bytes = x.bytes
         /\ Moved(x, p).pos = p
         /\ Moved(x, p).nextSeq = x.nextSeq
BY DEF HandleState, Moved

LEMMA CommitKeeps ==
  ASSUME StoreInv, NEW h \in Handle, NEW t \in Txn, AppendCommits(h, t)
  PROVE  StoreInv'
<1> DEFINE line == Line(t, handle[h].nextSeq)
           b == handle[h].bytes \o line
           p == handle[h].pos + Len(line)
           n == handle[h].nextSeq + Facts[t]
           x == Grown(handle[h], b, p, n)
<1>1. handle[h] \in HandleState /\ handle \in [Handle -> HandleState]
  BY DEF StoreInv, TypeOK
<1>2. line \in Seq(Unit) /\ Len(line) \in Nat /\ Facts[t] \in Nat
  BY <1>1, LineType, FactsAssumption DEF HandleState
<1>3. b \in Seq(Unit) /\ p \in Nat /\ n \in Nat \ {0}
  <2>1. handle[h].bytes \in Seq(Unit) /\ handle[h].pos \in Nat
        /\ handle[h].nextSeq \in Nat \ {0}
    BY <1>1 DEF HandleState
  <2>2. b \in Seq(Unit)
    BY <1>2, <2>1, ConcatProperties
  <2> HIDE DEF line
  <2> QED BY <1>2, <2>1, <2>2
<1>4. x \in HandleState /\ x.status = handle[h].status
  <2> HIDE DEF b, p, n
  <2> QED BY <1>1, <1>3, FieldTypes
<1>5. handle' = [handle EXCEPT ![h] = x]
  <2> HIDE DEF line
  <2> QED BY <1>1 DEF AppendCommits, line, Grown
<1>6. handle' \in [Handle -> HandleState] /\ \A g \in Handle : Live(g)' <=> Live(g)
  <2> HIDE DEF x
  <2> QED BY <1>1, <1>4, <1>5 DEF Live
<1>7. file' \in Seq(Unit) /\ (file # << >> => file' # << >>)
  BY WritesKeep DEF AppendCommits, StoreInv
<1>8. acked' \in Seq(Txn)
  BY <1>3, ReadType DEF AppendCommits
<1>9. TypeOK'
  BY <1>6, <1>7, <1>8 DEF TypeOK, StoreInv, AppendCommits
<1>10. Registered' /\ SoleWriter'
  BY <1>6, <1>7, NoneOpened DEF AppendCommits, StoreInv, Registered
<1> QED BY <1>9, <1>10 DEF StoreInv

LEMMA FailureKeeps ==
  ASSUME StoreInv, NEW h \in Handle, NEW t \in Txn, AppendFails(h, t)
  PROVE  StoreInv'
<1>1. handle[h] \in HandleState /\ handle \in [Handle -> HandleState]
  BY DEF StoreInv, TypeOK
<1>2. PICK part \in Torn(Line(t, handle[h].nextSeq)) :
        /\ file' = WriteAt(file, handle[h].pos, part)
        /\ handle' = [handle EXCEPT ![h].pos = @ + Len(part)]
  BY DEF AppendFails
<1> DEFINE p == handle[h].pos + Len(part)
           x == Moved(handle[h], p)
<1>3. p \in Nat
  <2>1. part \in Seq(Unit) /\ handle[h].pos \in Nat
    BY <1>1, LineType DEF HandleState
  <2> QED BY <2>1
<1>4. x \in HandleState /\ x.status = handle[h].status
  <2> HIDE DEF p
  <2> QED BY <1>1, <1>3, MoveTypes
<1>5. handle' = [handle EXCEPT ![h] = x]
  BY <1>1, <1>2 DEF Moved
<1>6. handle' \in [Handle -> HandleState] /\ \A g \in Handle : Live(g)' <=> Live(g)
  <2> HIDE DEF x
  <2> QED BY <1>1, <1>4, <1>5 DEF Live
<1>7. file' \in Seq(Unit) /\ (file # << >> => file' # << >>)
  BY <1>2, WritesKeep DEF StoreInv
<1>8. TypeOK'
  BY <1>6, <1>7 DEF TypeOK, StoreInv, AppendFails
<1>9. Registered' /\ SoleWriter'
  BY <1>6, <1>7, NoneOpened DEF AppendFails, StoreInv, Registered
<1> QED BY <1>8, <1>9 DEF StoreInv

(* A process that dies leaves no handle; the file is what it has written.   *)
LEMMA DeathKeeps ==
  ASSUME StoreInv, Dies, file' \in Seq(Unit), acked' = acked, spoiled' \in BOOLEAN
  PROVE  StoreInv'
<1>1. handle' \in [Handle -> HandleState] /\ \A g \in Handle : ~Live(g)'
  BY HandleTypes DEF Dies, Live
<1>2. crashes' \in 0..Crashes /\ writers' = FALSE
  BY CrashesAssumption DEF StoreInv, TypeOK, Dies
<1>3. TypeOK'
  BY <1>1, <1>2 DEF StoreInv, TypeOK
<1> QED BY <1>1, <1>3 DEF StoreInv, Registered, SoleWriter

(* The steps of a process that write nothing to a line.                     *)
LEMMA CreationKeeps ==
  ASSUME StoreInv, NEW h \in Handle, Create(h)
  PROVE  StoreInv'
<1>1. HeaderLine \in Seq(Unit) /\ HeaderLine # << >>
  BY HeaderIsWhole DEF Whole
<1>2. Opened(HeaderLine) \in HandleState
  BY <1>1, HandleTypes
<1>3. /\ handle' \in [Handle -> HandleState]
      /\ \A g \in Handle \ {h} : handle'[g] = handle[g]
  BY <1>2 DEF Create, StoreInv, TypeOK
<1>4. \A g \in Handle \ {h} : ~Live(g)'
  BY <1>3 DEF Live, Create, StoreInv, Registered
<1>5. TypeOK'
  BY <1>1, <1>3 DEF StoreInv, TypeOK, Create
<1> QED BY <1>1, <1>4, <1>5 DEF StoreInv, Registered, SoleWriter, Create

LEMMA OpenKeeps ==
  ASSUME StoreInv, NEW h \in Handle, OpenRegister(h) \/ OpenRead(h) \/ OpenFails(h)
  PROVE  StoreInv'
<1>1. file \in Seq(Unit) /\ handle \in [Handle -> HandleState]
  BY DEF StoreInv, TypeOK
<1>2. CASE OpenRegister(h)
  <2> DEFINE x == [handle[h] EXCEPT !.status = "opening"]
  <2>1. x \in HandleState /\ handle' = [handle EXCEPT ![h] = x]
    BY <1>1, <1>2 DEF OpenRegister, HandleState
  <2>2. /\ handle' \in [Handle -> HandleState]
        /\ \A g \in Handle \ {h} : handle'[g] = handle[g]
    <3> HIDE DEF x
    <3> QED BY <1>1, <2>1
  <2>3. \A g \in Handle \ {h} : ~Live(g)'
    BY <1>2, <2>2 DEF Live, OpenRegister, StoreInv, Registered
  <2>4. TypeOK'
    BY <1>2, <2>2 DEF StoreInv, TypeOK, OpenRegister
  <2> QED BY <1>2, <2>3, <2>4 DEF StoreInv, Registered, SoleWriter, OpenRegister
<1>3. CASE OpenRead(h)
  <2>1. /\ file' \in Seq(Unit) /\ Whole(file') /\ file' # << >>
        /\ file' = Cut(file, RepairedLength(file))
    BY <1>1, <1>3, ReadType DEF OpenRead, Whole, IsSession
  <2>2. Opened(file') \in HandleState
    BY <2>1, HandleTypes
  <2>3. /\ handle' \in [Handle -> HandleState]
        /\ \A g \in Handle \ {h} : handle'[g] = handle[g]
    BY <1>1, <1>3, <2>2 DEF OpenRead
  <2>4. Live(h) /\ \A g \in Handle : Live(g)' => Live(g)
    BY <1>3, <2>3 DEF Live, OpenRead
  <2>5. Registered' /\ SoleWriter'
    BY <1>3, <2>1, <2>4, NoneOpened DEF OpenRead, StoreInv, Registered
  <2>6. TypeOK'
    BY <1>3, <2>1, <2>3 DEF StoreInv, TypeOK, OpenRead
  <2> QED BY <2>5, <2>6 DEF StoreInv
<1>4. CASE OpenFails(h)
  <2>1. file' \in Seq(Unit)
    BY <1>1, <1>4, ReadType DEF OpenFails
  <2>2. /\ handle' \in [Handle -> HandleState]
        /\ handle'[h] = NoHandle
        /\ \A g \in Handle \ {h} : handle'[g] = handle[g]
    BY <1>1, <1>4, HandleTypes DEF OpenFails
  <2>3. \A g \in Handle : ~Live(g)'
    <3>1. Live(h) /\ ~Live(h)'
      BY <1>4, <2>2, HandleTypes DEF OpenFails, Live
    <3> QED BY <2>2, <3>1 DEF Live, StoreInv, SoleWriter
  <2>4. TypeOK'
    BY <1>4, <2>1, <2>2 DEF StoreInv, TypeOK, OpenFails
  <2> QED BY <2>3, <2>4 DEF StoreInv, Registered, SoleWriter
<1> QED BY <1>2, <1>3, <1>4

(* References to a handle come and go.                                      *)
LEMMA CountTypes ==
  ASSUME NEW x \in HandleState, NEW c \in Nat, NEW d \in Nat
  PROVE  /\ Counted(x, c, d) \in HandleState
         /\ Counted(x, c, d).status = x.status
         /\ Counted(x, c, d).bytes = x.bytes
         /\ Counted(x, c, d).pos = x.pos
         /\ Counted(x, c, d).nextSeq = x.nextSeq
BY DEF HandleState, Counted

LEMMA RetiredType ==
  ASSUME NEW h \in Handle, handle[h] \in HandleState,
         NEW status \in {"closed", "dropped"}
  PROVE  /\ Retired(h, status) \in HandleState
         /\ Retired(h, status).status = status
         /\ Retired(h, status).clones = handle[h].clones
         /\ Retired(h, status).dropping = handle[h].dropping
BY DEF HandleState, Retired

LEMMA ReferencesKeep ==
  ASSUME StoreInv, NEW h \in Handle, Close(h) \/ Clone(h) \/ Drop(h) \/ Release(h)
  PROVE  StoreInv'
<1>1. handle \in [Handle -> HandleState] /\ handle[h] \in HandleState
      /\ handle[h].clones \in Nat /\ handle[h].dropping \in Nat
  BY DEF StoreInv, TypeOK, HandleState
<1>2. CASE Close(h)
  <2>1. /\ handle' \in [Handle -> HandleState]
        /\ handle'[h].status = "closed"
        /\ \A g \in Handle \ {h} : handle'[g] = handle[g]
    BY <1>1, <1>2, RetiredType DEF Close
  <2>2. Live(h) /\ \A g \in Handle : ~Live(g)'
    BY <1>2, <2>1 DEF Close, Live, StoreInv, SoleWriter
  <2>3. TypeOK'
    BY <1>2, <2>1 DEF StoreInv, TypeOK, Close
  <2> QED BY <2>2, <2>3 DEF StoreInv, Registered, SoleWriter
<1>3. CASE Clone(h)
  <2> DEFINE x == Counted(handle[h], handle[h].clones + 1, handle[h].dropping)
  <2>1. handle[h].clones + 1 \in Nat
    BY <1>1
  <2>2. x \in HandleState /\ x.status = handle[h].status
    BY <1>1, <2>1, CountTypes
  <2>3. x = [handle[h] EXCEPT !.clones = @ + 1]
    BY <1>1 DEF HandleState, Counted
  <2>4. handle' = [handle EXCEPT ![h] = x]
    BY <1>1, <1>3, <2>3 DEF Clone
  <2>5. handle' \in [Handle -> HandleState] /\ \A g \in Handle : Live(g)' <=> Live(g)
    <3> HIDE DEF x
    <3> QED BY <1>1, <2>2, <2>4 DEF Live
  <2>6. TypeOK'
    BY <1>3, <2>5 DEF StoreInv, TypeOK, Clone
  <2>7. Registered' /\ SoleWriter'
    BY <1>3, <2>5, NoneOpened DEF Clone, StoreInv, Registered
  <2> QED BY <2>6, <2>7 DEF StoreInv
<1>4. CASE Drop(h)
  <2> DEFINE last == handle[h].clones + handle[h].dropping = 1
                     /\ handle[h].status = "open"
             y == IF last THEN Retired(h, "dropped") ELSE handle[h]
             c == y.clones - 1
             d == y.dropping + 1
             x == Counted(y, c, d)
  <2>1. y \in HandleState /\ y.clones = handle[h].clones /\ y.dropping = handle[h].dropping
        /\ y.status = IF last THEN "dropped" ELSE handle[h].status
    BY <1>1, RetiredType
  <2>2. c \in Nat /\ d \in Nat
    <3>1. handle[h].clones > 0
      BY <1>4 DEF Drop
    <3> HIDE DEF y
    <3> QED BY <1>1, <2>1, <3>1
  <2>3. x \in HandleState /\ x.status = y.status
    <3> HIDE DEF y, c, d
    <3> QED BY <2>1, <2>2, CountTypes
  <2>4. handle' = [handle EXCEPT ![h] = x]
    BY <1>4, Zenon DEF Drop, Counted
  <2>5. /\ handle' \in [Handle -> HandleState]
        /\ handle'[h].status = y.status
        /\ \A g \in Handle \ {h} : handle'[g] = handle[g]
    <3> HIDE DEF x, y
    <3> QED BY <1>1, <2>3, <2>4
  <2>6. TypeOK'
    BY <1>4, <2>5 DEF StoreInv, TypeOK, Drop
  <2>7. CASE last
    <3>1. Live(h) /\ ~Live(h)'
      BY <2>1, <2>5, <2>7 DEF Live
    <3>2. \A g \in Handle : ~Live(g)'
      BY <2>5, <3>1 DEF Live, StoreInv, SoleWriter
    <3> QED BY <2>6, <3>2 DEF StoreInv, Registered, SoleWriter
  <2>8. CASE ~last
    <3>1. \A g \in Handle : Live(g)' <=> Live(g)
      BY <2>1, <2>5, <2>8 DEF Live
    <3>2. writers' = writers /\ file' = file
      BY <1>4, <2>8 DEF Drop, StoreInv, TypeOK
    <3>3. Registered' /\ SoleWriter'
      BY <3>1, <3>2, NoneOpened DEF StoreInv, Registered
    <3> QED BY <2>6, <3>3 DEF StoreInv
  <2> QED BY <2>7, <2>8
<1>5. CASE Release(h)
  <2> DEFINE d == handle[h].dropping - 1
             y == Counted(handle[h], handle[h].clones, d)
             x == IF handle[h].clones + handle[h].dropping = 1 THEN NoHandle ELSE y
  <2>1. d \in Nat
    BY <1>1, <1>5 DEF Release
  <2>2. y \in HandleState /\ y.status = handle[h].status
    <3> HIDE DEF d
    <3> QED BY <1>1, <2>1, CountTypes
  <2>3. x \in HandleState /\ x.status \in {"none", handle[h].status}
    <3> HIDE DEF y
    <3> QED BY <2>2, HandleTypes DEF NoHandle
  <2>4. handle' = [handle EXCEPT ![h] = x]
    <3>1. y = [handle[h] EXCEPT !.dropping = handle[h].dropping - 1]
      BY <1>1 DEF HandleState, Counted
    <3>2. handle' = [handle EXCEPT ![h] =
                       IF handle[h].clones + handle[h].dropping = 1 THEN NoHandle
                       ELSE [handle[h] EXCEPT !.dropping = handle[h].dropping - 1]]
      BY <1>5, Zenon DEF Release
    <3> HIDE DEF y
    <3> QED BY <3>1, <3>2
  <2>5. handle' \in [Handle -> HandleState] /\ \A g \in Handle : Live(g)' => Live(g)
    <3> HIDE DEF x
    <3> QED BY <1>1, <2>3, <2>4 DEF Live
  <2>6. TypeOK'
    BY <1>5, <2>5 DEF StoreInv, TypeOK, Release
  <2>7. Registered' /\ SoleWriter'
    BY <1>5, <2>5, NoneOpened DEF Release, StoreInv, Registered
  <2> QED BY <2>6, <2>7 DEF StoreInv
<1> QED BY <1>2, <1>3, <1>4, <1>5

LEMMA StoreStep == StoreInv /\ [Next]_vars => StoreInv'
<1> SUFFICES ASSUME StoreInv, [Next]_vars PROVE StoreInv'
  OBVIOUS
<1>1. ASSUME NEW h \in Handle,
             \/ Create(h) \/ OpenRegister(h) \/ OpenRead(h) \/ OpenFails(h)
             \/ Close(h) \/ Clone(h) \/ Drop(h) \/ Release(h)
      PROVE  StoreInv'
  BY <1>1, CreationKeeps, OpenKeeps, ReferencesKeep
<1>2. ASSUME NEW h \in Handle, NEW t \in Txn, AppendCommits(h, t) \/ AppendFails(h, t)
      PROVE  StoreInv'
  BY <1>2, CommitKeeps, FailureKeeps
<1>3. ASSUME NEW h \in Handle, NEW t \in Txn, CrashInAppend(h, t)
      PROVE  StoreInv'
  <2>1. file' \in Seq(Unit) /\ spoiled' \in BOOLEAN
    BY <1>3, WritesKeep DEF StoreInv, TypeOK, CrashInAppend
  <2> QED BY <1>3, <2>1, DeathKeeps DEF CrashInAppend
<1>4. CASE Crash
  BY <1>4, DeathKeeps DEF Crash, StoreInv, TypeOK
<1>5. CASE CrashInCreate
  <2>1. file' \in Seq(Unit) /\ spoiled' \in BOOLEAN
    BY <1>5, HeaderParts, HeaderIsWhole DEF CrashInCreate, Whole, StoreInv, TypeOK
  <2> QED BY <1>5, <2>1, DeathKeeps DEF CrashInCreate
<1>6. CASE UNCHANGED vars
  BY <1>6 DEF vars, StoreInv, TypeOK, Registered, SoleWriter, Live
<1> QED BY <1>1, <1>2, <1>3, <1>4, <1>5, <1>6 DEF Next

LEMMA StoreStarts == Init => StoreInv
<1> SUFFICES ASSUME Init PROVE StoreInv
  OBVIOUS
<1>1. \A h \in Handle : ~Live(h)
  BY HandleTypes DEF Init, Live
<1>2. TypeOK
  <2>1. handle \in [Handle -> HandleState]
    BY HandleTypes, Zenon DEF Init
  <2>2. file \in Seq(Unit) /\ acked \in Seq(Txn)
    BY DEF Init
  <2>3. crashes \in 0..Crashes
    BY CrashesAssumption DEF Init
  <2> QED BY <2>1, <2>2, <2>3 DEF Init, TypeOK
<1> QED BY <1>1, <1>2 DEF StoreInv, Registered, SoleWriter

(* The variables of the store have their types, for any number of handles, *)
(* clones, crashes and transactions.                                        *)
THEOREM TypeCorrect == Spec => []TypeOK
<1>1. StoreInv => TypeOK
  BY DEF StoreInv
<1> QED BY <1>1, StoreStarts, StoreStep, PTL DEF Spec

(* At most one handle of a process may write to the file: the registry     *)
(* WRITERS does what it is there for, on every order of opens that fail,    *)
(* closes and drops of the handles and of their clones.                     *)
THEOREM SoleWriterAlways == Spec => []SoleWriter
<1>1. StoreInv => SoleWriter
  BY DEF StoreInv
<1> QED BY <1>1, StoreStarts, StoreStep, PTL DEF Spec

-----------------------------------------------------------------------------
(* What is in memory is what is on disk, until a line is written behind a   *)
(* torn one                                                                 *)

(* What a reader takes of the bytes.                                        *)
Base(f) == Cut(f, RepairedLength(f))

(* What writes that stopped short leave: no line feed.                      *)
Stub(f) == f \in Seq(Unit) /\ \A i \in 1..Len(f) : f[i] # LF

(* A file is whole, or whole up to torn lines; or creation left a stub.     *)
Shaped(f) ==
  \/ Stub(f)
  \/ Whole(Base(f)) /\ \E new : Stub(new) /\ f = Base(f) \o new

Follows(h) ==
  /\ Whole(handle[h].bytes)
  /\ handle[h].bytes = Base(file)
  /\ handle[h].nextSeq = Read(file).nextSeq
  /\ handle[h].pos = Len(file)

FileInv ==
  /\ Shaped(file)
  /\ \A h \in Handle : handle[h].status = "open" => Follows(h)

LogStep == UNCHANGED <<Read(file).log, acked>> \/ \E t \in Txn : Log!Accept(t) \/ Log!Leave(t)

LEMMA NothingIsStub == Stub(<< >>)
BY DEF Stub

(* A stub is no session; a file with a shape reads as its whole part.       *)
LEMMA StubReads ==
  ASSUME NEW f, Stub(f)
  PROVE  f \in Seq(Unit) /\ ~Read(f).ok /\ Read(f).log = << >>
BY NoLine DEF Stub

LEMMA TornShape ==
  ASSUME NEW g, Whole(g), NEW new, Stub(new)
  PROVE  /\ Shaped(g \o new) /\ g \o new \in Seq(Unit)
         /\ Len(g \o new) = Len(g) + Len(new)
         /\ Base(g \o new) = g /\ Read(g \o new) = Read(g)
<1>1. /\ g \o new \in Seq(Unit) /\ Len(g \o new) = Len(g) + Len(new)
      /\ Base(g \o new) = g /\ Read(g \o new) = Read(g)
  BY TornIsCut DEF Stub, Base
<1> QED BY <1>1 DEF Shaped

LEMMA WholeShape ==
  ASSUME NEW g, Whole(g)
  PROVE  Shaped(g)
<1>1. Stub(<< >>) /\ g \o << >> = g
  BY DEF Stub, Whole
<1> QED BY <1>1, TornShape

LEMMA ShapeReads ==
  ASSUME NEW f, Shaped(f)
  PROVE  /\ f \in Seq(Unit)
         /\ Read(f).ok => /\ Whole(Base(f)) /\ Read(Base(f)) = Read(f)
                          /\ Base(Base(f)) = Base(f)
<1>1. f \in Seq(Unit)
  BY TornShape DEF Shaped, Stub
<1> QED BY <1>1, ReadType, WholeIsRead DEF Base

(* A handle that may append has the whole part of the file, and what torn   *)
(* lines follow it; it has all of the file if its cursor says so.           *)
LEMMA MayAppendShaped ==
  ASSUME StoreInv, FileInv, NEW h \in Handle, MayAppend(h)
  PROVE  /\ Whole(handle[h].bytes) /\ handle[h].pos = Len(file)
         /\ Read(handle[h].bytes) = Read(file)
         /\ handle[h].nextSeq = Read(file).nextSeq
         /\ \E new : Stub(new) /\ file = handle[h].bytes \o new
         /\ ~Behind(h) => handle[h].bytes = file
         /\ Live(h) /\ \A g \in Handle : Live(g) => g = h
<1>1. handle[h].status = "open"
  BY DEF MayAppend
<1>2. Follows(h) /\ Shaped(file) /\ Live(h) /\ \A g \in Handle : Live(g) => g = h
  BY <1>1 DEF FileInv, StoreInv, SoleWriter, Live
<1>3. ~Stub(file)
  <2>1. Len(handle[h].bytes) > 1 /\ file \in Seq(Unit)
    BY <1>2, WholeIsRead DEF Follows, StoreInv, TypeOK
  <2>2. ASSUME Stub(file) PROVE FALSE
    <3>1. RepairedLength(file) = 0
      BY <2>2, NoLine DEF Stub
    <3>2. Len(handle[h].bytes) = 0
      BY <1>2, <2>1, <3>1, Cuts DEF Follows, Base
    <3> QED BY <2>1, <3>2
  <2> QED BY <2>2
<1>4. PICK new : Stub(new) /\ file = handle[h].bytes \o new
  BY <1>2, <1>3 DEF Shaped, Follows
<1>5. /\ Whole(handle[h].bytes) /\ handle[h].pos = Len(file)
      /\ handle[h].nextSeq = Read(file).nextSeq
  BY <1>2 DEF Follows
<1>6. Read(handle[h].bytes) = Read(file) /\ Len(file) = Len(handle[h].bytes) + Len(new)
  BY <1>4, <1>5, TornShape
<1>7. ASSUME ~Behind(h) PROVE handle[h].bytes = file
  <2>1. Len(new) = 0
    BY <1>4, <1>5, <1>6, <1>7, WholeIsRead DEF Behind, Stub
  <2>2. new = << >> /\ handle[h].bytes \in Seq(Unit)
    BY <1>4, <1>5, <2>1 DEF Stub, Whole
  <2> QED BY <1>4, <2>2
<1> QED BY <1>2, <1>4, <1>5, <1>6, <1>7

LEMMA CommitEffect ==
  ASSUME StoreInv, FileInv, NEW h \in Handle, NEW t \in Txn,
         AppendCommits(h, t), ~spoiled'
  PROVE  FileInv' /\ LogStep
<1> DEFINE line == Line(t, handle[h].nextSeq)
           b == handle[h].bytes \o line
           p == handle[h].pos + Len(line)
           n == handle[h].nextSeq + Facts[t]
           x == Grown(handle[h], b, p, n)
<1>1. /\ Whole(file) /\ handle[h].bytes = file /\ handle[h].pos = Len(file)
      /\ handle[h].nextSeq = Read(file).nextSeq
      /\ \A g \in Handle : Live(g) => g = h
  BY MayAppendShaped DEF AppendCommits
<1>2. handle[h] \in HandleState /\ handle \in [Handle -> HandleState]
      /\ file \in Seq(Unit) /\ Read(file).nextSeq \in Nat \ {0}
  BY <1>1, WholeIsRead DEF StoreInv, TypeOK
<1>3. line \in Seq(Unit) /\ Len(line) = 2 /\ Facts[t] \in Nat
  BY <1>1, <1>2, LineType, FactsAssumption
<1>4. file' = b
  BY <1>1, <1>2, <1>3, WrittenAtEnd DEF AppendCommits
<1>5. /\ Whole(b) /\ Read(b).log = Append(Read(file).log, t)
      /\ Read(b).nextSeq = n /\ Shaped(b)
  BY <1>1, LineExtends, WholeShape
<1>6. b \in Seq(Unit) /\ n \in Nat \ {0} /\ p = Len(b) /\ p \in Nat
  <2>1. b \in Seq(Unit) /\ Len(b) = Len(file) + Len(line)
    BY <1>1, <1>2, <1>3, ConcatProperties
  <2> HIDE DEF b, line
  <2> QED BY <1>1, <1>2, <1>3, <2>1
<1>7. handle' = [handle EXCEPT ![h] = x]
  <2> HIDE DEF line
  <2> QED BY <1>2 DEF AppendCommits, line, Grown
<1>8. /\ x.bytes = b /\ x.pos = p /\ x.nextSeq = n /\ x \in HandleState
      /\ x.status = handle[h].status
  <2>1. b \in Seq(Unit) /\ p \in Nat /\ n \in Nat \ {0}
    BY <1>6
  <2> HIDE DEF b, p, n
  <2> QED BY <1>2, <2>1, FieldTypes
<1>9. Base(b) = b
  BY <1>5, WholeIsRead DEF Base
<1>10. FileInv'
  <2> HIDE DEF x, b, p, n
  <2>1. \A g \in Handle \ {h} : handle'[g] = handle[g]
    BY <1>2, <1>7
  <2>2. \A g \in Handle : handle[g]'.status = "open" => g = h
    BY <1>1, <2>1 DEF Live
  <2>3. handle'[h] = x
    BY <1>2, <1>7
  <2> QED BY <1>4, <1>5, <1>6, <1>8, <1>9, <2>2, <2>3 DEF FileInv, Follows
<1>11. acked' = Read(b).log /\ spoiled' = spoiled
  BY DEF AppendCommits, StoreInv, TypeOK
<1>12. LogStep
  <2> HIDE DEF b
  <2> QED BY <1>4, <1>5, <1>11 DEF LogStep, Log!Accept
<1> QED BY <1>10, <1>12

(* A part of a line is a stub.                                              *)
LEMMA PartIsStub ==
  /\ \A t \in Txn, n \in Nat \ {0} : \A part \in Torn(Line(t, n)) : Stub(part)
  /\ \A part \in Torn(HeaderLine) : Stub(part)
BY LineType, HeaderParts DEF Stub

LEMMA StubsJoin ==
  ASSUME NEW a, Stub(a), NEW b, Stub(b), NEW g \in Seq(Unit)
  PROVE  Stub(a \o b) /\ (g \o a) \o b = g \o (a \o b)
<1>1. a \in Seq(Unit) /\ b \in Seq(Unit) /\ Len(a) \in Nat /\ Len(b) \in Nat
  BY DEF Stub
<1>2. a \o b \in Seq(Unit) /\ Len(a \o b) = Len(a) + Len(b)
  BY <1>1, ConcatProperties
<1>3. ASSUME NEW i \in 1..Len(a) + Len(b) PROVE (a \o b)[i] # LF
  <2>1. (a \o b)[i] = IF i <= Len(a) THEN a[i] ELSE b[i - Len(a)]
    BY <1>1, ConcatProperties
  <2>2. (i <= Len(a) => i \in 1..Len(a)) /\ (~(i <= Len(a)) => i - Len(a) \in 1..Len(b))
    BY <1>1
  <2> QED BY <2>1, <2>2 DEF Stub
<1>4. (g \o a) \o b = g \o (a \o b)
  BY <1>1, ConcatAssociative
<1> QED BY <1>2, <1>3, <1>4 DEF Stub

LEMMA FailureEffect ==
  ASSUME StoreInv, FileInv, NEW h \in Handle, NEW t \in Txn, AppendFails(h, t)
  PROVE  FileInv' /\ LogStep
<1>1. /\ Whole(handle[h].bytes) /\ handle[h].pos = Len(file)
      /\ Read(handle[h].bytes) = Read(file)
      /\ handle[h].nextSeq = Read(file).nextSeq
      /\ \A g \in Handle : Live(g) => g = h
  BY MayAppendShaped DEF AppendFails
<1>2. handle[h] \in HandleState /\ handle \in [Handle -> HandleState]
      /\ file \in Seq(Unit) /\ Read(file).nextSeq \in Nat \ {0} /\ Len(file) \in Nat
      /\ handle[h].bytes \in Seq(Unit)
  BY <1>1, WholeIsRead DEF StoreInv, TypeOK, Whole
<1>3. PICK part \in Torn(Line(t, handle[h].nextSeq)) :
        /\ file' = WriteAt(file, handle[h].pos, part)
        /\ handle' = [handle EXCEPT ![h].pos = @ + Len(part)]
  BY DEF AppendFails
<1>4. Stub(part) /\ part \in Seq(Unit)
  BY <1>1, <1>2, PartIsStub, LineType
<1>5. file' = file \o part /\ Len(file \o part) = Len(file) + Len(part)
  BY <1>1, <1>2, <1>3, <1>4, WrittenAtEnd, ConcatProperties
<1>6. PICK new : Stub(new) /\ file = handle[h].bytes \o new
  BY MayAppendShaped DEF AppendFails
<1>7. Stub(new \o part) /\ file' = handle[h].bytes \o (new \o part)
  BY <1>2, <1>4, <1>5, <1>6, StubsJoin
<1>8. Shaped(file') /\ Base(file') = handle[h].bytes /\ Read(file') = Read(file)
  BY <1>1, <1>7, TornShape
<1> DEFINE p == handle[h].pos + Len(part)
           x == Moved(handle[h], p)
<1>9. handle' = [handle EXCEPT ![h] = x]
  BY <1>2, <1>3 DEF Moved
<1>10. p \in Nat /\ p = Len(file')
  BY <1>1, <1>2, <1>4, <1>5
<1>11. /\ x.status = handle[h].status /\ x.pos = p
       /\ x.bytes = handle[h].bytes /\ x.nextSeq = handle[h].nextSeq
  <2> HIDE DEF p
  <2> QED BY <1>2, <1>10, MoveTypes
<1>12. FileInv'
  <2> HIDE DEF x, p
  <2>1. handle'[h] = x /\ \A g \in Handle \ {h} : handle'[g] = handle[g]
    BY <1>2, <1>9
  <2>2. \A g \in Handle : handle[g]'.status = "open" => g = h
    BY <1>1, <2>1 DEF Live
  <2> QED BY <1>1, <1>8, <1>10, <1>11, <2>1, <2>2 DEF FileInv, Follows
<1>13. LogStep
  BY <1>8 DEF LogStep, AppendFails
<1> QED BY <1>12, <1>13

(* The other steps: handles that stay open see the same file.               *)
LEMMA SameFile ==
  ASSUME FileInv, file' = file,
         \A g \in Handle : handle'[g].status = "open" =>
           /\ handle[g].status = "open"
           /\ handle'[g].bytes = handle[g].bytes /\ handle'[g].pos = handle[g].pos
           /\ handle'[g].nextSeq = handle[g].nextSeq
  PROVE  FileInv'
BY DEF FileInv, Follows

LEMMA DeathEffect ==
  ASSUME StoreInv, FileInv, ~spoiled',
         Crash \/ CrashInCreate \/ \E h \in Handle, t \in Txn : CrashInAppend(h, t)
  PROVE  FileInv' /\ LogStep
<1>1. \A g \in Handle : handle'[g].status = "none"
  BY DEF Crash, CrashInCreate, CrashInAppend, Dies, NoHandle
<1>2. ASSUME Shaped(file') PROVE FileInv'
  BY <1>1, <1>2 DEF FileInv
<1>3. CASE Crash
  BY <1>2, <1>3 DEF Crash, FileInv, LogStep
<1>4. CASE CrashInCreate
  <2>1. PICK part \in Torn(HeaderLine) \cup {HeaderLine} : file' = part
    BY <1>4 DEF CrashInCreate
  <2>2. Shaped(file') /\ Read(file').log = << >>
    <3>1. CASE part = HeaderLine
      BY <2>1, <3>1, HeaderIsWhole, WholeShape
    <3>2. CASE part \in Torn(HeaderLine)
      BY <2>1, <3>2, PartIsStub, StubReads DEF Shaped
    <3> QED BY <3>1, <3>2
  <2>3. Read(file).log = << >>
    BY <1>4, NothingIsStub, StubReads DEF CrashInCreate
  <2> QED BY <1>2, <1>4, <2>2, <2>3 DEF LogStep, CrashInCreate
<1>5. ASSUME NEW h \in Handle, NEW t \in Txn, CrashInAppend(h, t)
      PROVE  FileInv' /\ LogStep
  <2>1. /\ Whole(handle[h].bytes) /\ handle[h].pos = Len(file)
        /\ Read(handle[h].bytes) = Read(file)
        /\ handle[h].nextSeq = Read(file).nextSeq
    BY <1>5, MayAppendShaped DEF CrashInAppend
  <2>2. file \in Seq(Unit) /\ handle[h].bytes \in Seq(Unit)
        /\ Read(file).nextSeq \in Nat \ {0}
    BY <2>1, WholeIsRead DEF Whole, StoreInv, TypeOK
  <2>3. PICK new : Stub(new) /\ file = handle[h].bytes \o new
    BY <1>5, MayAppendShaped DEF CrashInAppend
  <2> DEFINE line == Line(t, handle[h].nextSeq)
  <2>4. PICK part \in Torn(line) \cup {line} :
          /\ file' = WriteAt(file, handle[h].pos, part)
          /\ spoiled' = (spoiled \/ (part = line /\ Behind(h)))
    BY <1>5 DEF CrashInAppend
  <2>5. part \in Seq(Unit) /\ file' = file \o part
    <3>1. part \in Seq(Unit)
      BY <2>1, <2>2, LineType
    <3> QED BY <2>1, <2>2, <2>4, <3>1, WrittenAtEnd
  <2>6. acked' = acked
    BY <1>5 DEF CrashInAppend
  <2>7. CASE part \in Torn(line)
    <3>1. Stub(part)
      BY <2>1, <2>2, <2>7, PartIsStub
    <3>2. Stub(new \o part) /\ file' = handle[h].bytes \o (new \o part)
      BY <2>2, <2>3, <2>5, <3>1, StubsJoin
    <3>3. Shaped(file') /\ Read(file') = Read(file)
      BY <2>1, <3>2, TornShape
    <3> QED BY <1>2, <2>6, <3>3 DEF LogStep
  <2>8. CASE part = line
    <3>1. handle[h].bytes = file /\ spoiled' = spoiled
      BY <1>5, <2>4, <2>8, MayAppendShaped DEF CrashInAppend, StoreInv, TypeOK
    <3>2. Whole(file') /\ Read(file').log = Append(Read(file).log, t)
      BY <2>1, <2>5, <2>8, <3>1, LineExtends
    <3> QED BY <1>2, <2>6, <3>1, <3>2, WholeShape DEF LogStep, Log!Leave
  <2> QED BY <2>4, <2>7, <2>8
<1> QED BY <1>3, <1>4, <1>5

LEMMA CreationEffect ==
  ASSUME StoreInv, FileInv, NEW h \in Handle, Create(h)
  PROVE  FileInv' /\ LogStep
<1>1. /\ Whole(HeaderLine) /\ HeaderLine \in Seq(Unit)
      /\ Base(HeaderLine) = HeaderLine /\ Read(HeaderLine).log = << >>
  BY HeaderIsWhole, WholeIsRead DEF Base, Whole
<1>6. Shaped(HeaderLine)
  BY <1>1, WholeShape
<1>2. /\ handle'[h] = Opened(HeaderLine)
      /\ \A g \in Handle \ {h} : handle'[g] = handle[g]
  BY DEF Create, StoreInv, TypeOK
<1>3. \A g \in Handle : handle'[g].status = "open" => g = h
  BY <1>2 DEF Create, StoreInv, Registered, Live
<1>4. FileInv'
  BY <1>1, <1>2, <1>3, <1>6, HandleTypes DEF FileInv, Follows, Create
<1>5. Read(file).log = << >>
  BY NothingIsStub, StubReads DEF Create
<1> QED BY <1>1, <1>4, <1>5 DEF LogStep, Create

(* The file that open leaves reads the same.                                *)
LEMMA OpenEffect ==
  ASSUME StoreInv, FileInv, NEW h \in Handle,
         OpenRegister(h) \/ OpenRead(h) \/ OpenFails(h)
  PROVE  FileInv' /\ LogStep
<1>1. handle \in [Handle -> HandleState]
  BY DEF StoreInv, TypeOK
<1>2. Read(file).ok =>
        /\ Whole(Base(file)) /\ Read(Base(file)) = Read(file)
        /\ Base(Base(file)) = Base(file) /\ Base(file) \in Seq(Unit)
  BY ShapeReads DEF FileInv, Whole
<1>3. CASE OpenRegister(h)
  <2>1. \A g \in Handle : handle'[g].status = "open" => handle'[g] = handle[g]
    BY <1>1, <1>3 DEF OpenRegister, HandleState
  <2> QED BY <1>3, <2>1, SameFile DEF OpenRegister, LogStep
<1>4. CASE OpenRead(h)
  <2>1. file' = Base(file) /\ Read(file).ok
    BY <1>4 DEF OpenRead, Base
  <2>2. /\ handle'[h] = Opened(file')
        /\ \A g \in Handle \ {h} : handle'[g] = handle[g]
    BY <1>1, <1>4 DEF OpenRead
  <2>3. \A g \in Handle : handle'[g].status = "open" => g = h
    BY <1>4, <2>2 DEF OpenRead, StoreInv, SoleWriter, Live
  <2>4. FileInv'
    BY <1>2, <2>1, <2>2, <2>3, WholeShape, HandleTypes DEF FileInv, Follows
  <2> QED BY <1>2, <1>4, <2>1, <2>4 DEF LogStep, OpenRead
<1>5. CASE OpenFails(h)
  <2>1. \A g \in Handle : handle'[g].status # "open"
    <3>1. handle'[h].status = "none" /\ \A g \in Handle \ {h} : handle'[g] = handle[g]
      BY <1>1, <1>5 DEF OpenFails, NoHandle
    <3>2. \A g \in Handle \ {h} : ~Live(g)
      BY <1>5 DEF OpenFails, StoreInv, SoleWriter, Live
    <3> QED BY <3>1, <3>2 DEF Live
  <2>2. Shaped(file') /\ Read(file').log = Read(file).log
    BY <1>2, <1>5, WholeShape DEF OpenFails, FileInv, Base
  <2> QED BY <1>5, <2>1, <2>2 DEF FileInv, LogStep, OpenFails
<1> QED BY <1>3, <1>4, <1>5

LEMMA ReferencesEffect ==
  ASSUME StoreInv, FileInv, NEW h \in Handle,
         Close(h) \/ Clone(h) \/ Drop(h) \/ Release(h)
  PROVE  FileInv' /\ LogStep
<1>1. handle \in [Handle -> HandleState] /\ handle[h] \in HandleState
  BY DEF StoreInv, TypeOK
<1>2. file' = file /\ acked' = acked
  BY DEF Close, Clone, Drop, Release
<1>3. \A g \in Handle \ {h} : handle'[g] = handle[g]
  BY <1>1 DEF Close, Clone, Drop, Release
<1>4. handle'[h].status = "open" =>
        /\ handle[h].status = "open"
        /\ handle'[h].bytes = handle[h].bytes /\ handle'[h].pos = handle[h].pos
        /\ handle'[h].nextSeq = handle[h].nextSeq
  <2>1. CASE Close(h)
    BY <1>1, <2>1 DEF Close, Retired
  <2>2. CASE Clone(h)
    BY <1>1, <2>2 DEF Clone, HandleState
  <2>3. CASE Drop(h)
    BY <1>1, <2>3 DEF Drop, Retired, HandleState
  <2>4. CASE Release(h)
    BY <1>1, <2>4 DEF Release, NoHandle, HandleState
  <2> QED BY <2>1, <2>2, <2>3, <2>4
<1> QED BY <1>2, <1>3, <1>4, SameFile DEF LogStep

(* What is spoiled stays so.                                                *)
LEMMA SpoiledStays == [Next]_vars /\ ~spoiled' => ~spoiled
BY DEF Next, vars, Create, OpenRegister, OpenRead, OpenFails, Close, Clone, Drop, Release,
       AppendCommits, AppendFails, CrashInAppend, Crash, CrashInCreate

(* A step that writes no line behind a torn one keeps the file in shape and *)
(* the log growing.                                                         *)
LEMMA FileStep ==
  ASSUME StoreInv, FileInv, [Next]_vars, ~spoiled'
  PROVE  FileInv' /\ LogStep /\ spoiled' = spoiled
<1>1. ASSUME NEW h \in Handle,
             \/ Create(h) \/ OpenRegister(h) \/ OpenRead(h) \/ OpenFails(h)
             \/ Close(h) \/ Clone(h) \/ Drop(h) \/ Release(h)
      PROVE  FileInv' /\ LogStep
  BY <1>1, CreationEffect, OpenEffect, ReferencesEffect
<1>2. ASSUME NEW h \in Handle, NEW t \in Txn, AppendCommits(h, t) \/ AppendFails(h, t)
      PROVE  FileInv' /\ LogStep
  BY <1>2, CommitEffect, FailureEffect
<1>3. ASSUME NEW h \in Handle, NEW t \in Txn, CrashInAppend(h, t)
      PROVE  FileInv' /\ LogStep
  BY <1>3, DeathEffect
<1>4. ASSUME Crash \/ CrashInCreate PROVE FileInv' /\ LogStep
  BY <1>4, DeathEffect
<1>5. ASSUME UNCHANGED vars PROVE FileInv' /\ LogStep
  BY <1>5 DEF vars, FileInv, Follows, LogStep
<1>6. FileInv' /\ LogStep
  BY <1>1, <1>2, <1>3, <1>4, <1>5 DEF Next
<1>7. spoiled' = spoiled
  BY SpoiledStays, StoreStep DEF StoreInv, TypeOK
<1> QED BY <1>6, <1>7

LEMMA FileStarts == Init => FileInv
BY NothingIsStub DEF Init, FileInv, Shaped, NoHandle

(* The file is in shape, as long as no line was written behind a torn one.  *)
ShapedUnlessSpoiled == spoiled \/ FileInv

LEMMA ShapeStep ==
  StoreInv /\ ShapedUnlessSpoiled /\ [Next]_vars => ShapedUnlessSpoiled'
<1> SUFFICES ASSUME StoreInv, ShapedUnlessSpoiled, [Next]_vars, ~spoiled' PROVE FileInv'
  BY DEF ShapedUnlessSpoiled, StoreInv, TypeOK
<1>1. ~spoiled
  BY SpoiledStays
<1> QED BY <1>1, FileStep DEF ShapedUnlessSpoiled

(* What a store has in memory is what a reader of the file would find, up   *)
(* to the first line that a caller writes behind a torn one, however many   *)
(* writes stop short and processes die.                                     *)
THEOREM MemoryIsFileAlways == Spec => []MemoryIsFile
<1>1. StoreInv /\ ShapedUnlessSpoiled => MemoryIsFile
  <2> SUFFICES ASSUME StoreInv, FileInv, NEW h \in Handle, handle[h].status = "open"
               PROVE  /\ IsPrefix(handle[h].bytes, file)
                      /\ handle[h].pos = Len(file)
                      /\ Read(file) = Read(handle[h].bytes) /\ Read(file).ok
                      /\ handle[h].nextSeq = Read(file).nextSeq
    BY DEF MemoryIsFile, ShapedUnlessSpoiled
  <2>1. Follows(h)
    BY DEF FileInv
  <2>2. IsPrefix(Base(file), file)
    <3>1. file \in Seq(Unit) /\ RepairedLength(file) \in 0..Len(file)
      BY LastFeed DEF StoreInv, TypeOK
    <3> QED BY <3>1 DEF Base, Cut, IsPrefix
  <2>3. Base(handle[h].bytes) = handle[h].bytes /\ Read(handle[h].bytes).ok
    BY <2>1, WholeIsRead DEF Follows, Base
  <2>4. Read(file) = Read(handle[h].bytes)
    BY <2>1, <2>3 DEF Read, Follows, Base
  <2> QED BY <2>1, <2>2, <2>3, <2>4 DEF Follows
<1>2. Init => ShapedUnlessSpoiled
  BY FileStarts DEF ShapedUnlessSpoiled
<1> QED BY <1>1, <1>2, StoreStarts, StoreStep, ShapeStep, PTL DEF Spec

(* The store implements the log that the documentation promises: to a      *)
(* reader of the file, every step appends one transaction or changes        *)
(* nothing, and the appends that resolve are the ones that say so, until a  *)
(* line is written behind a torn one.                                       *)
THEOREM LogIsImplemented == Spec => ImplementsLog
<1>1. Init => Log!Init
  BY NothingIsStub, StubReads DEF Init, Log!Init
<1>2. StoreInv /\ ShapedUnlessSpoiled /\ [Next]_vars
        => [Log!Next]_<<Read(file).log, acked, spoiled>>
  <2> SUFFICES ASSUME StoreInv, ShapedUnlessSpoiled, [Next]_vars
               PROVE  [Log!Next]_<<Read(file).log, acked, spoiled>>
    OBVIOUS
  <2>1. CASE spoiled'
    <3>1. spoiled' = TRUE
      BY <2>1, StoreStep DEF StoreInv, TypeOK
    <3> QED BY <3>1 DEF Log!Next, Log!Damage
  <2>2. CASE ~spoiled'
    <3>1. LogStep /\ spoiled' = spoiled
      BY <2>2, SpoiledStays, FileStep DEF ShapedUnlessSpoiled
    <3> QED BY <3>1 DEF LogStep, Log!Next
  <2> QED BY <2>1, <2>2
<1>3. Init => ShapedUnlessSpoiled
  BY FileStarts DEF ShapedUnlessSpoiled
<1> QED BY <1>1, <1>2, <1>3, StoreStarts, StoreStep, ShapeStep, PTL
        DEF Spec, ImplementsLog, Log!Spec

(* A prefix stays one when the longer sequence grows.                       *)
LEMMA PrefixGrows ==
  ASSUME NEW a \in Seq(Txn), NEW l \in Seq(Txn), NEW t \in Txn, IsPrefix(a, l)
  PROVE  IsPrefix(a, Append(l, t))
<1> DEFINE m == Append(l, t)
<1>1. /\ Len(a) \in Nat /\ Len(l) \in Nat /\ Len(a) <= Len(l)
      /\ SubSeq(a, 1, Len(a)) = SubSeq(l, 1, Len(a))
  BY DEF IsPrefix
<1>2. m \in Seq(Txn) /\ Len(m) = Len(l) + 1 /\ \A i \in 1..Len(l) : m[i] = l[i]
  OBVIOUS
<1>3. SubSeq(l, 1, Len(a)) = SubSeq(m, 1, Len(a))
  <2> HIDE DEF m
  <2> QED BY <1>1, <1>2
<1> HIDE DEF m
<1> QED BY <1>1, <1>2, <1>3 DEF IsPrefix

(* docs/session-design.md:569: the transactions that an append has         *)
(* resolved for are in the file whenever it is read again, whatever torn    *)
(* lines and crashes came in between, unless a line was written behind a    *)
(* torn one: then the run torn_write shows that they may be lost.           *)
THEOREM AckedIsKeptAlways == Spec => [](spoiled \/ AckedIsKept)
<1> DEFINE Kept == spoiled \/ AckedIsKept
<1>1. Init => Kept
  <2> SUFFICES ASSUME Init PROVE AckedIsKept
    OBVIOUS
  <2>1. acked = << >> /\ Read(file).log \in Seq(Txn)
    BY NothingIsStub, StubReads, ReadType DEF Init
  <2> QED BY <2>1 DEF AckedIsKept, IsPrefix
<1>2. StoreInv /\ ShapedUnlessSpoiled /\ Kept /\ [Next]_vars => Kept'
  <2> SUFFICES ASSUME StoreInv, FileInv, AckedIsKept, [Next]_vars, ~spoiled'
               PROVE  AckedIsKept'
    BY SpoiledStays DEF ShapedUnlessSpoiled
  <2>1. acked \in Seq(Txn) /\ Read(file).log \in Seq(Txn)
    BY ReadType DEF StoreInv, TypeOK
  <2>2. LogStep
    BY FileStep
  <2>3. CASE UNCHANGED <<Read(file).log, acked>>
    BY <2>2, <2>3 DEF AckedIsKept
  <2>4. ASSUME NEW t \in Txn, Read(file)'.log = Append(Read(file).log, t),
               acked' = Read(file)'.log \/ acked' = acked
        PROVE  AckedIsKept'
    <3>1. CASE acked' = acked
      BY <2>1, <2>4, <3>1, PrefixGrows DEF AckedIsKept
    <3>2. CASE acked' = Read(file)'.log
      <4>1. acked' \in Seq(Txn)
        BY <2>1, <2>4, <3>2
      <4> QED BY <3>2, <4>1 DEF AckedIsKept, IsPrefix
    <3> QED BY <2>4, <3>1, <3>2
  <2> QED BY <2>2, <2>3, <2>4 DEF LogStep, Log!Accept, Log!Leave
<1>3. Init => ShapedUnlessSpoiled
  BY FileStarts DEF ShapedUnlessSpoiled
<1> QED BY <1>1, <1>2, <1>3, StoreStarts, StoreStep, ShapeStep, PTL DEF Spec

=============================================================================
