--------------------------- MODULE LocalAclProofs ---------------------------
(***************************************************************************)
(* Proofs about LocalAcl, for any processes, addresses, lengths of the     *)
(* file, faults and times.                                                 *)
(***************************************************************************)
EXTENDS LocalAcl, AclLockProofs, LinesProofs

----------------------------------------------------------------------------
(* Lines and entries.                                                       *)

Rule == [addr : Addr, expire : Int \cup {Unlimited}]

\* A line is a rule, or one of two marks that are no rules.
LEMMA LineKinds ==
  /\ Line = {Comment, Bad} \cup Rule
  /\ Comment \notin Rule /\ Bad \notin Rule
  /\ \A l \in Line : l \notin {Comment, Bad} <=> l \in Rule
  BY LinesAssumption DEF Line, Rule

\* The entry of an address is Absent just when there is no rule of it, and the
\* rule's expire when there is one.
LEMMA EntryIs ==
  ASSUME NEW f \in Seq(Line), NEW a \in Addr
  PROVE  /\ Entry(f, a) \in Int \cup {Absent, Unlimited}
         /\ Entry(f, a) = Absent <=> RulesOf(f, a) = {}
         /\ \A i \in RulesOf(f, a) : f[i] \in Rule
         /\ OneLine(f) => \A i \in RulesOf(f, a) : Entry(f, a) = f[i].expire
<1>1. DOMAIN f \subseteq Nat  BY LenProperties
<1>2. \A i \in RulesOf(f, a) : f[i] \in Rule
  BY LineKinds, ElementOfSeq, LenProperties DEF RulesOf
<1>3. CASE RulesOf(f, a) = {}
  BY <1>3 DEF Entry
<1>4. CASE RulesOf(f, a) # {}
  <2>1. RulesOf(f, a) \subseteq Nat  BY <1>1 DEF RulesOf
  <2>2. \E m \in RulesOf(f, a) : \A n \in RulesOf(f, a) : m <= n
    BY <1>4, <2>1, LeastOf
  <2>3. Min(RulesOf(f, a)) \in RulesOf(f, a)  BY <2>2 DEF Min
  <2>4. Entry(f, a) = f[Min(RulesOf(f, a))].expire  BY <1>4 DEF Entry
  <2>5. Entry(f, a) \in Int \cup {Unlimited}  BY <1>2, <2>3, <2>4 DEF Rule
  <2>6. Entry(f, a) # Absent  BY <2>5, LinesAssumption
  <2>7. OneLine(f) => \A i \in RulesOf(f, a) : Entry(f, a) = f[i].expire
    BY <2>3, <2>4 DEF OneLine
  <2> QED  BY <1>2, <1>4, <2>5, <2>6, <2>7
<1> QED  BY <1>2, <1>3, <1>4

\* The rules that a filter keeps are rules of the file; those it does not keep
\* fail its test; and none becomes two.
LEMMA FilteredRules ==
  ASSUME NEW f \in Seq(Line), NEW j
  PROVE  /\ Filtered(j, f) \in Seq(Line)
         /\ \E at \in [DOMAIN Filtered(j, f) -> DOMAIN f] :
              /\ \A k, l \in DOMAIN Filtered(j, f) : at[k] = at[l] => k = l
              /\ \A a \in Addr : \A k \in RulesOf(Filtered(j, f), a) :
                   /\ at[k] \in RulesOf(f, a)
                   /\ Filtered(j, f)[k] = f[at[k]]
                   /\ Keeps(j, f[at[k]])
              /\ \A a \in Addr : \A i \in RulesOf(f, a) :
                   Keeps(j, f[i]) =>
                     \E k \in RulesOf(Filtered(j, f), a) : Filtered(j, f)[k] = f[i]
<1> DEFINE g == [i \in DOMAIN f |-> IF f[i] = Bad THEN Comment ELSE f[i]]
           S == {l \in ToSet(g) : l = Comment \/ Keeps(j, l)}
           t == Kept(g, S)
<1>1. PICK n \in Nat : n = Len(f) /\ DOMAIN f = 1..n  BY LenProperties
<1>2. \A i \in 1..n : f[i] \in Line  BY <1>1, ElementOfSeq
<1>3. \A i \in 1..n : g[i] \in Line  BY <1>1, <1>2 DEF Line
<1>4. g \in Seq(Line) /\ Len(g) = n
  <2>1. g \in [1..n -> Line]  BY <1>1, <1>3
  <2> QED  BY <2>1
<1>5. t \in Seq(Line)  BY <1>4, KeptEmbeds
<1>6. PICK at : Embeds(g, S, n, t, at)  BY <1>4, KeptEmbeds
<1>7. PICK m \in Nat : m = Len(t) /\ DOMAIN t = 1..m  BY <1>5, LenProperties
<1>8. Filtered(j, f) = t  BY DEF Filtered
<1>9. /\ at \in [1..m -> 1..n]
      /\ \A k \in 1..m : t[k] = g[at[k]] /\ t[k] \in S
      /\ \A k, l \in 1..m : k < l => at[k] < at[l]
      /\ \A i \in 1..n : g[i] \in S => \E k \in 1..m : at[k] = i
  BY <1>6, <1>7 DEF Embeds
<1>10. \A i \in 1..n : g[i] \in ToSet(g)  BY <1>1 DEF ToSet
<1>11. \A i \in 1..n : g[i] \notin {Comment, Bad} => g[i] = f[i] /\ f[i] \notin {Comment, Bad}
  BY <1>1
<1>12. \A i \in 1..n : f[i] \notin {Comment, Bad} => g[i] = f[i]
  BY <1>1
<1>13. \A l \in S : l \notin {Comment, Bad} => Keeps(j, l)  OBVIOUS
<1>14. \A l \in ToSet(g) : Keeps(j, l) => l \in S  OBVIOUS
<1> HIDE DEF g, S, t
<1>15. \A k, l \in 1..m : at[k] = at[l] => k = l
  <2> SUFFICES ASSUME NEW k \in 1..m, NEW l \in 1..m, at[k] = at[l], k # l
               PROVE  FALSE
    OBVIOUS
  <2>1. at[k] \in 1..n /\ at[l] \in 1..n  BY <1>9
  <2>2. k < l \/ l < k  OBVIOUS
  <2> QED  BY <1>9, <2>1, <2>2
<1>16. ASSUME NEW a \in Addr, NEW k \in RulesOf(t, a)
       PROVE  at[k] \in RulesOf(f, a) /\ t[k] = f[at[k]] /\ Keeps(j, f[at[k]])
  <2>1. k \in 1..m /\ t[k] \notin {Comment, Bad} /\ t[k].addr = a  BY <1>7 DEF RulesOf
  <2>2. t[k] = g[at[k]] /\ t[k] \in S /\ at[k] \in 1..n  BY <1>9, <2>1
  <2> QED  BY <1>1, <1>11, <1>13, <2>1, <2>2 DEF RulesOf
<1>17. ASSUME NEW a \in Addr, NEW i \in RulesOf(f, a), Keeps(j, f[i])
       PROVE  \E k \in RulesOf(t, a) : t[k] = f[i]
  <2>1. i \in 1..n /\ f[i] \notin {Comment, Bad} /\ f[i].addr = a  BY <1>1 DEF RulesOf
  <2>2. g[i] = f[i] /\ g[i] \in S  BY <1>10, <1>12, <1>14, <1>17, <2>1
  <2>3. PICK k \in 1..m : at[k] = i  BY <1>9, <2>1, <2>2
  <2>4. t[k] = f[i]  BY <1>9, <2>2, <2>3
  <2> QED  BY <1>7, <2>1, <2>4 DEF RulesOf
<1>18. /\ at \in [DOMAIN t -> DOMAIN f]
       /\ \A k, l \in DOMAIN t : at[k] = at[l] => k = l
  BY <1>1, <1>7, <1>9, <1>15
<1>19. /\ \A a \in Addr : \A k \in RulesOf(t, a) :
            at[k] \in RulesOf(f, a) /\ t[k] = f[at[k]] /\ Keeps(j, f[at[k]])
       /\ \A a \in Addr : \A i \in RulesOf(f, a) :
            Keeps(j, f[i]) => \E k \in RulesOf(t, a) : t[k] = f[i]
  BY <1>16, <1>17
<1> QED  BY <1>5, <1>8, <1>18, <1>19

\* A filter on a file with one line for each address: the entries that pass the
\* test stay.
LEMMA FilteredEntry ==
  ASSUME NEW f \in Seq(Line), OneLine(f), NEW j
  PROVE  /\ OneLine(Filtered(j, f))
         /\ \A a \in Addr :
              Entry(Filtered(j, f), a) =
                IF Entry(f, a) # Absent /\ Keeps(j, [addr |-> a, expire |-> Entry(f, a)])
                THEN Entry(f, a) ELSE Absent
<1> DEFINE t == Filtered(j, f)
<1>1. PICK at \in [DOMAIN t -> DOMAIN f] :
              /\ \A k, l \in DOMAIN t : at[k] = at[l] => k = l
              /\ \A a \in Addr : \A k \in RulesOf(t, a) :
                   /\ at[k] \in RulesOf(f, a)
                   /\ t[k] = f[at[k]]
                   /\ Keeps(j, f[at[k]])
              /\ \A a \in Addr : \A i \in RulesOf(f, a) :
                   Keeps(j, f[i]) => \E k \in RulesOf(t, a) : t[k] = f[i]
  BY FilteredRules
<1>2. t \in Seq(Line)  BY FilteredRules
<1> HIDE DEF t
<1>3. OneLine(t)
  <2> SUFFICES ASSUME NEW a \in Addr, NEW k \in RulesOf(t, a), NEW l \in RulesOf(t, a)
               PROVE  k = l
    BY DEF OneLine
  <2>1. at[k] = at[l]  BY <1>1 DEF OneLine
  <2> QED  BY <1>1, <2>1 DEF RulesOf
<1>4. ASSUME NEW a \in Addr
      PROVE  Entry(t, a) = IF Entry(f, a) # Absent /\ Keeps(j, [addr |-> a, expire |-> Entry(f, a)])
                           THEN Entry(f, a) ELSE Absent
  <2>1. \A i \in RulesOf(f, a) : f[i] = [addr |-> a, expire |-> Entry(f, a)]
    BY EntryIs DEF Rule, RulesOf
  <2>2. CASE RulesOf(t, a) # {}
    <3>1. PICK k \in RulesOf(t, a) : TRUE  BY <2>2
    <3>2. at[k] \in RulesOf(f, a) /\ t[k] = f[at[k]] /\ Keeps(j, f[at[k]])  BY <1>1, <3>1
    <3>3. Entry(t, a) = t[k].expire  BY <1>2, <1>3, <3>1, EntryIs
    <3>4. Entry(f, a) # Absent  BY <3>2, EntryIs
    <3> QED  BY <2>1, <3>2, <3>3, <3>4
  <2>3. CASE RulesOf(t, a) = {}
    <3>1. Entry(t, a) = Absent  BY <1>2, <2>3, EntryIs
    <3>2. ASSUME Entry(f, a) # Absent  PROVE ~Keeps(j, [addr |-> a, expire |-> Entry(f, a)])
      <4>1. PICK i \in RulesOf(f, a) : TRUE  BY <3>2, EntryIs
      <4> QED  BY <1>1, <2>1, <2>3, <4>1
    <3> QED  BY <3>1, <3>2
  <2> QED  BY <2>2, <2>3
<1> QED  BY <1>3, <1>4 DEF t

\* The addresses of a file are those that have a rule in it.
LEMMA AddrsAre ==
  ASSUME NEW f \in Seq(Line)
  PROVE  \A a \in Addr : a \in AddrsOf(f) <=> RulesOf(f, a) # {}
  BY EntryIs DEF AddrsOf

\* No filter adds an address.
LEMMA FilteredAddrs ==
  ASSUME NEW f \in Seq(Line), NEW j
  PROVE  AddrsOf(Filtered(j, f)) \subseteq AddrsOf(f)
  BY FilteredRules, AddrsAre DEF AddrsOf

\* The first lines of a file have no other addresses.
LEMMA TakeAddrs ==
  ASSUME NEW f \in Seq(Line), NEW n \in 0..Len(f)
  PROVE  /\ SubSeq(f, 1, n) \in Seq(Line)
         /\ AddrsOf(SubSeq(f, 1, n)) \subseteq AddrsOf(f)
<1>1. n \in Nat /\ Len(f) \in Nat /\ n <= Len(f) /\ DOMAIN f = 1..Len(f)  BY LenProperties
<1>2. \A i \in 1..n : f[i] \in Line  BY <1>1, ElementOfSeq
<1>3. /\ SubSeq(f, 1, n) \in Seq(Line)
      /\ Len(SubSeq(f, 1, n)) = n
      /\ \A i \in 1..n : SubSeq(f, 1, n)[i] = f[i]
  BY <1>1, <1>2, SubSeqProperties
<1>4. DOMAIN SubSeq(f, 1, n) = 1..n  BY <1>3, LenProperties
<1>5. \A a \in Addr : RulesOf(SubSeq(f, 1, n), a) \subseteq RulesOf(f, a)
  BY <1>1, <1>3, <1>4 DEF RulesOf
<1> QED  BY <1>3, <1>5, AddrsAre DEF AddrsOf

\* A line is added: its rule is one more.
LEMMA AppendRules ==
  ASSUME NEW f \in Seq(Line), NEW l \in Line
  PROVE  /\ Append(f, l) \in Seq(Line)
         /\ Append(f, l) # <<>>
         /\ \A a \in Addr :
              RulesOf(Append(f, l), a) =
                RulesOf(f, a) \cup (IF l \notin {Comment, Bad} /\ l.addr = a THEN {Len(f) + 1} ELSE {})
         /\ \A i \in DOMAIN f : Append(f, l)[i] = f[i]
         /\ Append(f, l)[Len(f) + 1] = l
<1>1. PICK n \in Nat : n = Len(f) /\ DOMAIN f = 1..n  BY LenProperties
<1>2. /\ Append(f, l) \in Seq(Line)
      /\ Len(Append(f, l)) = n + 1
      /\ \A i \in 1..n : Append(f, l)[i] = f[i]
      /\ Append(f, l)[n + 1] = l
  BY <1>1, AppendProperties
<1>3. DOMAIN Append(f, l) = 1..(n + 1)  BY <1>2, LenProperties
<1>4. Append(f, l) # <<>>  BY <1>2
<1>5. ASSUME NEW a \in Addr
      PROVE  RulesOf(Append(f, l), a) =
               RulesOf(f, a) \cup (IF l \notin {Comment, Bad} /\ l.addr = a THEN {n + 1} ELSE {})
  <2>1. \A i \in 1..(n + 1) : i \in 1..n \/ i = n + 1  OBVIOUS
  <2> QED  BY <1>1, <1>2, <1>3, <2>1 DEF RulesOf
<1> QED  BY <1>1, <1>2, <1>4, <1>5

\* A rule is appended for an address that has none.
LEMMA AppendEntry ==
  ASSUME NEW f \in Seq(Line), OneLine(f), NEW a \in Addr, RulesOf(f, a) = {},
         NEW e \in Int \cup {Unlimited}
  PROVE  LET g == Append(f, [addr |-> a, expire |-> e])
         IN  /\ OneLine(g)
             /\ \A b \in Addr : Entry(g, b) = IF b = a THEN e ELSE Entry(f, b)
<1> DEFINE l == [addr |-> a, expire |-> e]
           g == Append(f, l)
<1>1. l \in Rule /\ l.addr = a /\ l.expire = e  BY DEF Rule
<1>2. l \in Line /\ l \notin {Comment, Bad}  BY <1>1, LineKinds
<1>3. /\ g \in Seq(Line)
      /\ \A b \in Addr : RulesOf(g, b) = RulesOf(f, b) \cup (IF b = a THEN {Len(f) + 1} ELSE {})
      /\ \A i \in DOMAIN f : g[i] = f[i]
      /\ g[Len(f) + 1] = l
  BY <1>1, <1>2, AppendRules
<1> HIDE DEF g, l
<1>4. RulesOf(g, a) = {Len(f) + 1}  BY <1>3
<1>5. \A b \in Addr \ {a} : RulesOf(g, b) = RulesOf(f, b)  BY <1>3
<1>6. OneLine(g)  BY <1>4, <1>5 DEF OneLine
<1>7. Entry(g, a) = e  BY <1>1, <1>3, <1>4, <1>6, EntryIs
<1>8. ASSUME NEW b \in Addr \ {a}  PROVE Entry(g, b) = Entry(f, b)
  <2>1. CASE RulesOf(f, b) = {}  BY <1>3, <1>5, <2>1, EntryIs
  <2>2. CASE RulesOf(f, b) # {}
    <3>1. PICK i \in RulesOf(f, b) : TRUE  BY <2>2
    <3>2. i \in DOMAIN f /\ i \in RulesOf(g, b)  BY <1>5, <3>1 DEF RulesOf
    <3> QED  BY <1>3, <1>6, <3>1, <3>2, EntryIs
  <2> QED  BY <2>1, <2>2
<1> QED  BY <1>6, <1>7, <1>8 DEF g, l

\* The addresses of a file, and those that a cut line of theirs may be taken for.
Garblings(S) == S \cup UNION {Garbled(a) : a \in S}

\* What is cut twice is cut.
LEMMA GarbledTwice ==
  ASSUME NEW S \in SUBSET Addr, NEW T \in SUBSET Garblings(S)
  PROVE  Garblings(S) \subseteq Addr /\ Garblings(T) \subseteq Garblings(S)
  BY LinesAssumption DEF Garblings

\* A line that is cut is no rule, or the rule of its address or of one that this may
\* be taken for.
LEMMA CutLines ==
  ASSUME NEW l \in Line, NEW c \in CutLine(l)
  PROVE  /\ c \in Line
         /\ c \notin {Comment, Bad} =>
              l \notin {Comment, Bad} /\ c.addr \in {l.addr} \cup Garbled(l.addr)
<1>1. CASE l \in {Comment, Bad}  BY <1>1 DEF CutLine, Line
<1>2. CASE l \notin {Comment, Bad}
  <2>1. l.addr \in Addr /\ l.expire \in Int \cup {Unlimited}  BY <1>2, LineKinds DEF Rule
  <2>2. Garbled(l.addr) \subseteq Addr  BY <2>1, LinesAssumption
  <2>3. CutExpires(l.expire) \subseteq Int \cup {Unlimited}  BY <2>1 DEF CutExpires, LongAgo
  <2>4. \/ c = Bad
        \/ c \in [addr : {l.addr}, expire : CutExpires(l.expire)]
        \/ c \in [addr : Garbled(l.addr), expire : {Unlimited}]
    BY <1>2 DEF CutLine
  <2>5. c = Bad \/ (c \in Rule /\ c.addr \in {l.addr} \cup Garbled(l.addr))
    BY <2>1, <2>2, <2>3, <2>4 DEF Rule
  <2> QED  BY <1>2, <2>5, LineKinds
<1> QED  BY <1>1, <1>2

\* So is a rule that is appended to a cut line, which may also be the cut one's.
LEMMA MergedLines ==
  ASSUME NEW l \in Line, NEW new \in Rule, NEW c \in MergedRules(l, new)
  PROVE  /\ c \in Line
         /\ c \notin {Comment, Bad} =>
              \/ l \notin {Comment, Bad} /\ c.addr = l.addr
              \/ c.addr \in {new.addr} \cup Garbled(new.addr)
<1>1. new.addr \in Addr /\ new.expire \in Int \cup {Unlimited}  BY DEF Rule
<1>2. Garbled(new.addr) \subseteq Addr  BY <1>1, LinesAssumption
<1>3. \A g \in GluedRules(new) : g \in Rule /\ g.addr \in Garbled(new.addr)
  BY <1>1, <1>2 DEF GluedRules, Rule
<1>4. CASE l = Comment  BY <1>4, LinesAssumption DEF MergedRules, Line
<1>5. CASE l = Bad
  <2>1. c = Bad \/ c = new \/ c \in GluedRules(new)
    BY <1>5, LinesAssumption DEF MergedRules
  <2> QED  BY <1>3, <2>1, LineKinds
<1>6. CASE l \notin {Comment, Bad}
  <2>1. l.addr \in Addr /\ l.expire \in Int \cup {Unlimited}  BY <1>6, LineKinds DEF Rule
  <2>2. LongAgo \in Int /\ FarAhead \in Int
    BY LinesAssumption DEF LongAgo, FarAhead
  <2>3. \/ c = Bad \/ c \in GluedRules(new)
        \/ c \in [addr : {l.addr}, expire : {Unlimited, LongAgo, l.expire, FarAhead}]
    BY <1>6 DEF MergedRules
  <2>4. \/ c = Bad \/ c \in GluedRules(new) \/ (c \in Rule /\ c.addr = l.addr)
    BY <2>1, <2>2, <2>3 DEF Rule
  <2> QED  BY <1>3, <1>6, <2>4, LineKinds
<1> QED  BY <1>4, <1>5, <1>6

\* A line that is added brings in its own address at most.
LEMMA AppendAddrs ==
  ASSUME NEW f \in Seq(Line), NEW l \in Line
  PROVE  /\ Append(f, l) \in Seq(Line) /\ Append(f, l) # <<>>
         /\ \A a \in AddrsOf(Append(f, l)) :
              a \in AddrsOf(f) \/ (l \notin {Comment, Bad} /\ a = l.addr)
<1> DEFINE g == Append(f, l)
<1>1. /\ g \in Seq(Line) /\ g # <<>>
      /\ \A a \in Addr : RulesOf(g, a) = RulesOf(f, a) \cup
           (IF l \notin {Comment, Bad} /\ l.addr = a THEN {Len(f) + 1} ELSE {})
  BY AppendRules
<1> HIDE DEF g
<1>2. ASSUME NEW a \in AddrsOf(g), ~(l \notin {Comment, Bad} /\ a = l.addr)
      PROVE  a \in AddrsOf(f)
  <2>1. a \in Addr /\ RulesOf(g, a) # {}  BY <1>1, AddrsAre DEF AddrsOf
  <2>2. RulesOf(f, a) # {}  BY <1>1, <1>2, <2>1
  <2> QED  BY <2>1, <2>2, AddrsAre
<1> QED  BY <1>1, <1>2 DEF g

\* So does a line in the place of the last of some first lines.
LEMMA BrokenEnd ==
  ASSUME NEW f \in Seq(Line), NEW n \in 1..Len(f), NEW c \in Line
  PROVE  LET g == Append(SubSeq(f, 1, n - 1), c)
         IN  /\ g \in Seq(Line) /\ g # <<>>
             /\ \A a \in AddrsOf(g) : a \in AddrsOf(f) \/ (c \notin {Comment, Bad} /\ a = c.addr)
             /\ f[n] \in Line
             /\ f[n] \notin {Comment, Bad} => f[n].addr \in AddrsOf(f)
<1> DEFINE h == SubSeq(f, 1, n - 1)
<1>1. n - 1 \in 0..Len(f) /\ n \in DOMAIN f  BY LenProperties
<1>2. h \in Seq(Line) /\ AddrsOf(h) \subseteq AddrsOf(f)  BY <1>1, TakeAddrs
<1>3. f[n] \in Line  BY <1>1, ElementOfSeq
<1>4. ASSUME f[n] \notin {Comment, Bad}  PROVE f[n].addr \in AddrsOf(f)
  <2>1. f[n].addr \in Addr  BY <1>3, <1>4, LineKinds DEF Rule
  <2>2. n \in RulesOf(f, f[n].addr)  BY <1>1, <1>4 DEF RulesOf
  <2> QED  BY <2>1, <2>2, AddrsAre
<1> HIDE DEF h
<1>5. /\ Append(h, c) \in Seq(Line) /\ Append(h, c) # <<>>
      /\ \A a \in AddrsOf(Append(h, c)) : a \in AddrsOf(h) \/ (c \notin {Comment, Bad} /\ a = c.addr)
  BY <1>2, AppendAddrs
<1> QED  BY <1>2, <1>3, <1>4, <1>5 DEF h

\* A file that is cut has no addresses but its own and what these may be taken
\* for; a cut line is its last.
LEMMA CutAddrs ==
  ASSUME NEW f \in Seq(Line), NEW t \in BOOLEAN, NEW c \in CutFiles(f, t)
  PROVE  /\ c.file \in Seq(Line) /\ AddrsOf(c.file) \subseteq Garblings(AddrsOf(f))
         /\ c.torn \in BOOLEAN /\ (c.torn => c.file # <<>>)
<1>1. CASE \E n \in 0..Len(f) :
             c = [file |-> SubSeq(f, 1, n), torn |-> t /\ n > 0 /\ n = Len(f)]
  <2>1. PICK n \in 0..Len(f) :
          c = [file |-> SubSeq(f, 1, n), torn |-> t /\ n > 0 /\ n = Len(f)]
    BY <1>1
  <2>2. SubSeq(f, 1, n) \in Seq(Line) /\ AddrsOf(SubSeq(f, 1, n)) \subseteq AddrsOf(f)
    BY TakeAddrs
  <2>3. ASSUME n > 0  PROVE SubSeq(f, 1, n) # <<>>
    <3>1. n \in Nat /\ Len(f) \in Nat /\ n <= Len(f) /\ DOMAIN f = 1..Len(f)  BY LenProperties
    <3>2. \A i \in 1..n : f[i] \in Line  BY <3>1, ElementOfSeq
    <3>3. Len(SubSeq(f, 1, n)) = n  BY <3>1, <3>2, SubSeqProperties
    <3> QED  BY <2>3, <3>3
  <2> QED  BY <2>1, <2>2, <2>3 DEF Garblings
<1>2. CASE \E n \in 1..Len(f) : \E l \in CutLine(f[n]) :
             c = [file |-> Append(SubSeq(f, 1, n - 1), l), torn |-> TRUE]
  <2>1. PICK n \in 1..Len(f) : \E l \in CutLine(f[n]) :
          c = [file |-> Append(SubSeq(f, 1, n - 1), l), torn |-> TRUE]
    BY <1>2
  <2>2. PICK l \in CutLine(f[n]) : c = [file |-> Append(SubSeq(f, 1, n - 1), l), torn |-> TRUE]
    BY <2>1
  <2>3. f[n] \in Line  BY ElementOfSeq
  <2>4. /\ l \in Line
        /\ l \notin {Comment, Bad} =>
             f[n] \notin {Comment, Bad} /\ l.addr \in {f[n].addr} \cup Garbled(f[n].addr)
    BY <2>2, <2>3, CutLines
  <2>5. /\ c.file \in Seq(Line) /\ c.file # <<>>
        /\ \A a \in AddrsOf(c.file) : a \in AddrsOf(f) \/ (l \notin {Comment, Bad} /\ a = l.addr)
        /\ f[n] \notin {Comment, Bad} => f[n].addr \in AddrsOf(f)
    BY <2>2, <2>4, BrokenEnd
  <2>6. AddrsOf(c.file) \subseteq Garblings(AddrsOf(f))  BY <2>4, <2>5 DEF Garblings
  <2> QED  BY <2>2, <2>5, <2>6
<1> QED  BY <1>1, <1>2 DEF CutFiles

\* A rule that is appended to a cut line brings in its own address, or one that this
\* may be taken for.
LEMMA MergedAddrs ==
  ASSUME NEW f \in Seq(Line), f # <<>>, NEW new \in Rule, NEW l \in MergedRules(Last(f), new)
  PROVE  /\ Append(Front(f), l) \in Seq(Line) /\ Append(Front(f), l) # <<>>
         /\ \A a \in AddrsOf(Append(Front(f), l)) :
              a \in AddrsOf(f) \/ a \in {new.addr} \cup Garbled(new.addr)
<1>1. Len(f) \in 1..Len(f)  BY LenProperties, EmptySeq
<1>2. f[Len(f)] \in Line  BY <1>1, ElementOfSeq
<1>3. /\ l \in Line
      /\ l \notin {Comment, Bad} =>
           \/ f[Len(f)] \notin {Comment, Bad} /\ l.addr = f[Len(f)].addr
           \/ l.addr \in {new.addr} \cup Garbled(new.addr)
  BY <1>2, MergedLines DEF Last
<1>4. /\ Append(Front(f), l) \in Seq(Line) /\ Append(Front(f), l) # <<>>
      /\ \A a \in AddrsOf(Append(Front(f), l)) :
           a \in AddrsOf(f) \/ (l \notin {Comment, Bad} /\ a = l.addr)
      /\ f[Len(f)] \notin {Comment, Bad} => f[Len(f)].addr \in AddrsOf(f)
  BY <1>1, <1>3, BrokenEnd DEF Front
<1> QED  BY <1>3, <1>4

----------------------------------------------------------------------------
(* The inductive invariant.                                                 *)

PCs == {"idle", "open", "flock", "begin", "filter", "move", "copy", "append", "close"}
Inside == {"begin", "filter", "move", "copy", "append"}

LocalTypeOK ==
  /\ pc \in [Proc -> PCs]
  /\ job \in [Proc -> Jobs \cup {NoJob}]
  /\ expire \in [Proc -> Int \cup {Absent, Unlimited}]
  /\ file \in Seq(Line) /\ tmp \in Seq(Line) /\ old \in Seq(Line)
  /\ torn \in BOOLEAN /\ (torn => file # <<>> /\ failures > 0)
  /\ tmpTorn \in BOOLEAN /\ (tmpTorn => tmp # <<>> /\ failures > 0)
  /\ now \in Times /\ failures \in Nat

\* Where a process is tells what it has locked.
ControlFits(p) ==
  /\ pc[p] \in {"idle", "open"} => fd[p] = NoInode
  /\ pc[p] # "idle" => job[p] \in Jobs
  /\ pc[p] \in Inside => held[p] = IF job[p].kind = "read" THEN "s" ELSE "x"
  /\ pc[p] \in Inside \ {"begin"} => job[p].kind # "read"
  /\ pc[p] = "append" => IsTopup(job[p])
  /\ pc[p] \in Inside \ {"begin"} /\ IsTopup(job[p]) => expire[p] # Absent

\* What a writer finds in the file and in its copy, whatever has failed: no
\* address that was not in the file when it got the lock, nor was a piece of one.
DataFits(p) ==
  pc[p] \in Inside /\ job[p].kind # "read" =>
    /\ pc[p] \in {"begin", "filter", "move"} => file = old
    /\ pc[p] \in {"move", "copy"} =>
         /\ AddrsOf(tmp) \subseteq Garblings(AddrsOf(old))
         /\ failures = 0 => AddrsOf(tmp) \subseteq AddrsOf(old)
    /\ pc[p] = "copy" => file = <<>>

\* And while nothing has failed: the copy is the file without the lines that go,
\* and the rule to append follows from the one that went.
CleanFits(p) ==
  LET a == job[p].addr
  IN  /\ pc[p] \in Inside \ {"begin"} /\ IsTopup(job[p]) =>
           Entry(old, a) # Unlimited /\ expire[p] = NewExpire(job[p], Entry(old, a))
      /\ pc[p] \in {"move", "copy"} => tmp = Filtered(job[p], old)
      /\ pc[p] = "append" =>
           /\ RulesOf(file, a) = {}
           /\ \A b \in Addr \ {a} : Entry(file, b) = Entry(old, b)

CleanInv ==
  failures = 0 =>
    ~torn /\ OneLine(file) /\ OneLine(old) /\ \A p \in Proc : CleanFits(p)

FilesInv ==
  /\ LocalTypeOK
  /\ LockInv
  /\ \A p \in Proc : ControlFits(p) /\ DataFits(p)

LocalInv == FilesInv /\ CleanInv

\* An administrator has written no two rules of an address.
OneLinesToBegin == \A f \in InitialFiles : OneLine(f)

----------------------------------------------------------------------------
(* Jobs, and what filter does for them.                                     *)

\* The parameters of a job.
LEMMA JobFields ==
  ASSUME NEW j \in Jobs
  PROVE  /\ j.kind \in {"read", "remove", "refresh", "topup", "whitelist"}
         /\ j.kind \in {"remove", "topup", "whitelist"} => j.addr \in Addr
         /\ j.kind \in {"refresh", "topup"} => j.t \in Times /\ j.t \in Int
         /\ j.kind = "topup" => j.dt \in Spans /\ j.dt \in Int
         /\ j.kind = "whitelist" => j = [kind |-> "whitelist", addr |-> j.addr]
         /\ IsTopup(j) <=> j.kind \in {"topup", "whitelist"}
<1>1. Times \subseteq Int /\ Spans \subseteq Int
  BY LinesAssumption DEF Times, Spans
<1>2. CASE j \in [kind : {"read"}]  BY <1>2 DEF IsTopup
<1>3. CASE j \in [kind : {"remove"}, addr : Addr]  BY <1>3 DEF IsTopup
<1>4. CASE j \in [kind : {"refresh"}, t : Times]  BY <1>1, <1>4 DEF IsTopup
<1>5. CASE j \in [kind : {"topup"}, addr : Addr, t : Times, dt : Spans]
  BY <1>1, <1>5 DEF IsTopup
<1>6. CASE j \in [kind : {"whitelist"}, addr : Addr]  BY <1>6 DEF IsTopup
<1> QED  BY <1>2, <1>3, <1>4, <1>5, <1>6 DEF Jobs

\* refresh drops what has expired; remove and topup drop the rule of one address.
LEMMA FilteredStore ==
  ASSUME NEW f \in Seq(Line), OneLine(f), NEW j \in Jobs, NEW a \in Addr
  PROVE  Entry(Filtered(j, f), a) =
           IF j.kind = "refresh"
           THEN IF Entry(f, a) \notin {Absent, Unlimited} /\ Entry(f, a) <= j.t
                THEN Absent ELSE Entry(f, a)
           ELSE IF a = j.addr THEN Absent ELSE Entry(f, a)
<1>1. Entry(Filtered(j, f), a) =
        IF Entry(f, a) # Absent /\ Keeps(j, [addr |-> a, expire |-> Entry(f, a)])
        THEN Entry(f, a) ELSE Absent
  BY FilteredEntry
<1>2. CASE j.kind # "refresh"  BY <1>1, <1>2 DEF Keeps
<1>3. CASE j.kind = "refresh"
  <2>1. PICK t \in Int : t = j.t  BY <1>3, JobFields
  <2>2. Keeps(j, [addr |-> a, expire |-> Entry(f, a)]) <=>
          Entry(f, a) = Unlimited \/ Entry(f, a) > t
    BY <1>3, <2>1 DEF Keeps
  <2>3. CASE Entry(f, a) \in {Absent, Unlimited}  BY <1>1, <1>3, <2>2, <2>3
  <2>4. CASE Entry(f, a) \notin {Absent, Unlimited}
    <3>1. PICK e \in Int : e = Entry(f, a)  BY <2>4, EntryIs
    <3> QED  BY <1>1, <1>3, <2>1, <2>2, <2>4, <3>1
  <2> QED  BY <2>3, <2>4
<1> QED  BY <1>2, <1>3

\* The expire that a topup appends.
LEMMA NewExpireIs ==
  ASSUME NEW j \in Jobs, IsTopup(j), NEW e \in Int \cup {Absent}
  PROVE  /\ j.kind = "whitelist" => NewExpire(j, e) = Unlimited
         /\ j.kind = "topup" =>
              /\ NewExpire(j, e) \in Int
              /\ NewExpire(j, e) = IF e = Absent THEN j.t + j.dt ELSE e + j.dt
  BY JobFields DEF NewExpire

----------------------------------------------------------------------------
(* The lock.                                                                *)

\* The lock steps of a process are the steps AclLock allows it.
LEMMA LocalLockSteps ==
  ASSUME NEW p \in Proc,
         Open(p) \/ Acquire(p) \/ Close(p) \/ (Kill(p) /\ fd[p] # NoInode)
  PROVE  LockStep(p)
  BY DEF Open, Acquire, Close, Kill, LockStep, Modes, CloseLock

\* Every step keeps the lock invariant: nobody stops the service here.
LEMMA NextKeepsLock ==
  ASSUME LockInv, [Next]_vars
  PROVE  LockInv'
<1>1. ASSUME UNCHANGED lockVars
      PROVE  LockInv'
  BY <1>1 DEF LockInv, LockTypeOK, HeldIsOpen, OneLockFile, MutualExclusion,
              lockVars
<1>2. CASE UNCHANGED vars  BY <1>1, <1>2 DEF vars
<1>3. CASE Tick  BY <1>1, <1>3 DEF Tick
<1>4. ASSUME NEW p \in Proc, ProcNext(p)
      PROVE  LockInv'
  <2>1. CASE Open(p) \/ Acquire(p) \/ Close(p) \/ (Kill(p) /\ fd[p] # NoInode)
    BY <2>1, LocalLockSteps, LockStepKeepsInv
  <2>2. CASE Kill(p) /\ fd[p] = NoInode
    BY <1>1, <2>2 DEF Kill, CloseLock
  <2>3. CASE ~(Open(p) \/ Acquire(p) \/ Close(p) \/ Kill(p))
    BY <1>1, <1>4, <2>3
    DEF ProcNext, Start, ReadFile, BeginFilter, BeginTopup, FilterToTmp,
        MoveByRename, MoveTruncates, MoveCopies, AppendLine, OpenFails,
        TmpIsShort, MoveFails, AppendIsShort
  <2> QED  BY <2>1, <2>2, <2>3
<1> QED  BY <1>2, <1>3, <1>4 DEF Next

\* Who holds the lock exclusively is alone inside.
LEMMA Alone ==
  ASSUME MutualExclusion, \A q \in Proc : ControlFits(q), NEW p \in Proc, held[p] = "x"
  PROVE  \A q \in Proc \ {p} : pc[q] \notin Inside
  BY DEF MutualExclusion, ControlFits

----------------------------------------------------------------------------
(* What a step leaves alone, and the types.                                 *)

\* A step of p changes the local variables of nobody else.
Others(p) ==
  \A q \in Proc \ {p} :
    /\ pc'[q] = pc[q] /\ job'[q] = job[q] /\ expire'[q] = expire[q]
    /\ fd'[q] = fd[q] /\ held'[q] = held[q]

LEMMA StepSparesOthers ==
  ASSUME LocalTypeOK, LockTypeOK, NEW p \in Proc, ProcNext(p)
  PROVE  Others(p)
<1> USE DEF LocalTypeOK, LockTypeOK, Others, Goto
<1>1. CASE Start(p)  BY <1>1 DEF Start, lockVars
<1>2. CASE Open(p)  BY <1>2 DEF Open, OpenLock
<1>3. CASE Acquire(p)  BY <1>3 DEF Acquire, Flock
<1>4. CASE ReadFile(p)  BY <1>4 DEF ReadFile, lockVars
<1>5. CASE BeginFilter(p)  BY <1>5 DEF BeginFilter, lockVars
<1>6. CASE BeginTopup(p)  BY <1>6 DEF BeginTopup, lockVars
<1>7. CASE FilterToTmp(p)  BY <1>7 DEF FilterToTmp, lockVars
<1>8. CASE MoveByRename(p)  BY <1>8 DEF MoveByRename, lockVars
<1>9. CASE MoveTruncates(p)  BY <1>9 DEF MoveTruncates, lockVars
<1>10. CASE MoveCopies(p)  BY <1>10 DEF MoveCopies, lockVars
<1>11. CASE AppendLine(p)  BY <1>11 DEF AppendLine, lockVars
<1>12. CASE Close(p)  BY <1>12 DEF Close, CloseLock, Return
<1>13. CASE Kill(p)  BY <1>13 DEF Kill, CloseLock, Return, lockVars
<1>14. CASE OpenFails(p)  BY <1>14 DEF OpenFails, lockVars
<1>15. CASE TmpIsShort(p)  BY <1>15 DEF TmpIsShort, lockVars
<1>16. CASE MoveFails(p)  BY <1>16 DEF MoveFails, lockVars
<1>17. CASE AppendIsShort(p)  BY <1>17 DEF AppendIsShort, lockVars
<1> QED  BY <1>1, <1>2, <1>3, <1>4, <1>5, <1>6, <1>7, <1>8, <1>9, <1>10, <1>11,
            <1>12, <1>13, <1>14, <1>15, <1>16, <1>17 DEF ProcNext

\* The local variables keep their types.
LEMMA LocalsKeepTypes ==
  ASSUME LocalTypeOK, NEW p \in Proc, ProcNext(p), ControlFits(p)
  PROVE  /\ pc' \in [Proc -> PCs]
         /\ job' \in [Proc -> Jobs \cup {NoJob}]
         /\ expire' \in [Proc -> Int \cup {Absent, Unlimited}]
         /\ now' \in Times /\ failures' \in Nat
<1> USE DEF LocalTypeOK, Goto, PCs
<1>1. CASE Start(p)  BY <1>1 DEF Start
<1>2. CASE Open(p) \/ Acquire(p) \/ ReadFile(p) \/ BeginFilter(p)
  BY <1>2 DEF Open, Acquire, ReadFile, BeginFilter
<1>3. CASE BeginTopup(p)
  <2>1. /\ pc' \in [Proc -> PCs]
        /\ UNCHANGED <<job, now, failures>>
    BY <1>3 DEF BeginTopup
  <2>2. CASE Entry(file, job[p].addr) = Unlimited
    BY <1>3, <2>1, <2>2 DEF BeginTopup
  <2>3. CASE Entry(file, job[p].addr) # Unlimited
    <3>1. job[p] \in Jobs /\ IsTopup(job[p])  BY <1>3 DEF BeginTopup, ControlFits
    <3>2. Entry(file, job[p].addr) \in Int \cup {Absent}  BY <2>3, <3>1, JobFields, EntryIs
    <3>3. NewExpire(job[p], Entry(file, job[p].addr)) \in Int \cup {Unlimited}
      BY <3>1, <3>2, JobFields, NewExpireIs
    <3> QED  BY <1>3, <2>1, <2>3, <3>3 DEF BeginTopup
  <2> QED  BY <2>2, <2>3
<1>4. CASE \/ FilterToTmp(p) \/ MoveByRename(p) \/ MoveTruncates(p) \/ MoveCopies(p)
           \/ AppendLine(p)
  BY <1>4 DEF FilterToTmp, MoveByRename, MoveTruncates, MoveCopies, AppendLine, AfterFilter
<1>5. CASE Close(p)  BY <1>5 DEF Close, Return
<1>6. CASE Kill(p)  BY <1>6 DEF Kill, Return, Fault
<1>7. CASE OpenFails(p) \/ TmpIsShort(p) \/ MoveFails(p) \/ AppendIsShort(p)
  <2>1. /\ failures' = failures + 1 /\ UNCHANGED <<job, expire, now>>
        /\ \E to \in PCs : pc' = [pc EXCEPT ![p] = to]
    <3>1. CASE OpenFails(p)  BY <3>1 DEF OpenFails, Fault
    <3>2. CASE TmpIsShort(p)  BY <3>2 DEF TmpIsShort, Fault
    <3>3. CASE MoveFails(p)  BY <3>3 DEF MoveFails, Fault, AfterFilter
    <3>4. CASE AppendIsShort(p)  BY <3>4 DEF AppendIsShort, Fault
    <3> QED  BY <1>7, <3>1, <3>2, <3>3, <3>4
  <2> QED  BY <2>1
<1> QED  BY <1>1, <1>2, <1>3, <1>4, <1>5, <1>6, <1>7 DEF ProcNext

\* Faults are counted.
LEMMA FailuresGrow ==
  ASSUME LocalTypeOK, NEW p \in Proc, ProcNext(p)
  PROVE  /\ failures > 0 => failures' > 0
         /\ Kill(p) \/ OpenFails(p) \/ TmpIsShort(p) \/ MoveFails(p) \/ AppendIsShort(p) =>
              failures' > 0
<1>1. failures \in Nat  BY DEF LocalTypeOK
<1>2. CASE Kill(p) \/ OpenFails(p) \/ TmpIsShort(p) \/ MoveFails(p) \/ AppendIsShort(p)
  <2>1. failures' = failures + 1
    <3>1. CASE Kill(p)  BY <3>1 DEF Kill, Fault
    <3>2. CASE OpenFails(p)  BY <3>2 DEF OpenFails, Fault
    <3>3. CASE TmpIsShort(p)  BY <3>3 DEF TmpIsShort, Fault
    <3>4. CASE MoveFails(p)  BY <3>4 DEF MoveFails, Fault
    <3>5. CASE AppendIsShort(p)  BY <3>5 DEF AppendIsShort, Fault
    <3> QED  BY <1>2, <3>1, <3>2, <3>3, <3>4, <3>5
  <2> QED  BY <1>1, <2>1
<1>3. CASE ~(Kill(p) \/ OpenFails(p) \/ TmpIsShort(p) \/ MoveFails(p) \/ AppendIsShort(p))
  <2>1. UNCHANGED failures
    BY <1>3 DEF ProcNext, Start, Open, Acquire, ReadFile, BeginFilter, BeginTopup,
                FilterToTmp, MoveByRename, MoveTruncates, MoveCopies, AppendLine, Close
  <2> QED  BY <1>3, <2>1
<1> QED  BY <1>2, <1>3

\* What topup has appended: its line, or some part of it.
LEMMA AppendedFile ==
  ASSUME LocalTypeOK, NEW p \in Proc, AppendLine(p) \/ AppendIsShort(p), ControlFits(p)
  PROVE  /\ file' \in Seq(Line)
         /\ torn' \in BOOLEAN /\ (torn' => file' # <<>> /\ failures' > 0)
         /\ pc[p] = "append" /\ job[p].addr \in Addr
         /\ \A a \in AddrsOf(file') \ AddrsOf(file) :
              a = job[p].addr \/ (failures' > 0 /\ a \in Garbled(job[p].addr))
<1> USE DEF LocalTypeOK
<1>1. /\ pc[p] = "append" /\ failures' \in Nat
      /\ AppendIsShort(p) => failures' > 0
      /\ AppendLine(p) => torn' = FALSE /\ (torn => failures' > 0)
  BY DEF AppendLine, AppendIsShort, Goto, Fault
<1>2. job[p] \in Jobs /\ IsTopup(job[p]) /\ expire[p] # Absent
  BY <1>1 DEF ControlFits, Inside
<1>3. job[p].addr \in Addr /\ expire[p] \in Int \cup {Unlimited}
  BY <1>2, JobFields
<1>4. \A e \in Int \cup {Unlimited} :
        /\ [NewRule(p) EXCEPT !.expire = e] \in Rule
        /\ [NewRule(p) EXCEPT !.expire = e].addr = job[p].addr
  BY <1>3 DEF NewRule, Rule
<1>5. NewRule(p) \in Rule /\ NewRule(p).addr = job[p].addr  BY <1>3 DEF NewRule, Rule
<1>6. CutExpires(expire[p]) \subseteq Int \cup {Unlimited}
  BY <1>3 DEF CutExpires, LongAgo
<1> HIDE DEF LocalTypeOK
<1>7. ASSUME torn, NEW new \in Rule, new.addr = job[p].addr,
             NEW l \in MergedRules(Last(file), new), file' = Append(Front(file), l)
      PROVE  /\ file' \in Seq(Line) /\ file' # <<>>
             /\ \A a \in AddrsOf(file') \ AddrsOf(file) :
                  a = job[p].addr \/ a \in Garbled(job[p].addr)
  <2>1. file \in Seq(Line) /\ file # <<>>  BY <1>7 DEF LocalTypeOK
  <2> QED  BY <1>7, <2>1, MergedAddrs
<1>8. ASSUME NEW l \in Line, file' = Append(file, l)
      PROVE  /\ file' \in Seq(Line) /\ file' # <<>>
             /\ \A a \in AddrsOf(file') \ AddrsOf(file) : l \notin {Comment, Bad} /\ a = l.addr
  <2>1. file \in Seq(Line)  BY DEF LocalTypeOK
  <2> QED  BY <1>8, <2>1, AppendAddrs
<1>9. CASE AppendLine(p)
  <2>1. CASE torn
    <3>1. PICK l \in MergedRules(Last(file), NewRule(p)) : file' = Append(Front(file), l)
      BY <1>9, <2>1 DEF AppendLine
    <3> QED  BY <1>1, <1>3, <1>5, <1>7, <1>9, <2>1, <3>1
  <2>2. CASE ~torn
    <3>1. file' = Append(file, NewRule(p))  BY <1>9, <2>2 DEF AppendLine
    <3>2. NewRule(p) \in Line  BY <1>5, LineKinds
    <3> QED  BY <1>1, <1>3, <1>5, <1>8, <1>9, <3>1, <3>2
  <2> QED  BY <2>1, <2>2
<1>10. CASE AppendIsShort(p)
  <2>1. CASE UNCHANGED <<file, torn>>
    BY <1>1, <1>3, <1>10, <2>1 DEF AddrsOf, Entry, RulesOf, LocalTypeOK
  <2>2. CASE ~UNCHANGED <<file, torn>> /\ torn
    <3>1. torn' = TRUE /\ \E e \in CutExpires(expire[p]) :
            \E l \in MergedRules(Last(file), [NewRule(p) EXCEPT !.expire = e]) :
              file' = Append(Front(file), l)
      BY <1>10, <2>2 DEF AppendIsShort
    <3>2. PICK e \in CutExpires(expire[p]) :
            \E l \in MergedRules(Last(file), [NewRule(p) EXCEPT !.expire = e]) :
              file' = Append(Front(file), l)
      BY <3>1
    <3>3. PICK new \in Rule : /\ new = [NewRule(p) EXCEPT !.expire = e]
                              /\ new.addr = job[p].addr
      BY <1>4, <1>6
    <3>4. PICK l \in MergedRules(Last(file), new) : file' = Append(Front(file), l)
      BY <3>2, <3>3
    <3> QED  BY <1>1, <1>3, <1>7, <1>10, <2>2, <3>1, <3>3, <3>4
  <2>3. CASE ~UNCHANGED <<file, torn>> /\ ~torn
    <3>1. torn' = TRUE /\ \E l \in CutLine(NewRule(p)) : file' = Append(file, l)
      BY <1>10, <2>3 DEF AppendIsShort
    <3>2. PICK l \in CutLine(NewRule(p)) : file' = Append(file, l)  BY <3>1
    <3>3. NewRule(p) \in Line  BY <1>5, LineKinds
    <3>4. /\ l \in Line
          /\ l \notin {Comment, Bad} => l.addr \in {job[p].addr} \cup Garbled(job[p].addr)
      BY <1>5, <3>2, <3>3, CutLines
    <3> QED  BY <1>1, <1>3, <1>8, <1>10, <3>1, <3>2, <3>4
  <2> QED  BY <2>1, <2>2, <2>3
<1> QED  BY <1>9, <1>10

\* The files stay files.
LEMMA FilesKeepTypes ==
  ASSUME LocalTypeOK, NEW p \in Proc, ProcNext(p), ControlFits(p), DataFits(p)
  PROVE  /\ file' \in Seq(Line) /\ tmp' \in Seq(Line) /\ old' \in Seq(Line)
         /\ torn' \in BOOLEAN /\ (torn' => file' # <<>> /\ failures' > 0)
         /\ tmpTorn' \in BOOLEAN /\ (tmpTorn' => tmp' # <<>> /\ failures' > 0)
<1>1. <<>> \in Seq(Line)  OBVIOUS
<1>2. failures > 0 => failures' > 0  BY FailuresGrow
<1>3. /\ file \in Seq(Line) /\ tmp \in Seq(Line) /\ old \in Seq(Line)
      /\ torn \in BOOLEAN /\ (torn => file # <<>> /\ failures > 0)
      /\ tmpTorn \in BOOLEAN /\ (tmpTorn => tmp # <<>> /\ failures > 0)
  BY DEF LocalTypeOK
<1>4. CASE \/ Start(p) \/ Open(p) \/ ReadFile(p) \/ BeginFilter(p) \/ BeginTopup(p)
           \/ OpenFails(p) \/ Acquire(p) \/ Close(p)
  <2>1. UNCHANGED <<file, torn, tmp, tmpTorn>> /\ old' \in {old, file, <<>>}
    BY <1>4 DEF Start, Open, ReadFile, BeginFilter, BeginTopup, OpenFails, Acquire, Close,
                Return, dataVars, tmpVars
  <2> QED  BY <1>1, <1>2, <1>3, <2>1
<1>5. CASE FilterToTmp(p)
  <2>1. /\ tmp' = Filtered(job[p], file) /\ tmpTorn' = FALSE
        /\ UNCHANGED <<file, torn, old>>
    BY <1>5 DEF FilterToTmp
  <2> QED  BY <1>2, <1>3, <2>1, FilteredRules
<1>6. CASE MoveByRename(p) \/ MoveTruncates(p) \/ MoveCopies(p)
  <2>1. /\ \/ file' = tmp /\ torn' = tmpTorn /\ tmp' = <<>> /\ tmpTorn' = FALSE
           \/ file' = <<>> /\ torn' = FALSE /\ UNCHANGED <<tmp, tmpTorn>>
        /\ UNCHANGED old
    BY <1>6 DEF MoveByRename, MoveTruncates, MoveCopies, tmpVars
  <2>2. CASE file' = tmp /\ torn' = tmpTorn /\ tmp' = <<>> /\ tmpTorn' = FALSE
    BY <1>1, <1>2, <1>3, <2>1, <2>2
  <2>3. CASE file' = <<>> /\ torn' = FALSE /\ UNCHANGED <<tmp, tmpTorn>>
    BY <1>1, <1>2, <1>3, <2>1, <2>3
  <2> QED  BY <2>1, <2>2, <2>3
<1>7. CASE AppendLine(p) \/ AppendIsShort(p)
  <2>1. UNCHANGED <<tmp, tmpTorn, old>>
    BY <1>7 DEF AppendLine, AppendIsShort, tmpVars
  <2> QED  BY <1>2, <1>3, <1>7, <2>1, AppendedFile
<1>8. CASE Kill(p) \/ MoveFails(p)
  <2>1. UNCHANGED <<tmp, tmpTorn>> /\ old' \in {old, <<>>}
    BY <1>8 DEF Kill, MoveFails, Return, tmpVars
  <2>2. \/ UNCHANGED <<file, torn>>
        \/ \E c \in CutFiles(tmp, tmpTorn) : file' = c.file /\ torn' = c.torn
    BY <1>8 DEF Kill, MoveFails
  <2>3. failures' > 0  BY <1>8, FailuresGrow
  <2>4. ASSUME NEW c \in CutFiles(tmp, tmpTorn), file' = c.file, torn' = c.torn
        PROVE  file' \in Seq(Line) /\ torn' \in BOOLEAN /\ (torn' => file' # <<>>)
    BY <1>3, <2>4, CutAddrs
  <2>5. file' \in Seq(Line) /\ torn' \in BOOLEAN /\ (torn' => file' # <<>>)
    BY <1>3, <2>2, <2>4
  <2> QED  BY <1>1, <1>3, <2>1, <2>3, <2>5
<1>9. CASE TmpIsShort(p)
  <2>1. PICK c \in CutFiles(Filtered(job[p], file), FALSE) : tmp' = c.file /\ tmpTorn' = c.torn
    BY <1>9 DEF TmpIsShort
  <2>2. UNCHANGED <<file, old, torn>> /\ failures' > 0
    BY <1>9, FailuresGrow DEF TmpIsShort
  <2>3. Filtered(job[p], file) \in Seq(Line)  BY <1>3, FilteredRules
  <2>4. tmp' \in Seq(Line) /\ tmpTorn' \in BOOLEAN /\ (tmpTorn' => tmp' # <<>>)
    BY <2>1, <2>3, CutAddrs
  <2> QED  BY <1>3, <2>2, <2>4
<1> QED  BY <1>4, <1>5, <1>6, <1>7, <1>8, <1>9 DEF ProcNext

\* Where the process has got to, it has locked what it must.
LEMMA StepKeepsControl ==
  ASSUME LocalTypeOK, LockTypeOK, NEW p \in Proc, ProcNext(p), ControlFits(p)
  PROVE  ControlFits(p)'
<1> USE DEF LocalTypeOK, LockTypeOK, ControlFits, Goto, Inside
<1>1. CASE Start(p)  BY <1>1 DEF Start, lockVars
<1>2. CASE Open(p)  BY <1>2 DEF Open, OpenLock
<1>3. CASE Acquire(p)  BY <1>3 DEF Acquire, Flock
<1>4. CASE ReadFile(p)  BY <1>4 DEF ReadFile, lockVars
<1>5. CASE BeginFilter(p)  BY <1>5 DEF BeginFilter, lockVars, IsTopup
<1>6. CASE BeginTopup(p)
  <2> DEFINE e == Entry(file, job[p].addr)
  <2>1. /\ job[p] \in Jobs /\ IsTopup(job[p]) /\ held[p] = "x"
        /\ UNCHANGED <<lockVars, job>>
    BY <1>6 DEF BeginTopup, IsTopup
  <2>2. CASE e = Unlimited
    BY <1>6, <2>1, <2>2, LinesAssumption DEF BeginTopup, lockVars
  <2>3. CASE e # Unlimited
    <3>1. expire' = [expire EXCEPT ![p] = NewExpire(job[p], e)] /\ pc'[p] \in {"append", "filter"}
      BY <1>6, <2>3 DEF BeginTopup
    <3>2. e \in Int \cup {Absent}  BY <2>1, <2>3, JobFields, EntryIs
    <3>3. NewExpire(job[p], e) \in Int \cup {Unlimited}  BY <2>1, <3>2, JobFields, NewExpireIs
    <3>4. expire'[p] # Absent  BY <3>1, <3>3, LinesAssumption
    <3> QED  BY <2>1, <3>1, <3>4 DEF lockVars, IsTopup
  <2> QED  BY <2>2, <2>3
<1>7. CASE FilterToTmp(p)  BY <1>7 DEF FilterToTmp, AfterFilter, lockVars
<1>8. CASE MoveByRename(p)  BY <1>8 DEF MoveByRename, AfterFilter, lockVars
<1>9. CASE MoveTruncates(p)  BY <1>9 DEF MoveTruncates, lockVars
<1>10. CASE MoveCopies(p)  BY <1>10 DEF MoveCopies, AfterFilter, lockVars
<1>11. CASE AppendLine(p)  BY <1>11 DEF AppendLine, lockVars
<1>12. CASE Close(p)  BY <1>12 DEF Close, CloseLock
<1>13. CASE Kill(p)
  <2>1. pc'[p] = "idle" /\ fd'[p] = NoInode  BY <1>13 DEF Kill, CloseLock, lockVars
  <2> QED  BY <2>1
<1>14. CASE OpenFails(p)  BY <1>14 DEF OpenFails, lockVars
<1>15. CASE TmpIsShort(p)  BY <1>15 DEF TmpIsShort, lockVars
<1>16. CASE MoveFails(p)  BY <1>16 DEF MoveFails, AfterFilter, lockVars
<1>17. CASE AppendIsShort(p)  BY <1>17 DEF AppendIsShort, lockVars
<1> QED  BY <1>1, <1>2, <1>3, <1>4, <1>5, <1>6, <1>7, <1>8, <1>9, <1>10, <1>11,
            <1>12, <1>13, <1>14, <1>15, <1>16, <1>17 DEF ProcNext

\* Others are either not inside, or see the same files.
LEMMA OthersSeeTheSame ==
  ASSUME LockInv, LockInv', \A q \in Proc : ControlFits(q), LocalTypeOK,
         NEW p \in Proc, ProcNext(p), NEW q \in Proc \ {p}
  PROVE  pc[q] \notin Inside \/ UNCHANGED <<file, tmp, old>>
<1> USE DEF Goto, Inside
<1>1. CASE held[p] = "x"
  BY <1>1, Alone DEF LockInv
<1>2. CASE Acquire(p)
  <2>1. CASE job[p].kind = "read"  BY <1>2, <2>1 DEF Acquire, tmpVars
  <2>2. CASE job[p].kind # "read"
    <3>1. held'[p] = "x" /\ held'[q] = held[q]
      BY <1>2, <2>2 DEF Acquire, Flock, LockInv, LockTypeOK
    <3>2. held[q] = "none"  BY <3>1 DEF LockInv, MutualExclusion
    <3> QED  BY <3>2 DEF ControlFits
  <2> QED  BY <2>1, <2>2
<1>3. CASE held[p] # "x" /\ ~Acquire(p)
  <2>1. pc[p] \notin {"filter", "move", "copy", "append"}  BY <1>3 DEF ControlFits
  <2> QED
    BY <1>3, <2>1
    DEF ProcNext, Start, Open, ReadFile, BeginFilter, BeginTopup, FilterToTmp,
        MoveByRename, MoveTruncates, MoveCopies, AppendLine, Close, Return, Kill,
        OpenFails, TmpIsShort, MoveFails, AppendIsShort, dataVars, tmpVars
<1> QED  BY <1>1, <1>2, <1>3

----------------------------------------------------------------------------
(* What a writer finds.                                                     *)

\* Who sees the same files finds the same.
LEMMA OthersKeepData ==
  ASSUME NEW q \in Proc, DataFits(q), pc'[q] = pc[q], job'[q] = job[q],
         pc[q] \notin Inside \/ UNCHANGED <<file, tmp, old>>,
         failures' = 0 => failures = 0
  PROVE  DataFits(q)'
<1>1. CASE pc[q] \notin Inside  BY <1>1 DEF DataFits
<1>2. CASE UNCHANGED <<file, tmp, old>>
  BY <1>2 DEF DataFits, Garblings, AddrsOf, Entry, RulesOf
<1> QED  BY <1>1, <1>2

\* The empty file has no addresses.
LEMMA NoAddrs == <<>> \in Seq(Line) /\ AddrsOf(<<>>) = {}
<1>1. <<>> \in Seq(Line) /\ \A a \in Addr : RulesOf(<<>>, a) = {}  BY DEF RulesOf
<1> QED  BY <1>1, AddrsAre DEF AddrsOf

\* No copy, done or failed, has an address that was not in the file, but for those
\* that a cut line may be taken for.
LEMMA StepKeepsData ==
  ASSUME LocalTypeOK, NEW p \in Proc, ProcNext(p), ControlFits(p), DataFits(p)
  PROVE  DataFits(p)'
<1> USE DEF LocalTypeOK, Goto
<1>1. ASSUME pc'[p] \notin Inside  PROVE DataFits(p)'
  BY <1>1 DEF DataFits
<1>2. CASE \/ Start(p) \/ Open(p) \/ ReadFile(p) \/ AppendLine(p) \/ Close(p) \/ Kill(p)
           \/ OpenFails(p) \/ AppendIsShort(p)
  <2>1. pc'[p] \notin Inside
    BY <1>2 DEF Start, Open, ReadFile, AppendLine, Close, Kill, OpenFails, AppendIsShort, Inside
  <2> QED  BY <1>1, <2>1
<1>3. CASE Acquire(p)  BY <1>3 DEF Acquire, DataFits, Inside
<1>4. CASE BeginFilter(p) \/ BeginTopup(p)
  <2>1. /\ pc[p] = "begin" /\ job[p].kind # "read" /\ pc'[p] \notin {"move", "copy"}
        /\ UNCHANGED <<job, file, old>>
    BY <1>4 DEF BeginFilter, BeginTopup, IsTopup, dataVars
  <2>2. CASE pc'[p] \in Inside
    <3>1. file = old  BY <2>1 DEF DataFits, Inside
    <3> QED  BY <2>1, <3>1 DEF DataFits
  <2> QED  BY <1>1, <2>2
<1>5. CASE FilterToTmp(p) \/ TmpIsShort(p)
  <2>1. /\ pc[p] = "filter" /\ job[p].kind # "read" /\ pc'[p] \in {"move", "append", "close"}
        /\ UNCHANGED <<job, file, old>>
    BY <1>5 DEF FilterToTmp, TmpIsShort, AfterFilter, ControlFits, Inside
  <2>2. file = old  BY <2>1 DEF DataFits, Inside
  <2>3. /\ Filtered(job[p], old) \in Seq(Line)
        /\ AddrsOf(Filtered(job[p], old)) \subseteq AddrsOf(old)
    BY FilteredRules, FilteredAddrs
  <2>4. CASE FilterToTmp(p)
    <3>1. tmp' = Filtered(job[p], old)  BY <2>2, <2>4 DEF FilterToTmp
    <3>2. AddrsOf(tmp') \subseteq AddrsOf(old)  BY <2>3, <3>1
    <3> QED  BY <2>1, <2>2, <3>2 DEF DataFits, Garblings
  <2>5. CASE TmpIsShort(p)
    <3>1. PICK c \in CutFiles(Filtered(job[p], old), FALSE) : tmp' = c.file
      BY <2>2, <2>5 DEF TmpIsShort
    <3>2. AddrsOf(tmp') \subseteq Garblings(AddrsOf(Filtered(job[p], old)))
      BY <2>3, <3>1, CutAddrs
    <3>3. AddrsOf(tmp') \subseteq Garblings(AddrsOf(old))  BY <2>3, <3>2 DEF Garblings
    <3>4. failures' # 0  BY <2>5, FailuresGrow
    <3> QED  BY <2>1, <2>2, <3>3, <3>4 DEF DataFits
  <2> QED  BY <1>5, <2>4, <2>5
<1>6. CASE MoveTruncates(p)
  <2>1. pc[p] = "move" /\ pc'[p] = "copy" /\ file' = <<>> /\ UNCHANGED <<job, tmp, old, failures>>
    BY <1>6 DEF MoveTruncates, tmpVars
  <2>2. job[p].kind # "read"  BY <2>1 DEF ControlFits, Inside
  <2>3. AddrsOf(tmp) \subseteq Garblings(AddrsOf(old))
        /\ (failures = 0 => AddrsOf(tmp) \subseteq AddrsOf(old))
    BY <2>1, <2>2 DEF DataFits, Inside
  <2> QED  BY <2>1, <2>3 DEF DataFits
<1>7. CASE MoveByRename(p) \/ MoveCopies(p) \/ MoveFails(p)
  <2>1. pc'[p] \in {"append", "close"}
    BY <1>7 DEF MoveByRename, MoveCopies, MoveFails, AfterFilter
  <2> QED  BY <2>1 DEF DataFits
<1> QED  BY <1>2, <1>3, <1>4, <1>5, <1>6, <1>7 DEF ProcNext

\* While nothing has failed, others find what they have to find as well.
LEMMA OthersKeepClean ==
  ASSUME NEW q \in Proc, CleanFits(q), pc'[q] = pc[q], job'[q] = job[q], expire'[q] = expire[q],
         pc[q] \notin Inside \/ UNCHANGED <<file, tmp, old>>
  PROVE  CleanFits(q)'
<1>1. CASE pc[q] \notin Inside  BY <1>1 DEF CleanFits, Inside
<1>2. CASE UNCHANGED <<file, tmp, old>>  BY <1>2 DEF CleanFits
<1> QED  BY <1>1, <1>2

\* What has gone wrong is counted.
LEMMA FaultsCount ==
  ASSUME NEW p \in Proc, LocalTypeOK, failures' = 0, ProcNext(p)
  PROVE  /\ failures = 0
         /\ \/ Start(p) \/ Open(p) \/ Acquire(p) \/ ReadFile(p) \/ BeginFilter(p) \/ BeginTopup(p)
            \/ FilterToTmp(p) \/ MoveByRename(p) \/ MoveTruncates(p) \/ MoveCopies(p)
            \/ AppendLine(p) \/ Close(p)
<1>1. failures \in Nat  BY DEF LocalTypeOK
<1>2. ~Kill(p) /\ ~OpenFails(p) /\ ~TmpIsShort(p) /\ ~MoveFails(p) /\ ~AppendIsShort(p)
  BY FailuresGrow
<1>3. UNCHANGED failures
  BY <1>2 DEF ProcNext, Start, Open, Acquire, ReadFile, BeginFilter, BeginTopup, FilterToTmp,
              MoveByRename, MoveTruncates, MoveCopies, AppendLine, Close
<1> QED  BY <1>2, <1>3 DEF ProcNext

\* The rule that a topup appends, while nothing has failed.
LEMMA AppendedRule ==
  ASSUME LocalTypeOK, NEW p \in Proc, AppendLine(p), ControlFits(p), CleanFits(p),
         torn = FALSE, OneLine(file)
  PROVE  LET a == job[p].addr
         IN  /\ a \in Addr /\ job[p] \in Jobs /\ IsTopup(job[p])
             /\ OneLine(file')
             /\ Entry(old, a) \in Int \cup {Absent}
             /\ \A b \in Addr : Entry(file', b) =
                  IF b = a THEN NewExpire(job[p], Entry(old, a)) ELSE Entry(old, b)
<1> DEFINE a == job[p].addr
<1>1. /\ pc[p] = "append" /\ job[p] \in Jobs /\ IsTopup(job[p])
      /\ file' = Append(file, [addr |-> a, expire |-> expire[p]])
  <2>1. pc[p] = "append"  BY DEF AppendLine, Goto
  <2>2. job[p] \in Jobs /\ IsTopup(job[p])  BY <2>1 DEF ControlFits
  <2>3. file' = Append(file, [addr |-> a, expire |-> expire[p]])  BY DEF AppendLine, NewRule
  <2> QED  BY <2>1, <2>2, <2>3
<1>2. a \in Addr  BY <1>1, JobFields
<1>3. /\ Entry(old, a) # Unlimited /\ expire[p] = NewExpire(job[p], Entry(old, a))
      /\ RulesOf(file, a) = {}
      /\ \A b \in Addr \ {a} : Entry(file, b) = Entry(old, b)
  BY <1>1 DEF CleanFits, Inside
<1>4. Entry(old, a) \in Int \cup {Absent}  BY <1>2, <1>3, EntryIs DEF LocalTypeOK
<1>5. expire[p] \in Int \cup {Unlimited}  BY <1>1, <1>3, <1>4, JobFields, NewExpireIs
<1>6. /\ OneLine(file')
      /\ \A b \in Addr : Entry(file', b) = IF b = a THEN expire[p] ELSE Entry(file, b)
  <2> DEFINE e == expire[p]
             g == Append(file, [addr |-> a, expire |-> e])
  <2>1. a \in Addr /\ e \in Int \cup {Unlimited} /\ RulesOf(file, a) = {} /\ file \in Seq(Line)
    BY <1>2, <1>3, <1>5 DEF LocalTypeOK
  <2>2. file' = g  BY <1>1
  <2> HIDE DEF a, e
  <2>3. OneLine(g) /\ \A b \in Addr : Entry(g, b) = IF b = a THEN e ELSE Entry(file, b)
    BY <2>1, AppendEntry
  <2> QED  BY <2>2, <2>3 DEF e
<1>7. \A b \in Addr : Entry(file', b) =
        IF b = a THEN NewExpire(job[p], Entry(old, a)) ELSE Entry(old, b)
  BY <1>3, <1>6
<1> HIDE DEF a
<1> QED  BY <1>1, <1>2, <1>4, <1>6, <1>7 DEF a

\* While nothing has failed a writer finds what it has to find, and leaves one
\* line for each address.
LEMMA StepKeepsClean ==
  ASSUME LocalTypeOK, NEW p \in Proc, ProcNext(p), ControlFits(p), DataFits(p), CleanFits(p),
         failures' = 0, torn = FALSE, tmpTorn = FALSE, OneLine(file), OneLine(old)
  PROVE  torn' = FALSE /\ OneLine(file') /\ OneLine(old') /\ CleanFits(p)'
<1> USE DEF LocalTypeOK, Goto
<1>1. OneLine(<<>>)  BY DEF OneLine, RulesOf
<1>2. ASSUME pc'[p] \notin Inside \ {"begin"}  PROVE CleanFits(p)'
  BY <1>2 DEF CleanFits, Inside
<1>3. CASE Start(p) \/ Open(p) \/ Acquire(p) \/ ReadFile(p) \/ Close(p)
  <2>1. pc'[p] \notin Inside \ {"begin"}
    BY <1>3 DEF Start, Open, Acquire, ReadFile, Close, Inside
  <2>2. UNCHANGED <<file, torn>> /\ old' \in {old, file, <<>>}
    BY <1>3 DEF Start, Open, Acquire, ReadFile, Close, Return, dataVars
  <2> QED  BY <1>1, <1>2, <2>1, <2>2
<1>4. CASE BeginFilter(p)
  BY <1>4 DEF BeginFilter, CleanFits, IsTopup, dataVars, tmpVars
<1>5. CASE BeginTopup(p)
  <2> DEFINE a == job[p].addr
             e == Entry(file, a)
  <2>1. /\ pc[p] = "begin" /\ job[p] \in Jobs /\ IsTopup(job[p])
        /\ UNCHANGED <<job, file, torn, tmp, old>>
    BY <1>5 DEF BeginTopup, ControlFits, dataVars, tmpVars
  <2>2. file = old /\ a \in Addr
    <3>1. job[p].kind \in {"topup", "whitelist"}  BY <2>1 DEF IsTopup
    <3>2. a \in Addr  BY <2>1, <3>1, JobFields
    <3>3. file = old  BY <2>1, <3>1 DEF DataFits, Inside
    <3> QED  BY <3>2, <3>3
  <2>3. CASE e = Unlimited
    <3>1. pc'[p] = "close"  BY <1>5, <2>3, LinesAssumption DEF BeginTopup
    <3> QED  BY <1>2, <2>1, <3>1 DEF Inside
  <2>4. CASE e # Unlimited
    <3>1. expire'[p] = NewExpire(job[p], e) /\ (pc'[p] = "append" => e = Absent)
          /\ pc'[p] \in {"append", "filter"}
      BY <1>5, <2>4 DEF BeginTopup
    <3>2. e = Absent => RulesOf(file, a) = {}  BY <2>2, EntryIs
    <3> QED  BY <2>1, <2>2, <2>4, <3>1, <3>2 DEF CleanFits
  <2> QED  BY <2>3, <2>4
<1>6. CASE FilterToTmp(p)
  <2>1. /\ pc[p] = "filter" /\ job[p] \in Jobs /\ job[p].kind # "read"
        /\ tmp' = Filtered(job[p], file)
        /\ pc'[p] = "move" \/ (tmp' = file /\ pc'[p] \in {"append", "close"})
        /\ pc'[p] = "append" => IsTopup(job[p])
        /\ UNCHANGED <<job, expire, file, torn, old>>
    BY <1>6 DEF FilterToTmp, Changed, AfterFilter, ControlFits, Inside
  <2>2. file = old  BY <2>1 DEF DataFits, Inside
  <2>3. ASSUME pc'[p] = "append"
        PROVE  RulesOf(file, job[p].addr) = {}
    <3>1. job[p].addr \in Addr /\ job[p].kind # "refresh" /\ tmp' = file
      BY <2>1, <2>3, JobFields
    <3>2. \A b \in Addr : Entry(Filtered(job[p], file), b) = IF b = job[p].addr THEN Absent ELSE Entry(file, b)
      BY <2>1, <3>1, FilteredStore
    <3>3. Entry(file, job[p].addr) = Absent  BY <2>1, <3>1, <3>2
    <3> QED  BY <3>1, <3>3, EntryIs
  <2> QED  BY <2>1, <2>2, <2>3 DEF CleanFits, Inside
<1>7. CASE MoveTruncates(p)
  BY <1>1, <1>7 DEF MoveTruncates, CleanFits, Inside, tmpVars
<1>8. CASE MoveByRename(p) \/ MoveCopies(p)
  <2>1. /\ pc[p] \in {"move", "copy"} /\ job[p] \in Jobs /\ file' = tmp
        /\ pc'[p] \in {"append", "close"} /\ (pc'[p] = "append" => IsTopup(job[p]))
        /\ UNCHANGED <<job, expire, old>> /\ torn' = FALSE
    BY <1>8 DEF MoveByRename, MoveCopies, AfterFilter, ControlFits
  <2>2. file' = Filtered(job[p], old)  BY <2>1 DEF CleanFits
  <2>3. OneLine(file')  BY <2>2, FilteredEntry
  <2>4. ASSUME pc'[p] = "append"
        PROVE  /\ RulesOf(file', job[p].addr) = {}
               /\ \A b \in Addr \ {job[p].addr} : Entry(file', b) = Entry(old, b)
    <3>1. job[p].addr \in Addr /\ job[p].kind # "refresh"  BY <2>1, <2>4, JobFields
    <3>2. \A b \in Addr : Entry(file', b) = IF b = job[p].addr THEN Absent ELSE Entry(old, b)
      BY <2>1, <2>2, <3>1, FilteredStore
    <3>3. file' \in Seq(Line)  BY <2>1
    <3> QED  BY <3>1, <3>2, <3>3, EntryIs
  <2> QED  BY <2>1, <2>3, <2>4 DEF CleanFits, Inside
<1>9. CASE AppendLine(p)
  <2>1. pc'[p] = "close" /\ torn' = FALSE /\ UNCHANGED old  BY <1>9 DEF AppendLine
  <2> QED  BY <1>2, <1>9, <2>1, AppendedRule DEF Inside
<1> QED  BY <1>3, <1>4, <1>5, <1>6, <1>7, <1>8, <1>9, FaultsCount

----------------------------------------------------------------------------
(* The invariant holds.                                                     *)

\* The files are sound to begin with.
LEMMA InitFilesInv == Init => FilesInv
<1> SUFFICES ASSUME Init  PROVE FilesInv
  OBVIOUS
<1>1. file \in Seq(Line) /\ tmp \in Seq(Line) /\ old \in Seq(Line)
  BY LinesAssumption DEF Init
<1>2. LocalTypeOK
  <2>1. now \in Times /\ failures \in Nat
    BY LinesAssumption DEF Init, Times
  <2>2. pc \in [Proc -> PCs] /\ job \in [Proc -> Jobs \cup {NoJob}]
    BY DEF Init, PCs
  <2>3. expire \in [Proc -> Int \cup {Absent, Unlimited}]
    BY DEF Init
  <2>4. torn = FALSE /\ tmpTorn = FALSE  BY DEF Init
  <2> QED  BY <1>1, <2>1, <2>2, <2>3, <2>4 DEF LocalTypeOK
<1>3. LockInv
  BY NoInodeAssumption
  DEF Init, LockInit, LockInv, LockTypeOK, HeldIsOpen, OneLockFile, MutualExclusion
<1>4. \A p \in Proc : ControlFits(p) /\ DataFits(p)
  BY DEF Init, LockInit, ControlFits, DataFits, Inside
<1> QED  BY <1>2, <1>3, <1>4 DEF FilesInv

\* Every step keeps the files sound, whatever fails.
LEMMA NextKeepsFilesInv ==
  ASSUME FilesInv, [Next]_vars
  PROVE  FilesInv'
<1> USE DEF FilesInv
<1>1. LockInv'  BY NextKeepsLock
<1>2. CASE UNCHANGED vars \/ Tick
  <2>1. now' \in Times
    BY <1>2, LinesAssumption DEF vars, Tick, Times, LocalTypeOK
  <2>2. UNCHANGED <<fd, held, pc, job, expire, file, torn, tmp, tmpTorn, old, failures>>
    BY <1>2 DEF vars, lockVars, dataVars, tmpVars, Tick
  <2>3. LocalTypeOK'  BY <2>1, <2>2 DEF LocalTypeOK
  <2>4. \A q \in Proc : ControlFits(q)'  BY <2>2 DEF ControlFits
  <2>5. \A q \in Proc : DataFits(q)'  BY <2>2, OthersKeepData
  <2> QED  BY <1>1, <2>3, <2>4, <2>5
<1>3. ASSUME NEW p \in Proc, ProcNext(p)
      PROVE  FilesInv'
  <2>1. LockTypeOK  BY DEF LockInv
  <2>2. Others(p)  BY <1>3, <2>1, StepSparesOthers
  <2>3. LocalTypeOK'
    BY <1>3, LocalsKeepTypes, FilesKeepTypes DEF LocalTypeOK
  <2>4. ControlFits(p)' /\ DataFits(p)'
    BY <1>3, <2>1, StepKeepsControl, StepKeepsData
  <2>5. ASSUME NEW q \in Proc \ {p}  PROVE ControlFits(q)' /\ DataFits(q)'
    <3>1. ControlFits(q)'  BY <2>2 DEF Others, ControlFits
    <3>2. pc[q] \notin Inside \/ UNCHANGED <<file, tmp, old>>
      BY <1>1, <1>3, OthersSeeTheSame
    <3>3. failures' = 0 => failures = 0  BY <1>3, FaultsCount
    <3> QED  BY <2>2, <3>1, <3>2, <3>3, OthersKeepData DEF Others
  <2> QED  BY <1>1, <2>3, <2>4, <2>5
<1> QED  BY <1>2, <1>3 DEF Next

\* And every step that does not fail leaves one rule for each address.
LEMMA NextKeepsCleanInv ==
  ASSUME FilesInv, CleanInv, [Next]_vars
  PROVE  CleanInv'
<1> SUFFICES ASSUME failures' = 0
             PROVE  torn' = FALSE /\ OneLine(file') /\ OneLine(old')
                    /\ \A q \in Proc : CleanFits(q)'
  BY DEF CleanInv
<1> USE DEF FilesInv
<1>1. LockInv'  BY NextKeepsLock
<1>2. CASE UNCHANGED vars \/ Tick
  <2>1. UNCHANGED <<pc, job, expire, file, torn, tmp, old, failures>>
    BY <1>2 DEF vars, dataVars, tmpVars, Tick
  <2>2. torn = FALSE /\ OneLine(file) /\ OneLine(old) /\ \A q \in Proc : CleanFits(q)
    BY <2>1 DEF CleanInv, LocalTypeOK
  <2>3. \A q \in Proc : CleanFits(q)'  BY <2>1, <2>2, OthersKeepClean
  <2> QED  BY <2>1, <2>2, <2>3
<1>3. ASSUME NEW p \in Proc, ProcNext(p)
      PROVE  torn' = FALSE /\ OneLine(file') /\ OneLine(old')
             /\ \A q \in Proc : CleanFits(q)'
  <2>1. failures = 0  BY <1>3, FaultsCount
  <2>2. torn = FALSE /\ OneLine(file) /\ OneLine(old) /\ \A q \in Proc : CleanFits(q)
    BY <2>1 DEF CleanInv, LocalTypeOK
  <2>3. tmpTorn = FALSE  BY <2>1 DEF LocalTypeOK
  <2>4. torn' = FALSE /\ OneLine(file') /\ OneLine(old') /\ CleanFits(p)'
    BY <1>3, <2>2, <2>3, StepKeepsClean
  <2>5. Others(p)  BY <1>3, StepSparesOthers DEF LockInv
  <2>6. ASSUME NEW q \in Proc \ {p}  PROVE CleanFits(q)'
    <3>1. pc[q] \notin Inside \/ UNCHANGED <<file, tmp, old>>
      BY <1>1, <1>3, OthersSeeTheSame
    <3> QED  BY <2>2, <2>5, <3>1, OthersKeepClean DEF Others
  <2> QED  BY <2>4, <2>6
<1> QED  BY <1>2, <1>3 DEF Next

\* If the administrator has written no two rules of an address, none of them
\* is there to begin with.
LEMMA InitCleanInv ==
  ASSUME OneLinesToBegin, Init
  PROVE  CleanInv
<1>1. torn = FALSE /\ file \in InitialFiles /\ old = <<>> /\ pc = [q \in Proc |-> "idle"]
  BY DEF Init
<1>2. OneLine(file) /\ OneLine(old)
  BY <1>1 DEF OneLinesToBegin, OneLine, RulesOf
<1>3. \A q \in Proc : CleanFits(q)
  BY <1>1 DEF CleanFits, Inside
<1> QED  BY <1>1, <1>2, <1>3 DEF CleanInv

\* Whatever fails, every process is where its lock lets it be, the files are
\* files, and no writer finds a stranger in them but one that a cut line has made.
THEOREM FilesInvHolds == Spec => []FilesInv
<1>1. FilesInv /\ [Next]_vars => FilesInv'  BY NextKeepsFilesInv
<1> QED  BY InitFilesInv, <1>1, PTL DEF Spec

\* The whole invariant, from files with one rule for each address.
THEOREM LocalInvHolds == ASSUME OneLinesToBegin  PROVE Spec => []LocalInv
<1>1. Init => LocalInv  BY InitFilesInv, InitCleanInv DEF LocalInv
<1>2. LocalInv /\ [Next]_vars => LocalInv'
  BY NextKeepsFilesInv, NextKeepsCleanInv DEF LocalInv
<1> QED  BY <1>1, <1>2, PTL DEF Spec

\* topup never leaves two rules of an address while nothing fails, whoever
\* else topups, removes, refreshes or reads at the same time.
THEOREM OneLinePerAddressHolds == ASSUME OneLinesToBegin  PROVE Spec => []OneLinePerAddress
<1>1. LocalInv => OneLinePerAddress  BY DEF LocalInv, CleanInv, OneLinePerAddress
<1> QED  BY LocalInvHolds, <1>1, PTL

----------------------------------------------------------------------------
(* No access is invented.                                                   *)

\* No file operation, done, failed or cut short, lets in a stranger, but for the
\* one that a cut line may be taken for.
LEMMA StepKeepsStrangersOut ==
  ASSUME FilesInv, [Next]_vars
  PROVE  StrangersStayOut
<1> USE DEF FilesInv, Goto
<1>1. ASSUME UNCHANGED file  PROVE StrangersStayOut
  BY <1>1 DEF StrangersStayOut, AddrsOf, Entry, RulesOf
<1>2. CASE UNCHANGED vars \/ Tick
  <2>1. UNCHANGED file  BY <1>2 DEF vars, dataVars, Tick
  <2> QED  BY <1>1, <2>1
<1>3. ASSUME NEW p \in Proc, ProcNext(p)
      PROVE  StrangersStayOut
  <2>1. failures' = 0 => failures = 0  BY <1>3, FaultsCount
  <2>2. failures \in Nat /\ failures' \in Nat
    BY <1>3, LocalsKeepTypes DEF LocalTypeOK
  <2>3. ASSUME pc[p] \in {"move", "copy"},
               \A a \in AddrsOf(file') \ AddrsOf(file) :
                 a \in AddrsOf(old) \/ (failures' > 0 /\ a \in Garblings(AddrsOf(old)))
        PROVE  StrangersStayOut
    <3> SUFFICES ASSUME NEW a \in AddrsOf(file') \ AddrsOf(file)
                 PROVE  \E b \in AddrsOf(old) : a = b \/ (failures' > 0 /\ a \in Garbled(b))
      BY <2>3 DEF StrangersStayOut, WrittenBy
    <3> QED  BY <2>3 DEF Garblings
  <2>4. ASSUME pc[p] \in {"move", "copy"}
        PROVE  /\ AddrsOf(tmp) \subseteq Garblings(AddrsOf(old))
               /\ failures = 0 => AddrsOf(tmp) \subseteq AddrsOf(old)
    BY <2>4 DEF DataFits, ControlFits, Inside
  <2>5. CASE MoveByRename(p) \/ MoveCopies(p)
    <3>1. pc[p] \in {"move", "copy"} /\ file' = tmp
      BY <2>5 DEF MoveByRename, MoveCopies
    <3>2. CASE failures' = 0  BY <2>1, <2>3, <2>4, <3>1, <3>2
    <3>3. CASE failures' # 0  BY <2>2, <2>3, <2>4, <3>1, <3>3
    <3> QED  BY <3>2, <3>3
  <2>6. CASE MoveTruncates(p)
    <3>1. file' = <<>> /\ pc[p] = "move"  BY <2>6 DEF MoveTruncates
    <3> QED  BY <2>3, <3>1, NoAddrs
  <2>7. CASE Kill(p) \/ MoveFails(p)
    <3>1. \/ UNCHANGED file
          \/ pc[p] = "copy" /\ \E c \in CutFiles(tmp, tmpTorn) : file' = c.file
      BY <2>7 DEF Kill, MoveFails
    <3>2. failures' > 0  BY <1>3, <2>7, FailuresGrow
    <3>3. ASSUME pc[p] = "copy", NEW c \in CutFiles(tmp, tmpTorn), file' = c.file
          PROVE  StrangersStayOut
      <4>1. AddrsOf(file') \subseteq Garblings(AddrsOf(tmp))
        BY <3>3, CutAddrs DEF LocalTypeOK
      <4>2. AddrsOf(tmp) \subseteq Garblings(AddrsOf(old))  BY <2>4, <3>3
      <4>3. AddrsOf(old) \subseteq Addr  BY DEF AddrsOf
      <4>4. Garblings(AddrsOf(tmp)) \subseteq Garblings(AddrsOf(old))
        BY <4>2, <4>3, GarbledTwice
      <4> QED  BY <2>3, <3>2, <3>3, <4>1, <4>4
    <3> QED  BY <1>1, <3>1, <3>3
  <2>8. CASE AppendLine(p) \/ AppendIsShort(p)
    <3>1. /\ pc[p] = "append" /\ job[p].addr \in Addr
          /\ \A a \in AddrsOf(file') \ AddrsOf(file) :
               a = job[p].addr \/ (failures' > 0 /\ a \in Garbled(job[p].addr))
      BY <2>8, AppendedFile
    <3> QED  BY <3>1 DEF StrangersStayOut, WrittenBy
  <2>9. CASE ~(\/ MoveByRename(p) \/ MoveCopies(p) \/ MoveTruncates(p) \/ Kill(p)
               \/ MoveFails(p) \/ AppendLine(p) \/ AppendIsShort(p))
    <3>1. UNCHANGED file
      BY <1>3, <2>9
      DEF ProcNext, Start, Open, Acquire, ReadFile, BeginFilter, BeginTopup, FilterToTmp,
          Close, OpenFails, TmpIsShort, dataVars
    <3> QED  BY <1>1, <3>1
  <2> QED  BY <2>5, <2>6, <2>7, <2>8, <2>9
<1> QED  BY <1>2, <1>3 DEF Next

\* The entries after the last step of a move: those that the filter leaves.
LEMMA MovedFile ==
  ASSUME LocalTypeOK, NEW p \in Proc, MoveByRename(p) \/ MoveCopies(p),
         ControlFits(p), CleanFits(p), OneLine(old)
  PROVE  /\ job[p] \in Jobs
         /\ \A a \in Addr : Entry(file', a) = Entry(Filtered(job[p], old), a)
         /\ \A a \in Addr : Entry(file', a) \in {Absent, Entry(old, a)}
<1>1. pc[p] \in {"move", "copy"} /\ file' = tmp
  BY DEF MoveByRename, MoveCopies, Goto
<1>2. job[p] \in Jobs /\ tmp = Filtered(job[p], old)
  BY <1>1 DEF ControlFits, CleanFits
<1>3. \A a \in Addr : Entry(Filtered(job[p], old), a) \in {Absent, Entry(old, a)}
  BY <1>2, FilteredStore DEF LocalTypeOK
<1> QED  BY <1>1, <1>2, <1>3

\* While nothing has failed, only a whitelisted address gets unlimited access.
LEMMA StepListsTheUnlimited ==
  ASSUME FilesInv, CleanInv, [Next]_vars
  PROVE  OnlyListedAreUnlimited
<1> SUFFICES ASSUME failures' = 0, NEW a \in Addr,
                    Entry(file, a) # Unlimited, Entry(file', a) = Unlimited
             PROVE  \E p \in Proc : \/ job[p] = [kind |-> "whitelist", addr |-> a]
                                    \/ Entry(old, a) = Unlimited /\ pc[p] = "copy"
  BY DEF OnlyListedAreUnlimited
<1> USE DEF FilesInv, Goto
<1>1. ~UNCHANGED file  OBVIOUS
<1>2. PICK p \in Proc : ProcNext(p)
  BY <1>1 DEF Next, Tick, vars, dataVars
<1>3. failures = 0  BY <1>2, FaultsCount
<1>4. torn = FALSE /\ OneLine(file) /\ OneLine(old) /\ CleanFits(p)
  BY <1>3 DEF CleanInv, LocalTypeOK
<1>5. MoveByRename(p) \/ MoveTruncates(p) \/ MoveCopies(p) \/ AppendLine(p)
  BY <1>1, <1>2, FaultsCount
  DEF Start, Open, Acquire, ReadFile, BeginFilter, BeginTopup, FilterToTmp, Close, dataVars
<1>6. CASE MoveTruncates(p)
  <2>1. file' = <<>>  BY <1>6 DEF MoveTruncates
  <2>2. Entry(<<>>, a) = Absent
    <3>1. <<>> \in Seq(Line) /\ RulesOf(<<>>, a) = {}  BY DEF RulesOf
    <3> QED  BY <3>1, EntryIs
  <2> QED  BY <2>1, <2>2, LinesAssumption
<1>7. CASE MoveByRename(p) \/ MoveCopies(p)
  <2>1. Entry(old, a) = Unlimited  BY <1>4, <1>7, MovedFile, LinesAssumption
  <2>2. pc[p] = "move" => file = old
    <3>1. pc[p] = "move" => job[p].kind # "read"  BY DEF ControlFits, Inside
    <3> QED  BY <3>1 DEF DataFits, Inside
  <2>3. pc[p] \in {"move", "copy"}  BY <1>7 DEF MoveByRename, MoveCopies
  <2> QED  BY <2>1, <2>2, <2>3
<1>8. CASE AppendLine(p)
  <2> DEFINE b == job[p].addr
  <2>1. /\ b \in Addr /\ job[p] \in Jobs /\ IsTopup(job[p])
        /\ Entry(old, b) \in Int \cup {Absent}
        /\ Entry(file', a) = IF a = b THEN NewExpire(job[p], Entry(old, b)) ELSE Entry(old, a)
    BY <1>4, <1>8, AppendedRule
  <2>2. \A c \in Addr \ {b} : Entry(file, c) = Entry(old, c)
    BY <1>4, <1>8 DEF AppendLine, CleanFits
  <2>3. a = b  BY <2>1, <2>2
  <2>4. job[p].kind = "whitelist"
    BY <2>1, <2>3, NewExpireIs, JobFields, LinesAssumption
  <2> QED  BY <2>1, <2>3, <2>4, JobFields
<1> QED  BY <1>5, <1>6, <1>7, <1>8

\* No file operation, done, failed or cut short by a kill, lets in an address
\* that nobody has paid for or whitelisted, other than one that the cut line of such
\* an address may be taken for: and that only when something has failed.
THEOREM StrangersStayOutHolds == Spec => [][StrangersStayOut]_vars
<1>1. FilesInv /\ [Next]_vars => [StrangersStayOut]_vars
  BY StepKeepsStrangersOut
<1> QED  BY FilesInvHolds, <1>1, PTL DEF Spec

\* And while nothing fails, no payment and no roll back makes access unlimited.
THEOREM NoAccessInventedHolds == ASSUME OneLinesToBegin  PROVE Spec => NoAccessInvented
<1>1. LocalInv /\ [Next]_vars => [file' # file => StrangersStayOut /\ OnlyListedAreUnlimited]_vars
  BY StepKeepsStrangersOut, StepListsTheUnlimited DEF LocalInv
<1> QED  BY LocalInvHolds, <1>1, PTL DEF Spec, NoAccessInvented

----------------------------------------------------------------------------
(* The file operations implement the table.                                 *)

Changing == {"move", "copy", "append"}

\* To a writer, before and after its step, the table is the old file between its
\* first and its last change of the file, and the file at other times.
LEMMA TableOfWriter ==
  ASSUME MutualExclusion, \A q \in Proc : ControlFits(q), NEW p \in Proc, held[p] = "x",
         Others(p)
  PROVE  /\ Table = IF pc[p] \in Changing THEN TableOf(old) ELSE TableOf(file)
         /\ Table' = IF pc'[p] \in Changing THEN TableOf(old') ELSE TableOf(file')
<1>1. \A q \in Proc \ {p} : pc[q] \notin Changing  BY Alone DEF Inside, Changing
<1>2. \A q \in Proc \ {p} : pc'[q] \notin Changing  BY <1>1 DEF Others
<1>3. Table = IF pc[p] \in Changing THEN TableOf(old) ELSE TableOf(file)
  BY <1>1 DEF Table, Changing
<1>4. Table' = IF pc'[p] \in Changing THEN TableOf(old') ELSE TableOf(file')
  BY <1>2 DEF Table, Changing
<1> QED  BY <1>3, <1>4

\* To a process that is in no change, its own steps do not change the table.
LEMMA TableOfOthers ==
  ASSUME NEW p \in Proc, Others(p), pc[p] \notin Changing, pc'[p] \notin Changing,
         UNCHANGED file,
         UNCHANGED old \/ \A q \in Proc \ {p} : pc[q] \notin Changing
  PROVE  Table' = Table
<1>1. (\E q \in Proc : pc[q] \in Changing)' <=> \E q \in Proc : pc[q] \in Changing
  BY DEF Others
<1>2. CASE UNCHANGED old
  BY <1>1, <1>2 DEF Table, TableOf, Changing, Entry, RulesOf
<1>3. CASE \A q \in Proc \ {p} : pc[q] \notin Changing
  <2>1. Table = TableOf(file)  BY <1>3 DEF Table, Changing
  <2>2. Table' = TableOf(file')  BY <1>1, <1>3 DEF Table, Changing
  <2> QED  BY <2>1, <2>2
<1> QED  BY <1>2, <1>3

\* The last change of remove and refresh is theirs in the table.
LEMMA FilterIsStoreStep ==
  ASSUME NEW j \in Jobs, j.kind \in {"remove", "refresh"}, NEW f \in Seq(Line), OneLine(f),
         UNCHANGED view, Table = TableOf(f), Table' = TableOf(Filtered(j, f))
  PROVE  Store!LocalNext
<1>1. \A a \in Addr : Table[a] = Entry(f, a) /\ Table'[a] = Entry(Filtered(j, f), a)
  BY DEF TableOf
<1>2. CASE j.kind = "remove"
  <2>1. j.addr \in Addr  BY <1>2, JobFields
  <2>2. TableOf(Filtered(j, f)) = [TableOf(f) EXCEPT ![j.addr] = Absent]
    BY <1>2, <2>1, FilteredStore DEF TableOf
  <2>3. Store!LocalRemove(j.addr)  BY <2>2 DEF Store!LocalRemove
  <2> QED  BY <2>1, <2>3 DEF Store!LocalNext
<1>3. CASE j.kind = "refresh"
  <2>1. j.t \in Times  BY <1>3, JobFields
  <2>2. TableOf(Filtered(j, f)) =
          [a \in Addr |-> IF TableOf(f)[a] \notin {Absent, Unlimited} /\ TableOf(f)[a] <= j.t
                          THEN Absent ELSE TableOf(f)[a]]
    BY <1>3, FilteredStore DEF TableOf
  <2>3. Store!LocalRefresh(j.t)  BY <2>2 DEF Store!LocalRefresh
  <2> QED  BY <2>1, <2>3 DEF Store!LocalNext
<1> QED  BY <1>2, <1>3

\* The line that topup appends is its change of the table.
LEMMA AppendIsStoreStep ==
  ASSUME NEW j \in Jobs, IsTopup(j), NEW f \in Seq(Line),
         Entry(f, j.addr) \in Int \cup {Absent},
         UNCHANGED view, Table = TableOf(f),
         \A b \in Addr : Table'[b] = IF b = j.addr THEN NewExpire(j, Entry(f, j.addr)) ELSE Entry(f, b),
         Table' = [b \in Addr |-> Table'[b]]
  PROVE  Store!LocalNext
<1> DEFINE a == j.addr
<1>1. a \in Addr  BY JobFields DEF IsTopup
<1>2. Table[a] = Entry(f, a)  BY <1>1 DEF TableOf
<1>3. Table' = [Table EXCEPT ![a] = NewExpire(j, Entry(f, a))]
  BY <1>1 DEF TableOf
<1>4. CASE j.kind = "whitelist"
  <2>1. Store!LocalWhitelist(a)  BY <1>3, <1>4, NewExpireIs DEF Store!LocalWhitelist
  <2> QED  BY <1>1, <2>1 DEF Store!LocalNext
<1>5. CASE j.kind = "topup"
  <2>1. j.t \in Times /\ j.dt \in Spans  BY <1>5, JobFields
  <2>2. Store!LocalTopup(a, j.t, j.dt)
    <3>1. /\ Table[a] # Unlimited
          /\ NewExpire(j, Entry(f, a)) = IF Table[a] = Absent THEN j.t + j.dt ELSE Table[a] + j.dt
      BY <1>2, <1>5, NewExpireIs, LinesAssumption
    <3> QED  BY <1>3, <3>1 DEF Store!LocalTopup
  <2> QED  BY <1>1, <2>1, <2>2 DEF Store!LocalNext
<1> QED  BY <1>4, <1>5, JobFields

\* Every step that does not fail is one step of the table, or none.
LEMMA StepImplementsStore ==
  ASSUME FilesInv, CleanInv, FilesInv', NEW p \in Proc, ProcNext(p), failures' = 0
  PROVE  Store!LocalNext \/ UNCHANGED <<Table, view>>
<1> USE DEF FilesInv, LocalTypeOK, LockInv, Goto
<1>1. failures = 0  BY FaultsCount
<1>2. torn = FALSE /\ OneLine(file) /\ OneLine(old) /\ CleanFits(p)
  BY <1>1 DEF CleanInv, LocalTypeOK
<1>3. Others(p)  BY StepSparesOthers
<1>4. held[p] = "x" =>
        /\ Table = IF pc[p] \in Changing THEN TableOf(old) ELSE TableOf(file)
        /\ Table' = IF pc'[p] \in Changing THEN TableOf(old') ELSE TableOf(file')
  BY <1>3, TableOfWriter
<1>5. CASE Start(p) \/ Open(p) \/ Acquire(p)
  <2>1. /\ pc[p] \notin Changing /\ pc'[p] \notin Changing /\ UNCHANGED <<file, view>>
        /\ (UNCHANGED old \/ Acquire(p))
    BY <1>5 DEF Start, Open, Acquire, dataVars, Changing
  <2>2. UNCHANGED old \/ \A q \in Proc \ {p} : pc[q] \notin Changing
    <3>1. ASSUME Acquire(p), job[p].kind # "read", NEW q \in Proc \ {p}
          PROVE  pc[q] \notin Changing
      <4>1. held'[p] = "x" /\ held'[q] = held[q]
        BY <1>3, <3>1 DEF Acquire, Flock, LockTypeOK, Others
      <4>2. held[q] = "none"  BY <4>1 DEF MutualExclusion
      <4> QED  BY <4>2 DEF ControlFits, Inside, Changing
    <3> QED  BY <2>1, <3>1 DEF Acquire
  <2> QED  BY <1>3, <2>1, <2>2, TableOfOthers
<1>6. CASE ReadFile(p)
  <2>1. pc[p] = "begin" /\ pc'[p] = "close" /\ held[p] = "s"
        /\ UNCHANGED <<file, old>>
    BY <1>6 DEF ReadFile, ControlFits, Inside
  <2>2. \A q \in Proc : pc[q] \notin Changing
    <3>1. \A q \in Proc : held[q] # "x"  BY <2>1 DEF MutualExclusion
    <3> QED  BY <3>1 DEF ControlFits, Inside, Changing
  <2>3. Table = TableOf(file)  BY <2>2 DEF Table, Changing
  <2>4. Table' = Table  BY <1>3, <2>1, <2>2, TableOfOthers DEF Changing
  <2>5. CASE view' = [view EXCEPT ![p] = TableOf(file)]
    <3>1. Store!LocalRead(p)  BY <2>3, <2>4, <2>5 DEF Store!LocalRead
    <3> QED  BY <3>1 DEF Store!LocalNext
  <2>6. CASE UNCHANGED view  BY <2>4, <2>6
  <2> QED  BY <1>6, <2>5, <2>6 DEF ReadFile
<1>7. CASE Close(p)
  <2>1. /\ pc[p] = "close" /\ pc'[p] = "idle" /\ UNCHANGED file
        /\ view' = [view EXCEPT ![p] = Store!NoView]
        /\ old' = IF held[p] = "x" THEN <<>> ELSE old
    BY <1>7 DEF Close, Return
  <2>2. Table' = Table
    <3>1. CASE held[p] = "x"
      <4>1. TableOf(file') = TableOf(file)  BY <2>1
      <4>2. pc[p] \notin Changing /\ pc'[p] \notin Changing  BY <2>1 DEF Changing
      <4> QED  BY <1>4, <3>1, <4>1, <4>2
    <3>2. CASE held[p] # "x"
      BY <1>3, <2>1, <3>2, TableOfOthers DEF Changing
    <3> QED  BY <3>1, <3>2
  <2>3. Store!LocalReturn(p)  BY <2>1, <2>2 DEF Store!LocalReturn
  <2> QED  BY <2>3 DEF Store!LocalNext
<1>8. CASE BeginFilter(p) \/ BeginTopup(p) \/ FilterToTmp(p) \/ MoveTruncates(p)
  <2>1. /\ pc[p] \in {"begin", "filter", "move"} /\ job[p].kind # "read"
        /\ UNCHANGED <<old, view>>
    BY <1>8
    DEF BeginFilter, BeginTopup, IsTopup, FilterToTmp, MoveTruncates, dataVars, ControlFits, Inside
  <2>2. held[p] = "x" /\ file = old  BY <2>1 DEF ControlFits, DataFits, Inside
  <2>3. Table = TableOf(old)
    <3>1. TableOf(file) = TableOf(old)  BY <2>2
    <3>2. CASE pc[p] \in Changing  BY <1>4, <2>2, <3>2
    <3>3. CASE pc[p] \notin Changing  BY <1>4, <2>2, <3>1, <3>3
    <3> QED  BY <3>2, <3>3
  <2>4. Table' = TableOf(old)
    <3>1. CASE MoveTruncates(p)
      <4>1. pc'[p] = "copy"  BY <3>1 DEF MoveTruncates, LocalTypeOK
      <4>2. TableOf(old') = TableOf(old)  BY <2>1
      <4>3. pc'[p] \in Changing  BY <4>1 DEF Changing
      <4> QED  BY <1>4, <2>2, <4>2, <4>3
    <3>2. CASE ~MoveTruncates(p)
      <4>1. UNCHANGED file
        BY <1>8, <3>2 DEF BeginFilter, BeginTopup, FilterToTmp, dataVars
      <4>2. TableOf(file') = TableOf(old) /\ TableOf(old') = TableOf(old)
        BY <2>1, <2>2, <4>1
      <4>3. CASE pc'[p] \in Changing  BY <1>4, <2>2, <4>2, <4>3
      <4>4. CASE pc'[p] \notin Changing  BY <1>4, <2>2, <4>2, <4>4
      <4> QED  BY <4>3, <4>4
    <3> QED  BY <3>1, <3>2
  <2> QED  BY <2>1, <2>3, <2>4
<1>9. CASE MoveByRename(p) \/ MoveCopies(p)
  <2>1. /\ pc[p] \in {"move", "copy"} /\ job[p].kind # "read" /\ pc'[p] = AfterFilter(p)
        /\ job[p] \in Jobs /\ UNCHANGED <<old, view>>
    BY <1>9 DEF MoveByRename, MoveCopies, AfterFilter, ControlFits, Inside, LocalTypeOK
  <2>2. held[p] = "x"  BY <2>1 DEF ControlFits, Inside
  <2>3. Table = TableOf(old)  BY <1>4, <2>1, <2>2 DEF Changing
  <2>4. CASE IsTopup(job[p])
    <3>1. pc'[p] \in Changing  BY <2>1, <2>4 DEF AfterFilter, Changing
    <3>2. TableOf(old') = TableOf(old)  BY <2>1
    <3>3. Table' = TableOf(old)  BY <1>4, <2>2, <3>1, <3>2
    <3> QED  BY <2>1, <2>3, <3>3
  <2>5. CASE ~IsTopup(job[p])
    <3>1. pc'[p] = "close"  BY <2>1, <2>5 DEF AfterFilter
    <3>2. Table' = TableOf(file')  BY <1>4, <2>2, <3>1 DEF Changing
    <3>3. Table' = TableOf(Filtered(job[p], old))
      BY <1>2, <1>9, <3>2, MovedFile DEF TableOf
    <3>4. job[p].kind \in {"remove", "refresh"}  BY <2>1, <2>5, JobFields
    <3> QED  BY <1>2, <2>1, <2>3, <3>3, <3>4, FilterIsStoreStep DEF LocalTypeOK
  <2> QED  BY <2>4, <2>5
<1>10. CASE AppendLine(p)
  <2> DEFINE a == job[p].addr
  <2>1. /\ job[p] \in Jobs /\ IsTopup(job[p]) /\ Entry(old, a) \in Int \cup {Absent}
        /\ \A b \in Addr : Entry(file', b) =
             IF b = a THEN NewExpire(job[p], Entry(old, a)) ELSE Entry(old, b)
    BY <1>2, <1>10, AppendedRule
  <2>2. pc[p] = "append" /\ pc'[p] = "close" /\ UNCHANGED view
    BY <1>10 DEF AppendLine, LocalTypeOK
  <2>3. held[p] = "x"  BY <2>1, <2>2 DEF ControlFits, Inside, IsTopup
  <2>4. Table = TableOf(old) /\ Table' = TableOf(file')
    BY <1>4, <2>2, <2>3 DEF Changing
  <2>5. Table' = [b \in Addr |-> Entry(file', b)]  BY <2>4 DEF TableOf
  <2> QED  BY <2>1, <2>2, <2>4, <2>5, AppendIsStoreStep DEF LocalTypeOK
<1> QED  BY <1>5, <1>6, <1>7, <1>8, <1>9, <1>10, FaultsCount

\* The file operations implement the table, until something fails: the last
\* change of the file of each operation is its one step.
THEOREM LocalRefinement == ASSUME OneLinesToBegin  PROVE Spec => ImplementsStore
<1>1. Init => Store!LocalInit
  BY DEF Init, Store!LocalInit
<1>2. LocalInv /\ [Next]_vars => [(failures > 0)' \/ Store!LocalNext]_<<Table, view>>
  <2> SUFFICES ASSUME LocalInv, [Next]_vars, ~(failures' > 0)
               PROVE  Store!LocalNext \/ UNCHANGED <<Table, view>>
    OBVIOUS
  <2> USE DEF LocalInv
  <2>1. FilesInv'  BY NextKeepsFilesInv
  <2>2. failures' = 0  BY <2>1 DEF FilesInv, LocalTypeOK
  <2>3. CASE UNCHANGED vars \/ Tick
    <3>1. UNCHANGED <<pc, file, old, view>>  BY <2>3 DEF vars, dataVars, Tick
    <3> QED  BY <3>1 DEF Table, TableOf, Entry, RulesOf
  <2>4. ASSUME NEW p \in Proc, ProcNext(p)
        PROVE  Store!LocalNext \/ UNCHANGED <<Table, view>>
    BY <2>1, <2>2, <2>4, StepImplementsStore
  <2> QED  BY <2>3, <2>4 DEF Next
<1> QED  BY LocalInvHolds, <1>1, <1>2, PTL
         DEF Spec, ImplementsStore, Store!LocalSpec, Store!tableVars
=============================================================================
