------------------------- MODULE Configuration_proofs -------------------------
(***************************************************************************)
(* Proofs about Configuration, for any files, environments and policies,   *)
(* and any number of failed writes.                                        *)
(***************************************************************************)
EXTENDS Configuration, FiniteSetTheorems, SequenceTheorems,
        WellFoundedInduction, TLAPS

\* Wherever a number comes from, and whatever is made of it, it is positive.
LEMMA NumbersArePositive ==
  ASSUME NEW f, NEW e, NEW s, FileFits(f, s), EnvFits(e, s),
         s.kind \in {"positive", "grace"}
  PROVE  /\ IsPositive(Value(f, e, s))
         /\ s.kind = "grace" => Value(f, e, s).number <= MaxSessionGrace
<1> DEFINE given == IF Given(e, s) # {} THEN FromEnv(e, s) ELSE FromFile(f, s)
<1>1. IsPositive(given)
  <2>1. CASE Given(e, s) # {}
    BY <2>1 DEF EnvFits
  <2>2. CASE Given(e, s) = {}
    BY <2>2 DEF FileFits
  <2> QED
    BY <2>1, <2>2
<1> HIDE DEF given
<1>2. CASE s.kind = "positive"
  <2>1. Value(f, e, s) = given
    BY <1>2 DEF Value, given
  <2> QED
    BY <1>1, <1>2, <2>1
<1>3. CASE s.kind = "grace"
  <2>1. Value(f, e, s) = IF given.type = "integer" /\ given.number > MaxSessionGrace
                         THEN Number(MaxSessionGrace) ELSE given
    BY <1>3 DEF Value, given
  <2>2. given.type = "integer"
    BY <1>1 DEF IsPositive
  <2>3. CASE given.number > MaxSessionGrace
    <3>1. Value(f, e, s) = Number(MaxSessionGrace)
      BY <2>1, <2>2, <2>3
    <3> QED
      BY <3>1 DEF IsPositive, Number, MaxSessionGrace
  <2>4. CASE ~(given.number > MaxSessionGrace)
    <3>1. Value(f, e, s) = given
      BY <2>1, <2>4
    <3> QED
      BY <1>1, <2>4, <3>1 DEF IsPositive, MaxSessionGrace
  <2> QED
    BY <2>3, <2>4
<1> QED
  BY <1>2, <1>3

\* A configuration that loads has its other settings in range as well.
LEMMA LoadedInRange ==
  ASSUME NEW f, NEW e, Loads(f, e), NEW s \in OtherSettings
  PROVE  /\ s.kind \in {"positive", "grace"} => IsPositive(Load(f, e)[s])
         /\ s.kind = "grace" => Load(f, e)[s].number <= MaxSessionGrace
         /\ s.kind = "boolean" => Load(f, e)[s].type = "boolean"
         /\ s.kind = "level" => Load(f, e)[s] \in Levels
<1>1. Load(f, e)[s] = Value(f, e, s)
  BY DEF Load
<1>2. FileFits(f, s) /\ EnvFits(e, s) /\ ValueFits(f, e, s)
  BY DEF Loads, Settings
<1>3. CASE s.kind = "boolean"
  <2>1. Value(f, e, s) = IF Given(e, s) # {} THEN FromEnv(e, s) ELSE FromFile(f, s)
    BY <1>3 DEF Value
  <2>2. Given(e, s) # {} => FromEnv(e, s).type = "boolean"
    BY <1>2, <1>3 DEF EnvFits
  <2>3. FromFile(f, s).type = "boolean"
    BY <1>2, <1>3 DEF FileFits
  <2> QED
    BY <1>1, <1>3, <2>1, <2>2, <2>3
<1>4. CASE s.kind = "level"
  BY <1>1, <1>2, <1>4 DEF ValueFits
<1>5. CASE s.kind \in {"positive", "grace"}
  BY <1>1, <1>2, <1>5, NumbersArePositive
<1>6. CASE s.kind \notin {"boolean", "level", "positive", "grace"}
  BY <1>6
<1> QED
  BY <1>3, <1>4, <1>5, <1>6

\* Nothing but a start sets the configuration, and no start gets past the
\* checks: whatever is in the file, cut, saved or edited, and wherever the
\* daemon is started.
THEOREM RunningInRange == Spec => []RunsInRange
<1>1. Init => RunsInRange
  BY DEF Init, RunsInRange, Up
<1>2. RunsInRange /\ [Next]_vars => RunsInRange'
  <2> SUFFICES ASSUME RunsInRange, [Next]_vars PROVE RunsInRange'
    OBVIOUS
  <2>1. ASSUME config' = config PROVE RunsInRange'
    BY <2>1 DEF RunsInRange, Up
  <2>2. ASSUME config' = NoConfig PROVE RunsInRange'
    BY <2>2 DEF RunsInRange, Up
  <2>3. CASE Start
    <3> DEFINE c == Load(file, env)
    <3>1. /\ config' = c
          /\ Loads(file, env) /\ WithinBoundary(c) /\ PortsFit(c)
      BY <2>3 DEF Start, Starts
    <3>2. \A s \in OtherSettings :
            /\ s.kind \in {"positive", "grace"} => IsPositive(c[s])
            /\ s.kind = "grace" => c[s].number <= MaxSessionGrace
            /\ s.kind = "boolean" => c[s].type = "boolean"
            /\ s.kind = "level" => c[s] \in Levels
      BY <3>1, LoadedInRange
    <3> HIDE DEF c
    <3> QED
      BY <3>1, <3>2 DEF RunsInRange, WithinBoundary, PortsFit
  <2>4. CASE Stop
    BY <2>2, <2>4 DEF Stop
  <2>5. CASE Edit \/ UNCHANGED vars
    BY <2>1, <2>5 DEF Edit, vars
  <2>6. ASSUME NEW p \in Policies, SaveToolAccess(p) \/ SaveIsCut(p)
        PROVE  RunsInRange'
    BY <2>1, <2>2, <2>6 DEF SaveToolAccess, SaveIsCut
  <2> QED
    BY <2>3, <2>4, <2>5, <2>6 DEF Next
<1> QED
  BY <1>1, <1>2, PTL DEF Spec

-----------------------------------------------------------------------------
(* The ends of finite sets of numbers *)

LEMMA NaturalsHaveMin ==
  ASSUME NEW T, T \subseteq Nat, T # {}
  PROVE  \E x \in T : \A y \in T : x <= y
<1>1. \E x \in T : \A y \in T : ~ (<<y, x>> \in OpToRel(<, Nat))
  BY NatLessThanWellFounded, WFMin
<1>2. PICK x \in T : \A y \in T : ~ (<<y, x>> \in OpToRel(<, Nat))
  BY <1>1
<1>3. ASSUME NEW y \in T PROVE x <= y
  <2>1. ~ (<<y, x>> \in OpToRel(<, Nat))
    BY <1>2
  <2>2. x \in Nat /\ y \in Nat
    OBVIOUS
  <2>3. ~ (y < x)
    BY <2>1, <2>2 DEF OpToRel
  <2> QED
    BY <2>2, <2>3
<1> QED
  BY <1>3

LEMMA MinOfNaturals ==
  ASSUME NEW T, T \subseteq Nat, T # {}
  PROVE  Min(T) \in T /\ \A y \in T : Min(T) <= y
BY NaturalsHaveMin DEF Min

\* The first number of a set, or one beyond the end.
LEMMA FirstOf ==
  ASSUME NEW n \in Nat, NEW T, T \subseteq 1 .. n
  PROVE  /\ Min({n + 1} \cup T) \in {n + 1} \cup T
         /\ Min({n + 1} \cup T) \in 1 .. n + 1
         /\ \A y \in T : Min({n + 1} \cup T) <= y
<1>1. {n + 1} \cup T \subseteq Nat
  <2>1. \A x \in T : x \in Nat
    BY SMT
  <2> QED
    BY <2>1
<1>2. /\ Min({n + 1} \cup T) \in {n + 1} \cup T
      /\ \A y \in {n + 1} \cup T : Min({n + 1} \cup T) <= y
  BY <1>1, MinOfNaturals
<1>3. \A x \in {n + 1} \cup T : x \in 1 .. n + 1
  <2>1. \A x \in T : x \in 1 .. n + 1
    BY SMT
  <2> QED
    BY <2>1, SMT
<1> QED
  BY <1>2, <1>3

LEMMA MaxOfRange ==
  ASSUME NEW n \in Nat, NEW T, T \subseteq 0 .. n, T # {}
  PROVE  Max(T) \in T /\ \A y \in T : y <= Max(T)
<1> DEFINE D == {n - x : x \in T}
<1>1. D \subseteq Nat /\ D # {}
  <2>1. \A x \in T : n - x \in Nat
    BY SMT
  <2> QED
    BY <2>1
<1> HIDE DEF D
<1>2. PICK d \in D : \A y \in D : d <= y
  BY <1>1, NaturalsHaveMin
<1>3. PICK x \in T : d = n - x
  BY DEF D
<1>4. ASSUME NEW y \in T PROVE x >= y
  <2>1. n - y \in D
    BY DEF D
  <2>2. n - x <= n - y
    BY <1>2, <1>3, <2>1
  <2>3. x \in Int /\ y \in Int
    OBVIOUS
  <2> QED
    BY <2>2, <2>3
<1>5. \E m \in T : \A y \in T : m >= y
  BY <1>4
<1>6. Max(T) \in T /\ \A y \in T : Max(T) >= y
  BY <1>5 DEF Max
<1>7. \A y \in T : y \in Int
  OBVIOUS
<1> QED
  BY <1>6, <1>7

\* The greatest number of a set, once it is known.
LEMMA MaxIs ==
  ASSUME NEW T, T \subseteq Int, NEW m \in T, \A y \in T : y <= m
  PROVE  Max(T) = m
<1>1. \E x \in T : \A y \in T : x >= y
  OBVIOUS
<1>2. Max(T) \in T /\ \A y \in T : Max(T) >= y
  BY <1>1 DEF Max
<1>3. Max(T) >= m /\ m >= Max(T) /\ m \in Int /\ Max(T) \in Int
  BY <1>2
<1> QED
  BY <1>3

-----------------------------------------------------------------------------
(* Files and their sections *)

\* The lines a file may come to have.
Lines ==
  Written \cup {Broken}
    \cup UNION {{Rendered(p)[i] : i \in 1 .. 5} : p \in Policies}

LEMMA HeadingLines ==
  ASSUME NEW l \in Lines, l.kind = "heading"
  PROVE  l = Heading(l.name)
<1>1. CASE l \in Written
  BY <1>1, FilesAssumption
<1>2. CASE l = Broken
  BY <1>2 DEF Broken
<1>3. ASSUME NEW p \in Policies, NEW i \in 1 .. 5, l = Rendered(p)[i]
      PROVE  l = Heading(l.name)
  <2>1. CASE i = 1
    <3>1. l = Heading("tool_access")
      BY <1>3, <2>1 DEF Rendered
    <3> QED
      BY <3>1 DEF Heading
  <2>2. CASE i # 1
    <3>1. \E k, v : l = Entry(k, v)
      <4>1. i = 2 \/ i = 3 \/ i = 4 \/ i = 5
        BY <2>2
      <4> QED
        BY <1>3, <4>1 DEF Rendered
    <3> QED
      BY <3>1 DEF Entry
  <2> QED
    BY <2>1, <2>2
<1> QED
  BY <1>1, <1>2, <1>3 DEF Lines

LEMMA RenderedLines ==
  ASSUME NEW p \in Policies
  PROVE  /\ Rendered(p) \in Seq(Lines)
         /\ Len(Rendered(p)) = 5
<1>1. \A i \in 1 .. 5 : Rendered(p)[i] \in Lines
  BY DEF Lines
<1> DEFINE l(i) == Rendered(p)[i]
<1>2. Rendered(p) = <<l(1), l(2), l(3), l(4), l(5)>>
  BY DEF Rendered
<1>3. /\ l(1) \in Lines /\ l(2) \in Lines /\ l(3) \in Lines
      /\ l(4) \in Lines /\ l(5) \in Lines
  BY <1>1
<1> HIDE DEF l
<1> QED
  BY <1>2, <1>3

\* Where a section starts: at its first heading.
LEMMA SectionStarts ==
  ASSUME NEW f \in Seq(Lines)
  PROVE  /\ SectionStart(f) \in 1 .. Len(f) + 1
         /\ SectionStart(f) <= Len(f) =>
              f[SectionStart(f)] = Heading("tool_access")
         /\ \A i \in 1 .. Len(f) :
              f[i] = Heading("tool_access") => SectionStart(f) <= i
<1> DEFINE T == {i \in 1 .. Len(f) : f[i] = Heading("tool_access")}
<1>1. SectionStart(f) = Min({Len(f) + 1} \cup T)
  BY DEF SectionStart
<1>2. Len(f) \in Nat
  OBVIOUS
<1>3. /\ SectionStart(f) \in {Len(f) + 1} \cup T
      /\ SectionStart(f) \in 1 .. Len(f) + 1
      /\ \A i \in T : SectionStart(f) <= i
  <2>1. T \subseteq 1 .. Len(f)
    OBVIOUS
  <2> HIDE DEF T
  <2>2. PICK n : n = Len(f)
    OBVIOUS
  <2>3. n \in Nat /\ T \subseteq 1 .. n
    BY <1>2, <2>1, <2>2
  <2>4. /\ Min({n + 1} \cup T) \in {n + 1} \cup T
        /\ Min({n + 1} \cup T) \in 1 .. n + 1
        /\ \A y \in T : Min({n + 1} \cup T) <= y
    BY <2>3, FirstOf
  <2> QED
    BY <1>1, <2>2, <2>4
<1>4. SectionStart(f) <= Len(f) => SectionStart(f) \in T
  <2> HIDE DEF T
  <2> QED
    BY <1>2, <1>3
<1> QED
  BY <1>3, <1>4

\* Where it ends: at the next heading of any kind.
LEMMA SectionEnds ==
  ASSUME NEW f \in Seq(Lines)
  PROVE  /\ SectionEnd(f) \in 1 .. Len(f) + 1
         /\ SectionStart(f) <= Len(f) => SectionStart(f) < SectionEnd(f)
         /\ SectionStart(f) = Len(f) + 1 => SectionEnd(f) = Len(f) + 1
         /\ SectionEnd(f) <= Len(f) =>
              f[SectionEnd(f)].kind \in {"heading", "odd heading"}
         /\ \A i \in SectionStart(f) + 1 .. SectionEnd(f) - 1 :
              f[i].kind \notin {"heading", "odd heading"}
<1> DEFINE T == {i \in SectionStart(f) + 1 .. Len(f) :
                   f[i].kind \in {"heading", "odd heading"}}
<1>1. SectionStart(f) \in 1 .. Len(f) + 1 /\ Len(f) \in Nat
  BY SectionStarts
<1>2. SectionEnd(f) = Min({Len(f) + 1} \cup T)
  BY DEF SectionEnd
<1>3. \A i \in T : i \in SectionStart(f) + 1 .. Len(f)
  OBVIOUS
<1>4. /\ SectionEnd(f) \in {Len(f) + 1} \cup T
      /\ SectionEnd(f) \in 1 .. Len(f) + 1
      /\ \A i \in T : SectionEnd(f) <= i
  <2>1. T \subseteq 1 .. Len(f)
    <3> HIDE DEF T
    <3> QED
      BY <1>1, <1>3
  <2> HIDE DEF T
  <2>2. PICK n : n = Len(f)
    OBVIOUS
  <2>3. n \in Nat /\ T \subseteq 1 .. n
    BY <1>1, <2>1, <2>2
  <2>4. /\ Min({n + 1} \cup T) \in {n + 1} \cup T
        /\ Min({n + 1} \cup T) \in 1 .. n + 1
        /\ \A y \in T : Min({n + 1} \cup T) <= y
    BY <2>3, FirstOf
  <2> QED
    BY <1>2, <2>2, <2>4
<1>5. SectionEnd(f) = Len(f) + 1 \/ SectionEnd(f) \in T
  BY <1>4
<1>6. /\ SectionStart(f) <= Len(f) => SectionStart(f) < SectionEnd(f)
      /\ SectionStart(f) = Len(f) + 1 => SectionEnd(f) = Len(f) + 1
  <2> HIDE DEF T
  <2> QED
    BY <1>1, <1>3, <1>4, <1>5
<1>7. SectionEnd(f) <= Len(f) =>
        f[SectionEnd(f)].kind \in {"heading", "odd heading"}
  <2>1. SectionEnd(f) <= Len(f) => SectionEnd(f) \in T
    <3> HIDE DEF T
    <3>1. ~ (Len(f) + 1 <= Len(f))
      BY <1>1
    <3> QED
      BY <1>5, <3>1
  <2> QED
    BY <2>1
<1>8. ASSUME NEW i \in SectionStart(f) + 1 .. SectionEnd(f) - 1
      PROVE  f[i].kind \notin {"heading", "odd heading"}
  <2>1. i \in SectionStart(f) + 1 .. Len(f) /\ ~ (SectionEnd(f) <= i)
    <3> HIDE DEF T
    <3> QED
      BY <1>1, <1>4
  <2>2. i \notin T
    BY <1>4, <2>1
  <2> QED
    BY <2>1, <2>2
<1> QED
  BY <1>4, <1>6, <1>7, <1>8

\* The heading a line stands under.
LEMMA HeadingAbove ==
  ASSUME NEW f, NEW i \in Nat
  PROVE  /\ HeadingOf(f, i) \in 0 .. i
         /\ HeadingOf(f, i) # 0 => f[HeadingOf(f, i)].kind = "heading"
         /\ \A j \in 1 .. i : f[j].kind = "heading" => j <= HeadingOf(f, i)
<1> DEFINE T == {j \in 1 .. i : f[j].kind = "heading"}
<1>1. HeadingOf(f, i) = Max({0} \cup T)
  BY DEF HeadingOf
<1>2. \A j \in T : j \in 1 .. i
  OBVIOUS
<1>3. /\ HeadingOf(f, i) \in {0} \cup T
      /\ \A j \in T : j <= HeadingOf(f, i)
  <2> HIDE DEF T
  <2>1. {0} \cup T \subseteq 0 .. i /\ {0} \cup T # {}
    BY <1>2
  <2> QED
    BY <1>1, <2>1, MaxOfRange
<1>4. HeadingOf(f, i) = 0 \/ HeadingOf(f, i) \in T
  BY <1>3
<1> QED
  BY <1>3, <1>4

LEMMA HeadingIs ==
  ASSUME NEW f, NEW i \in Nat, NEW h \in 0 .. i,
         h # 0 => f[h].kind = "heading",
         \A j \in h + 1 .. i : f[j].kind # "heading"
  PROVE  HeadingOf(f, i) = h
<1> DEFINE m == HeadingOf(f, i)
<1>1. /\ m \in 0 .. i
      /\ m # 0 => f[m].kind = "heading"
      /\ \A j \in 1 .. i : f[j].kind = "heading" => j <= m
  BY HeadingAbove
<1> HIDE DEF m
<1>2. h <= m
  BY <1>1
<1>3. m <= h
  BY <1>1
<1>4. m = h
  BY <1>1, <1>2, <1>3
<1> QED
  BY <1>4 DEF m

\* A file g that is f with the lines from a up to b replaced by a section.
Spliced(f, g, p, a, b) ==
  /\ f \in Seq(Lines) /\ g \in Seq(Lines)
  /\ a \in 1 .. Len(f) + 1 /\ b \in 1 .. Len(f) + 1
  /\ a <= Len(f) => a < b /\ f[a] = Heading("tool_access")
  /\ a = Len(f) + 1 => b = Len(f) + 1
  /\ \A i \in 1 .. a - 1 : f[i] # Heading("tool_access")
  /\ \A i \in a + 1 .. b - 1 : f[i].kind \notin {"heading", "odd heading"}
  /\ b <= Len(f) => f[b].kind \in {"heading", "odd heading"}
  /\ Len(g) = Len(f) + (a + 5 - b)
  /\ \A i \in 1 .. a - 1 : g[i] = f[i]
  /\ \A k \in 1 .. 5 : g[a - 1 + k] = Rendered(p)[k]
  /\ \A i \in b .. Len(f) : g[i + (a + 5 - b)] = f[i]

LEMMA TwoParts ==
  ASSUME NEW S, NEW s \in Seq(S), NEW t \in Seq(S)
  PROVE  /\ s \o t \in Seq(S) /\ Len(s \o t) = Len(s) + Len(t)
         /\ \A i \in 1 .. Len(s) : (s \o t)[i] = s[i]
         /\ \A i \in 1 .. Len(t) : (s \o t)[Len(s) + i] = t[i]
<1>1. Len(s) \in Nat /\ Len(t) \in Nat
  OBVIOUS
<1>2. /\ s \o t \in Seq(S)
      /\ Len(s \o t) = Len(s) + Len(t)
      /\ \A i \in 1 .. Len(s) + Len(t) :
           (s \o t)[i] = IF i <= Len(s) THEN s[i] ELSE t[i - Len(s)]
  BY ConcatProperties
<1>3. ASSUME NEW i \in 1 .. Len(s) PROVE (s \o t)[i] = s[i]
  <2>1. i \in 1 .. Len(s) + Len(t) /\ i <= Len(s)
    BY <1>1
  <2> QED
    BY <1>2, <2>1
<1>4. ASSUME NEW i \in 1 .. Len(t) PROVE (s \o t)[Len(s) + i] = t[i]
  <2>1. /\ Len(s) + i \in 1 .. Len(s) + Len(t)
        /\ ~ (Len(s) + i <= Len(s))
        /\ Len(s) + i - Len(s) = i
    BY <1>1
  <2> QED
    BY <1>2, <2>1
<1> QED
  BY <1>2, <1>3, <1>4

LEMMA ReplacedIsSpliced ==
  ASSUME NEW f \in Seq(Lines), NEW p \in Policies
  PROVE  Spliced(f, Replaced(f, p), p, SectionStart(f), SectionEnd(f))
<1>1. PICK a : a = SectionStart(f)
  OBVIOUS
<1>2. PICK b : b = SectionEnd(f)
  OBVIOUS
<1>3. PICK r : r = Rendered(p)
  OBVIOUS
<1>4. PICK n : n = Len(f)
  OBVIOUS
<1>5. r \in Seq(Lines) /\ Len(r) = 5 /\ n \in Nat
  BY <1>3, <1>4, RenderedLines
<1>6. /\ a \in 1 .. n + 1
      /\ a <= n => f[a] = Heading("tool_access")
      /\ \A i \in 1 .. n : f[i] = Heading("tool_access") => a <= i
  BY <1>1, <1>4, SectionStarts
<1>7. /\ b \in 1 .. n + 1
      /\ a <= n => a < b
      /\ a = n + 1 => b = n + 1
      /\ b <= n => f[b].kind \in {"heading", "odd heading"}
      /\ \A i \in a + 1 .. b - 1 : f[i].kind \notin {"heading", "odd heading"}
  BY <1>1, <1>2, <1>4, SectionEnds
<1>8. PICK x : x = SubSeq(f, 1, a - 1)
  OBVIOUS
<1>9. PICK y : y = SubSeq(f, b, n)
  OBVIOUS
<1>10. /\ a \in Int /\ b \in Int /\ n \in Int
       /\ 1 <= a /\ a <= b /\ b <= n + 1
  <2>1. /\ a \in 1 .. n + 1 /\ b \in 1 .. n + 1
        /\ a <= n => a < b
        /\ a = n + 1 => b = n + 1
    BY <1>6, <1>7
  <2> QED
    BY <1>5, <2>1
<1>11. /\ x \in Seq(Lines) /\ Len(x) = a - 1
       /\ \A i \in 1 .. a - 1 : x[i] = f[i]
  <2>1. \A i \in 1 .. a - 1 : f[i] \in Lines
    BY <1>4, <1>10
  <2>2. /\ x \in Seq(Lines)
        /\ Len(x) = IF 1 <= a - 1 THEN a - 1 - 1 + 1 ELSE 0
        /\ \A i \in 1 .. a - 1 - 1 + 1 : x[i] = f[1 + i - 1]
    <3>1. PICK m : m = a - 1
      OBVIOUS
    <3>2. m \in Int /\ \A i \in 1 .. m : f[i] \in Lines
      BY <1>10, <2>1, <3>1
    <3>3. /\ SubSeq(f, 1, m) \in Seq(Lines)
          /\ Len(SubSeq(f, 1, m)) = IF 1 <= m THEN m - 1 + 1 ELSE 0
          /\ \A i \in 1 .. m - 1 + 1 : SubSeq(f, 1, m)[i] = f[1 + i - 1]
      BY <3>2, SubSeqProperties
    <3> QED
      BY <1>8, <3>1, <3>3
  <2>3. a - 1 - 1 + 1 = a - 1 /\ (~ (1 <= a - 1) => a - 1 = 0)
    BY <1>10
  <2>4. \A i \in 1 .. a - 1 : 1 + i - 1 = i
    OBVIOUS
  <2> QED
    BY <2>2, <2>3, <2>4
<1>12. /\ y \in Seq(Lines) /\ Len(y) = n + 1 - b
       /\ \A i \in 1 .. n + 1 - b : y[i] = f[b + i - 1]
  <2>1. \A i \in b .. n : f[i] \in Lines
    BY <1>4, <1>10
  <2>2. /\ y \in Seq(Lines)
        /\ Len(y) = IF b <= n THEN n - b + 1 ELSE 0
        /\ \A i \in 1 .. n - b + 1 : y[i] = f[b + i - 1]
    BY <1>9, <1>10, <2>1, SubSeqProperties
  <2>3. n - b + 1 = n + 1 - b /\ (~ (b <= n) => n + 1 - b = 0)
    BY <1>10
  <2> QED
    BY <2>2, <2>3
<1>13. PICK z : z = x \o r
  OBVIOUS
<1>14. /\ z \in Seq(Lines) /\ Len(z) = a + 4
       /\ \A i \in 1 .. a - 1 : z[i] = f[i]
       /\ \A k \in 1 .. 5 : z[a - 1 + k] = r[k]
  <2>1. /\ z \in Seq(Lines) /\ Len(z) = Len(x) + Len(r)
        /\ \A i \in 1 .. Len(x) : z[i] = x[i]
        /\ \A k \in 1 .. Len(r) : z[Len(x) + k] = r[k]
    <3>1. x \in Seq(Lines) /\ r \in Seq(Lines)
      BY <1>5, <1>11
    <3>2. /\ x \o r \in Seq(Lines)
          /\ Len(x \o r) = Len(x) + Len(r)
          /\ \A i \in 1 .. Len(x) : (x \o r)[i] = x[i]
          /\ \A i \in 1 .. Len(r) : (x \o r)[Len(x) + i] = r[i]
      BY <3>1, TwoParts
    <3> QED
      BY <1>13, <3>2, Zenon
  <2>2. a - 1 + 5 = a + 4
    BY <1>10
  <2> QED
    BY <1>5, <1>11, <2>1, <2>2
<1>15. PICK g : g = z \o y
  OBVIOUS
<1>16. /\ g \in Seq(Lines) /\ Len(g) = a + 4 + (n + 1 - b)
       /\ \A i \in 1 .. a + 4 : g[i] = z[i]
       /\ \A i \in 1 .. n + 1 - b : g[a + 4 + i] = y[i]
  <2>1. /\ g \in Seq(Lines) /\ Len(g) = Len(z) + Len(y)
        /\ \A i \in 1 .. Len(z) : g[i] = z[i]
        /\ \A i \in 1 .. Len(y) : g[Len(z) + i] = y[i]
    <3>1. z \in Seq(Lines) /\ y \in Seq(Lines)
      BY <1>12, <1>14
    <3>2. /\ z \o y \in Seq(Lines)
          /\ Len(z \o y) = Len(z) + Len(y)
          /\ \A i \in 1 .. Len(z) : (z \o y)[i] = z[i]
          /\ \A i \in 1 .. Len(y) : (z \o y)[Len(z) + i] = y[i]
      BY <3>1, TwoParts
    <3> QED
      BY <1>15, <3>2, Zenon
  <2> QED
    BY <1>12, <1>14, <2>1
<1>17. /\ Len(g) = n + (a + 5 - b)
       /\ \A i \in 1 .. a - 1 : g[i] = f[i]
       /\ \A k \in 1 .. 5 : g[a - 1 + k] = r[k]
       /\ \A i \in b .. n : g[i + (a + 5 - b)] = f[i]
  <2>1. a + 4 + (n + 1 - b) = n + (a + 5 - b)
    BY <1>10
  <2>2. \A k \in 1 .. 5 : a - 1 + k \in 1 .. a + 4
    BY <1>10
  <2>3. \A i \in 1 .. a - 1 : i \in 1 .. a + 4
    BY <1>10
  <2>4. ASSUME NEW i \in b .. n PROVE g[i + (a + 5 - b)] = f[i]
    <3>1. PICK j : j = i + 1 - b
      OBVIOUS
    <3>2. j \in 1 .. n + 1 - b /\ a + 4 + j = i + (a + 5 - b) /\ b + j - 1 = i
      BY <1>10, <3>1
    <3>3. g[a + 4 + j] = y[j] /\ y[j] = f[b + j - 1]
      BY <1>12, <1>16, <3>2
    <3> QED
      BY <3>2, <3>3
  <2> QED
    BY <1>14, <1>16, <2>1, <2>2, <2>3, <2>4
<1>18. \A i \in 1 .. a - 1 : f[i] # Heading("tool_access")
  BY <1>6, <1>10
<1>19. g = Replaced(f, p)
  BY <1>1, <1>2, <1>3, <1>4, <1>8, <1>9, <1>13, <1>15 DEF Replaced
<1>20. Spliced(f, g, p, a, b)
  BY <1>3, <1>4, <1>6, <1>7, <1>16, <1>17, <1>18 DEF Spliced
<1> QED
  BY <1>1, <1>2, <1>19, <1>20

\* Lines before the section, lines of the section, and lines after it.
LEMMA Places ==
  ASSUME NEW f, NEW g, NEW p, NEW a, NEW b, Spliced(f, g, p, a, b)
  PROVE  /\ a \in Nat /\ b \in Nat /\ Len(f) \in Nat /\ Len(g) \in Nat
         /\ 1 <= a /\ a <= b /\ b <= Len(f) + 1
         /\ a <= Len(f) => a < b
         /\ Len(g) = Len(f) + (a + 5 - b)
         /\ \A i \in 1 .. Len(g) :
              \/ i \in 1 .. a - 1
              \/ \E k \in 1 .. 5 : i = a - 1 + k
              \/ \E j \in b .. Len(f) : i = j + (a + 5 - b)
         /\ \A i \in 1 .. Len(f) :
              i \in 1 .. a - 1 \/ i \in a .. b - 1 \/ i \in b .. Len(f)
<1>1. /\ Len(f) \in Nat /\ Len(g) \in Nat
      /\ a \in 1 .. Len(f) + 1 /\ b \in 1 .. Len(f) + 1
      /\ a <= Len(f) => a < b
      /\ a = Len(f) + 1 => b = Len(f) + 1
      /\ Len(g) = Len(f) + (a + 5 - b)
  <2>1. f \in Seq(Lines) /\ g \in Seq(Lines)
    BY DEF Spliced
  <2>2. Len(f) \in Nat /\ Len(g) \in Nat
    BY <2>1
  <2> QED
    BY <2>2 DEF Spliced
<1>2. PICK n : n = Len(f)
  OBVIOUS
<1>3. PICK m : m = Len(g)
  OBVIOUS
<1>4. /\ a \in Nat /\ b \in Nat /\ n \in Nat /\ m \in Nat
      /\ 1 <= a /\ a <= b /\ b <= n + 1 /\ m = n + (a + 5 - b)
  BY <1>1, <1>2, <1>3
<1>5. ASSUME NEW i \in 1 .. m
      PROVE  \/ i \in 1 .. a - 1
             \/ \E k \in 1 .. 5 : i = a - 1 + k
             \/ \E j \in b .. n : i = j + (a + 5 - b)
  <2>1. CASE i < a
    BY <1>4, <2>1
  <2>2. CASE a <= i /\ i < a + 5
    <3>1. i + 1 - a \in 1 .. 5 /\ i = a - 1 + (i + 1 - a)
      BY <1>4, <2>2
    <3> QED
      BY <3>1
  <2>3. CASE a + 5 <= i
    <3>1. i - (a + 5 - b) \in b .. n /\ i = i - (a + 5 - b) + (a + 5 - b)
      BY <1>4, <2>3
    <3> QED
      BY <3>1
  <2> QED
    BY <1>4, <2>1, <2>2, <2>3
<1>6. \A i \in 1 .. n :
        i \in 1 .. a - 1 \/ i \in a .. b - 1 \/ i \in b .. n
  BY <1>4
<1> QED
  BY <1>1, <1>2, <1>3, <1>4, <1>5, <1>6

LEMMA LinesOfSection ==
  ASSUME NEW f, NEW g, NEW p, NEW a, NEW b, Spliced(f, g, p, a, b)
  PROVE  /\ g[a] = Heading("tool_access")
         /\ \A k \in 2 .. 5 : g[a - 1 + k] = Rendered(p)[k]
         /\ \A k \in 2 .. 5 : Rendered(p)[k].kind = "entry"
<1>1. a \in Nat
  BY Places
<1>2. \A k \in 1 .. 5 : g[a - 1 + k] = Rendered(p)[k]
  BY DEF Spliced
<1>3. g[a] = Rendered(p)[1]
  <2>1. 1 \in 1 .. 5 /\ a - 1 + 1 = a
    BY <1>1
  <2> QED
    BY <1>2, <2>1
<1>4. Rendered(p)[1] = Heading("tool_access")
  BY DEF Rendered
<1>5. \A k \in 2 .. 5 : Rendered(p)[k].kind = "entry"
  <2> SUFFICES ASSUME NEW k \in 2 .. 5 PROVE Rendered(p)[k].kind = "entry"
    OBVIOUS
  <2>1. \E x, v : Rendered(p)[k] = Entry(x, v)
    <3>1. k = 2 \/ k = 3 \/ k = 4 \/ k = 5
      OBVIOUS
    <3> QED
      BY <3>1 DEF Rendered
  <2> QED
    BY <2>1 DEF Entry
<1> QED
  BY <1>2, <1>3, <1>4, <1>5

\* Every line keeps its heading, but those that are replaced.
LEMMA HeadingsMove ==
  ASSUME NEW f, NEW g, NEW p, NEW a, NEW b, Spliced(f, g, p, a, b),
         b <= Len(f) => f[b].kind = "heading"
  PROVE  /\ \A i \in 1 .. a - 1 : HeadingOf(g, i) = HeadingOf(f, i)
         /\ \A i \in a .. a + 4 : HeadingOf(g, i) = a
         /\ \A i \in b .. Len(f) :
              /\ HeadingOf(f, i) \in b .. i
              /\ HeadingOf(g, i + (a + 5 - b)) = HeadingOf(f, i) + (a + 5 - b)
         /\ \A i \in a .. b - 1 : i <= Len(f) => HeadingOf(f, i) = a
<1>1. /\ a \in Nat /\ b \in Nat /\ Len(f) \in Nat
      /\ 1 <= a /\ a <= b /\ b <= Len(f) + 1
      /\ a <= Len(f) => a < b
  BY Places
<1>2. /\ \A i \in 1 .. a - 1 : g[i] = f[i]
      /\ \A i \in b .. Len(f) : g[i + (a + 5 - b)] = f[i]
      /\ a <= Len(f) => f[a] = Heading("tool_access")
      /\ \A i \in a + 1 .. b - 1 : f[i].kind \notin {"heading", "odd heading"}
  BY DEF Spliced
<1>3. ASSUME NEW i \in 1 .. a - 1
      PROVE  HeadingOf(g, i) = HeadingOf(f, i)
  <2>1. PICK h : h = HeadingOf(f, i)
    OBVIOUS
  <2>2. i \in Nat
    BY <1>1
  <2>3. /\ h \in 0 .. i
        /\ h # 0 => f[h].kind = "heading"
        /\ \A j \in 1 .. i : f[j].kind = "heading" => j <= h
    BY <2>1, <2>2, HeadingAbove
  <2>4. h # 0 => g[h].kind = "heading"
    <3>1. h # 0 => h \in 1 .. a - 1
      BY <1>1, <2>3
    <3> QED
      BY <1>2, <2>3, <3>1
  <2>5. ASSUME NEW j \in h + 1 .. i PROVE g[j].kind # "heading"
    <3>1. j \in 1 .. i /\ j \in 1 .. a - 1 /\ ~ (j <= h)
      BY <1>1, <2>3
    <3> QED
      BY <1>2, <2>3, <3>1
  <2>6. HeadingOf(g, i) = h
    BY <2>2, <2>3, <2>4, <2>5, HeadingIs
  <2> QED
    BY <2>1, <2>6
<1>4. ASSUME NEW i \in a .. a + 4
      PROVE  HeadingOf(g, i) = a
  <2>1. i \in Nat /\ a \in 0 .. i
    BY <1>1
  <2>2. g[a].kind = "heading"
    BY LinesOfSection DEF Heading
  <2>3. ASSUME NEW j \in a + 1 .. i PROVE g[j].kind # "heading"
    <3>1. PICK k : k = j + 1 - a
      OBVIOUS
    <3>2. k \in 2 .. 5 /\ j = a - 1 + k
      BY <1>1, <3>1
    <3>3. g[j].kind = "entry"
      BY <3>2, LinesOfSection
    <3> QED
      BY <3>3
  <2> QED
    BY <2>1, <2>2, <2>3, HeadingIs
<1>5. ASSUME NEW i \in b .. Len(f)
      PROVE  /\ HeadingOf(f, i) \in b .. i
             /\ HeadingOf(g, i + (a + 5 - b)) = HeadingOf(f, i) + (a + 5 - b)
  <2>1. PICK h : h = HeadingOf(f, i)
    OBVIOUS
  <2>2. PICK d : d = a + 5 - b
    OBVIOUS
  <2>3. i \in Nat /\ b <= Len(f) /\ b \in 1 .. i
    BY <1>1
  <2>4. /\ h \in 0 .. i
        /\ h # 0 => f[h].kind = "heading"
        /\ \A j \in 1 .. i : f[j].kind = "heading" => j <= h
    BY <2>1, <2>3, HeadingAbove
  <2>5. b <= h
    BY <2>3, <2>4
  <2>6. /\ h \in b .. i /\ h # 0 /\ h \in b .. Len(f)
        /\ d \in Int /\ i + d \in Nat /\ h + d \in 0 .. i + d
    BY <1>1, <2>2, <2>4, <2>5
  <2>7. g[h + d].kind = "heading"
    BY <1>2, <2>2, <2>4, <2>6
  <2>8. ASSUME NEW j \in h + d + 1 .. i + d PROVE g[j].kind # "heading"
    <3>1. PICK k : k = j - d
      OBVIOUS
    <3>2. /\ k \in 1 .. i /\ k \in b .. Len(f) /\ j = k + d
          /\ ~ (k <= h)
      BY <1>1, <2>6, <3>1
    <3>3. f[k].kind # "heading"
      BY <2>4, <3>2
    <3> QED
      BY <1>2, <2>2, <3>2, <3>3
  <2>9. HeadingOf(g, i + d) = h + d
    <3>1. PICK x : x = i + d
      OBVIOUS
    <3>2. PICK y : y = h + d
      OBVIOUS
    <3>3. /\ x \in Nat /\ y \in 0 .. x
          /\ y # 0 => g[y].kind = "heading"
          /\ \A j \in y + 1 .. x : g[j].kind # "heading"
      BY <2>6, <2>7, <2>8, <3>1, <3>2
    <3>4. HeadingOf(g, x) = y
      BY <3>3, HeadingIs
    <3> QED
      BY <3>1, <3>2, <3>4
  <2> QED
    BY <2>1, <2>2, <2>6, <2>9
<1>6. ASSUME NEW i \in a .. b - 1, i <= Len(f)
      PROVE  HeadingOf(f, i) = a
  <2>1. i \in Nat /\ a \in 0 .. i /\ a <= Len(f)
    BY <1>1, <1>6
  <2>2. f[a].kind = "heading"
    <3>1. f[a] = Heading("tool_access")
      BY <1>2, <2>1
    <3> QED
      BY <3>1 DEF Heading
  <2>3. ASSUME NEW j \in a + 1 .. i PROVE f[j].kind # "heading"
    <3>1. j \in a + 1 .. b - 1
      BY <1>1
    <3> QED
      BY <1>2, <3>1
  <2> QED
    BY <2>1, <2>2, <2>3, HeadingIs
<1> QED
  BY <1>3, <1>4, <1>5, <1>6

\* A file that parses does so with another section.
LEMMA ParsesOn ==
  ASSUME NEW f, NEW g, NEW p, NEW a, NEW b, Spliced(f, g, p, a, b),
         Parses(f)
  PROVE  /\ b <= Len(f) => f[b].kind = "heading"
         /\ Parses(g)
<1>1. /\ a \in Nat /\ b \in Nat /\ Len(f) \in Nat
      /\ 1 <= a /\ a <= b /\ b <= Len(f) + 1
  BY Places
<1>2. /\ \A i \in 1 .. a - 1 : g[i] = f[i]
      /\ \A i \in b .. Len(f) : g[i + (a + 5 - b)] = f[i]
      /\ b <= Len(f) => f[b].kind \in {"heading", "odd heading"}
  BY DEF Spliced
<1>3. \A i \in 1 .. Len(f) :
        /\ f[i].kind \in {"heading", "entry"}
        /\ f[i].kind = "entry" => HeadingOf(f, i) # 0
  BY DEF Parses
<1>4. b <= Len(f) => f[b].kind = "heading"
  <2>1. b <= Len(f) => b \in 1 .. Len(f)
    BY <1>1
  <2> QED
    BY <1>2, <1>3, <2>1
<1>5. /\ \A i \in 1 .. a - 1 : HeadingOf(g, i) = HeadingOf(f, i)
      /\ \A i \in a .. a + 4 : HeadingOf(g, i) = a
      /\ \A i \in b .. Len(f) :
           /\ HeadingOf(f, i) \in b .. i
           /\ HeadingOf(g, i + (a + 5 - b)) = HeadingOf(f, i) + (a + 5 - b)
  BY <1>4, HeadingsMove
<1>6. ASSUME NEW i \in 1 .. Len(g)
      PROVE  /\ g[i].kind \in {"heading", "entry"}
             /\ g[i].kind = "entry" => HeadingOf(g, i) # 0
  <2>1. CASE i \in 1 .. a - 1
    <3>1. i \in 1 .. Len(f)
      BY <1>1, <2>1
    <3>2. g[i] = f[i] /\ HeadingOf(g, i) = HeadingOf(f, i)
      BY <1>2, <1>5, <2>1
    <3> QED
      BY <1>3, <3>1, <3>2
  <2>2. ASSUME NEW k \in 1 .. 5, i = a - 1 + k
        PROVE  g[i].kind \in {"heading", "entry"} /\ HeadingOf(g, i) # 0
    <3>1. i \in a .. a + 4
      BY <1>1, <2>2
    <3>2. HeadingOf(g, i) = a
      BY <1>5, <3>1
    <3>3. k = 1 \/ k \in 2 .. 5
      OBVIOUS
    <3>4. CASE k = 1
      <4>1. i = a
        BY <1>1, <2>2, <3>4
      <4>2. g[i] = Heading("tool_access")
        BY <4>1, LinesOfSection
      <4> QED
        BY <1>1, <3>2, <4>2 DEF Heading
    <3>5. CASE k \in 2 .. 5
      <4>1. g[i] = Rendered(p)[k] /\ Rendered(p)[k].kind = "entry"
        BY <2>2, <3>5, LinesOfSection
      <4> QED
        BY <1>1, <3>2, <4>1
    <3> QED
      BY <3>3, <3>4, <3>5
  <2>3. ASSUME NEW j \in b .. Len(f), i = j + (a + 5 - b)
        PROVE  g[i].kind \in {"heading", "entry"} /\ HeadingOf(g, i) # 0
    <3>1. j \in 1 .. Len(f)
      BY <1>1
    <3>2. /\ g[i] = f[j]
          /\ HeadingOf(f, j) \in b .. j
          /\ HeadingOf(g, i) = HeadingOf(f, j) + (a + 5 - b)
      <4>1. g[j + (a + 5 - b)] = f[j]
        BY <1>2
      <4>2. /\ HeadingOf(f, j) \in b .. j
            /\ HeadingOf(g, j + (a + 5 - b)) = HeadingOf(f, j) + (a + 5 - b)
        BY <1>5
      <4> QED
        BY <2>3, <4>1, <4>2
    <3>3. HeadingOf(g, i) # 0
      BY <1>1, <3>2
    <3> QED
      BY <1>3, <3>1, <3>2, <3>3
  <2> QED
    <3>1. \/ i \in 1 .. a - 1
          \/ \E k \in 1 .. 5 : i = a - 1 + k
          \/ \E j \in b .. Len(f) : i = j + (a + 5 - b)
      BY Places
    <3> QED
      BY <2>1, <2>2, <2>3, <3>1
<1> QED
  BY <1>4, <1>6 DEF Parses

\* The lines of the section give its settings.
LEMMA SectionEntries ==
  ASSUME NEW f, NEW g, NEW p, NEW a, NEW b, Spliced(f, g, p, a, b),
         b <= Len(f) => f[b].kind = "heading", NEW s
  PROVE  /\ a \notin Entries(g, s)
         /\ \A k \in 2 .. 5 :
              a - 1 + k \in Entries(g, s) <=>
                /\ Rendered(p)[k].key = s.key
                /\ s.section = "tool_access"
<1>1. /\ a \in Nat /\ b \in Nat /\ Len(f) \in Nat /\ Len(g) \in Nat
      /\ 1 <= a /\ a <= b /\ b <= Len(f) + 1
      /\ Len(g) = Len(f) + (a + 5 - b)
  BY Places
<1>2. /\ g[a] = Heading("tool_access")
      /\ \A k \in 2 .. 5 : g[a - 1 + k] = Rendered(p)[k]
      /\ \A k \in 2 .. 5 : Rendered(p)[k].kind = "entry"
  BY LinesOfSection
<1>3. g[a].kind = "heading" /\ g[a].name = "tool_access"
  BY <1>2 DEF Heading
<1>4. a \notin Entries(g, s)
  BY <1>3 DEF Entries
<1>5. ASSUME NEW k \in 2 .. 5
      PROVE  a - 1 + k \in Entries(g, s) <=>
               /\ Rendered(p)[k].key = s.key
               /\ s.section = "tool_access"
  <2>1. PICK i : i = a - 1 + k
    OBVIOUS
  <2>2. i \in 1 .. Len(g) /\ i \in a .. a + 4
    BY <1>1, <2>1
  <2>3. HeadingOf(g, i) = a
    BY <2>2, HeadingsMove
  <2>4. g[i] = Rendered(p)[k] /\ g[i].kind = "entry"
    BY <1>2, <2>1
  <2>5. i \in Entries(g, s) <=>
          /\ i \in 1 .. Len(g) /\ g[i].kind = "entry" /\ g[i].key = s.key
          /\ g[HeadingOf(g, i)].name = s.section
    BY DEF Entries
  <2>6. i \in Entries(g, s) <=>
          /\ Rendered(p)[k].key = s.key
          /\ s.section = "tool_access"
    BY <1>3, <2>2, <2>3, <2>4, <2>5
  <2> QED
    BY <2>1, <2>6
<1> QED
  BY <1>4, <1>5

\* The other lines that give a setting are where they were, or as far behind
\* the section.
LEMMA EntriesMove ==
  ASSUME NEW f, NEW g, NEW p, NEW a, NEW b, Spliced(f, g, p, a, b),
         Parses(f), NEW s
  PROVE  /\ \A i \in 1 .. a - 1 : i \in Entries(g, s) <=> i \in Entries(f, s)
         /\ \A i \in b .. Len(f) :
              i + (a + 5 - b) \in Entries(g, s) <=> i \in Entries(f, s)
         /\ \A i \in a .. b - 1 :
              i \in Entries(f, s) => s.section = "tool_access"
<1>1. /\ a \in Nat /\ b \in Nat /\ Len(f) \in Nat /\ Len(g) \in Nat
      /\ 1 <= a /\ a <= b /\ b <= Len(f) + 1
      /\ a <= Len(f) => a < b
      /\ Len(g) = Len(f) + (a + 5 - b)
  BY Places
<1>2. /\ \A i \in 1 .. a - 1 : g[i] = f[i]
      /\ \A i \in b .. Len(f) : g[i + (a + 5 - b)] = f[i]
      /\ a <= Len(f) => f[a] = Heading("tool_access")
  BY DEF Spliced
<1>3. b <= Len(f) => f[b].kind = "heading"
  BY ParsesOn
<1>4. \A i \in 1 .. Len(f) : f[i].kind = "entry" => HeadingOf(f, i) # 0
  BY DEF Parses
<1>5. \A h, i :
        i \in Entries(h, s) <=>
          /\ i \in 1 .. Len(h) /\ h[i].kind = "entry" /\ h[i].key = s.key
          /\ h[HeadingOf(h, i)].name = s.section
  BY DEF Entries
<1>6. ASSUME NEW i \in 1 .. a - 1
      PROVE  i \in Entries(g, s) <=> i \in Entries(f, s)
  <2>1. i \in 1 .. Len(f) /\ i \in 1 .. Len(g) /\ i \in Nat
    BY <1>1
  <2>2. g[i] = f[i] /\ HeadingOf(g, i) = HeadingOf(f, i)
    BY <1>2, <1>3, HeadingsMove
  <2>3. HeadingOf(f, i) # 0 => g[HeadingOf(f, i)] = f[HeadingOf(f, i)]
    <3>1. HeadingOf(f, i) \in 0 .. i
      BY <2>1, HeadingAbove
    <3>2. HeadingOf(f, i) # 0 => HeadingOf(f, i) \in 1 .. a - 1
      BY <1>1, <3>1
    <3> QED
      BY <1>2, <3>2
  <2> QED
    BY <1>4, <1>5, <2>1, <2>2, <2>3
<1>7. ASSUME NEW i \in b .. Len(f)
      PROVE  i + (a + 5 - b) \in Entries(g, s) <=> i \in Entries(f, s)
  <2>1. PICK d : d = a + 5 - b
    OBVIOUS
  <2>2. PICK h : h = HeadingOf(f, i)
    OBVIOUS
  <2>3. i \in 1 .. Len(f) /\ i + d \in 1 .. Len(g)
    BY <1>1, <2>1
  <2>4. h \in b .. i /\ HeadingOf(g, i + d) = h + d
    BY <1>3, <2>1, <2>2, HeadingsMove
  <2>5. h \in b .. Len(f)
    BY <1>1, <2>3, <2>4
  <2>6. g[i + d] = f[i] /\ g[h + d] = f[h]
    BY <1>2, <2>1, <2>5
  <2>7. i + d \in Entries(g, s) <=> i \in Entries(f, s)
    BY <1>5, <2>2, <2>3, <2>4, <2>6
  <2> QED
    BY <2>1, <2>7
<1>8. ASSUME NEW i \in a .. b - 1, i \in Entries(f, s)
      PROVE  s.section = "tool_access"
  <2>1. i \in 1 .. Len(f) /\ f[HeadingOf(f, i)].name = s.section
    BY <1>5, <1>8
  <2>2. i <= Len(f) /\ a <= Len(f)
    BY <1>1, <2>1
  <2>3. HeadingOf(f, i) = a
    BY <1>3, <2>2, HeadingsMove
  <2>4. f[a] = Heading("tool_access")
    BY <1>2, <2>2
  <2>5. f[a].name = "tool_access"
    BY <2>4 DEF Heading
  <2> QED
    BY <2>1, <2>3, <2>5
<1> QED
  BY <1>6, <1>7, <1>8

LEMMA EntriesInFile ==
  ASSUME NEW f \in Seq(Lines), NEW s
  PROVE  /\ Entries(f, s) \subseteq 1 .. Len(f)
         /\ Len(f) \in Nat
         /\ Entries(f, s) # {} =>
              /\ Max(Entries(f, s)) \in Entries(f, s)
              /\ \A i \in Entries(f, s) : i <= Max(Entries(f, s))
<1>1. Entries(f, s) \subseteq 1 .. Len(f) /\ Len(f) \in Nat
  BY DEF Entries
<1>2. Entries(f, s) \subseteq 0 .. Len(f)
  <2>1. \A i \in 1 .. Len(f) : i \in 0 .. Len(f)
    BY <1>1
  <2> QED
    BY <1>1, <2>1
<1> QED
  BY <1>1, <1>2, MaxOfRange

\* What the file says of a setting, once the line that counts is known.
LEMMA ReadAt ==
  ASSUME NEW f \in Seq(Lines), NEW s, NEW m \in Entries(f, s),
         \A i \in Entries(f, s) : i <= m
  PROVE  FromFile(f, s) = f[m].value
<1>1. Entries(f, s) \subseteq Int
  <2>1. \A i \in 1 .. Len(f) : i \in Int
    OBVIOUS
  <2> QED
    BY <2>1, EntriesInFile
<1>2. Max(Entries(f, s)) = m
  BY <1>1, MaxIs
<1> QED
  BY <1>2 DEF FromFile

\* A setting of another section is left alone.
LEMMA OthersStay ==
  ASSUME NEW f, NEW g, NEW p, NEW a, NEW b, Spliced(f, g, p, a, b),
         Parses(f), NEW s, s.section # "tool_access"
  PROVE  FromFile(g, s) = FromFile(f, s)
<1>1. /\ a \in Nat /\ b \in Nat /\ Len(f) \in Nat /\ Len(g) \in Nat
      /\ 1 <= a /\ a <= b /\ b <= Len(f) + 1
  BY Places
<1>2. f \in Seq(Lines) /\ g \in Seq(Lines)
  BY DEF Spliced
<1>3. /\ \A i \in 1 .. a - 1 : g[i] = f[i]
      /\ \A i \in b .. Len(f) : g[i + (a + 5 - b)] = f[i]
  BY DEF Spliced
<1>4. /\ \A i \in 1 .. a - 1 : i \in Entries(g, s) <=> i \in Entries(f, s)
      /\ \A i \in b .. Len(f) :
           i + (a + 5 - b) \in Entries(g, s) <=> i \in Entries(f, s)
      /\ \A i \in a .. b - 1 : i \notin Entries(f, s)
  BY EntriesMove
<1>5. ASSUME NEW i \in Entries(g, s)
      PROVE  \/ i \in 1 .. a - 1 /\ i \in Entries(f, s)
             \/ \E j \in b .. Len(f) :
                  i = j + (a + 5 - b) /\ j \in Entries(f, s)
  <2>1. i \in 1 .. Len(g)
    BY <1>2, EntriesInFile
  <2>2. \/ i \in 1 .. a - 1
        \/ \E k \in 1 .. 5 : i = a - 1 + k
        \/ \E j \in b .. Len(f) : i = j + (a + 5 - b)
    BY <2>1, Places
  <2>3. ASSUME NEW k \in 1 .. 5, i = a - 1 + k PROVE FALSE
    <3>1. b <= Len(f) => f[b].kind = "heading"
      BY ParsesOn
    <3>2. /\ a \notin Entries(g, s)
          /\ \A x \in 2 .. 5 : a - 1 + x \notin Entries(g, s)
      BY <3>1, SectionEntries
    <3>3. i = a \/ k \in 2 .. 5
      BY <1>1, <2>3
    <3> QED
      BY <2>3, <3>2, <3>3
  <2> QED
    BY <1>4, <2>2, <2>3
<1>6. CASE Entries(f, s) = {}
  <2>1. Entries(g, s) = {}
    BY <1>5, <1>6
  <2> QED
    BY <1>6, <2>1 DEF FromFile
<1>7. CASE Entries(f, s) # {}
  <2>1. PICK m : m = Max(Entries(f, s))
    OBVIOUS
  <2>2. m \in Entries(f, s) /\ \A i \in Entries(f, s) : i <= m
    BY <1>2, <1>7, <2>1, EntriesInFile
  <2>3. FromFile(f, s) = f[m].value
    BY <1>2, <2>2, ReadAt
  <2>4. m \in 1 .. a - 1 \/ m \in b .. Len(f)
    <3>1. m \in 1 .. Len(f)
      BY <1>2, <2>2, EntriesInFile
    <3>2. m \in 1 .. a - 1 \/ m \in a .. b - 1 \/ m \in b .. Len(f)
      BY <3>1, Places
    <3> QED
      BY <1>4, <2>2, <3>2
  <2>5. CASE m \in 1 .. a - 1
    <3>1. m \in Entries(g, s)
      BY <1>4, <2>2, <2>5
    <3>2. ASSUME NEW i \in Entries(g, s) PROVE i <= m
      <4>1. CASE i \in Entries(f, s)
        BY <2>2, <4>1
      <4>2. ASSUME NEW j \in b .. Len(f), j \in Entries(f, s) PROVE FALSE
        <5>1. j <= m
          BY <2>2, <4>2
        <5> QED
          BY <1>1, <2>5, <5>1
      <4> QED
        BY <1>5, <4>1, <4>2
    <3>3. FromFile(g, s) = g[m].value
      BY <1>2, <3>1, <3>2, ReadAt
    <3> QED
      BY <1>3, <2>3, <2>5, <3>3
  <2>6. CASE m \in b .. Len(f)
    <3>1. PICK d : d = a + 5 - b
      OBVIOUS
    <3>2. m + d \in Entries(g, s)
      BY <1>4, <2>2, <2>6, <3>1
    <3>3. ASSUME NEW i \in Entries(g, s) PROVE i <= m + d
      <4>1. CASE i \in 1 .. a - 1
        BY <1>1, <2>6, <3>1, <4>1
      <4>2. ASSUME NEW j \in b .. Len(f), i = j + d, j \in Entries(f, s)
            PROVE  i <= m + d
        <5>1. j <= m
          BY <2>2, <4>2
        <5> QED
          BY <1>1, <2>6, <3>1, <4>2, <5>1
      <4> QED
        BY <1>5, <3>1, <4>1, <4>2
    <3>4. FromFile(g, s) = g[m + d].value
      <4>1. PICK x : x = m + d
        OBVIOUS
      <4>2. x \in Entries(g, s) /\ \A i \in Entries(g, s) : i <= x
        BY <3>2, <3>3, <4>1
      <4>3. FromFile(g, s) = g[x].value
        BY <1>2, <4>2, ReadAt
      <4> QED
        BY <4>1, <4>3
    <3>5. g[m + d] = f[m]
      BY <1>3, <2>6, <3>1
    <3> QED
      BY <2>3, <3>4, <3>5
  <2> QED
    BY <2>4, <2>5, <2>6
<1> QED
  BY <1>6, <1>7

\* A setting of the policy is the saved one, or what it was: the section may be
\* repeated further down.
LEMMA PolicyOrAsBefore ==
  ASSUME NEW f, NEW g, NEW p, NEW a, NEW b, Spliced(f, g, p, a, b),
         Parses(f), NEW s, s.section = "tool_access",
         NEW n \in 2 .. 5, Rendered(p)[n].key = s.key
  PROVE  \/ FromFile(g, s) = FromFile(f, s)
         \/ \E k \in 2 .. 5 : /\ Rendered(p)[k].key = s.key
                              /\ FromFile(g, s) = Rendered(p)[k].value
<1>1. /\ a \in Nat /\ b \in Nat /\ Len(f) \in Nat /\ Len(g) \in Nat
      /\ 1 <= a /\ a <= b /\ b <= Len(f) + 1
  BY Places
<1>2. f \in Seq(Lines) /\ g \in Seq(Lines)
  BY DEF Spliced
<1>3. /\ \A i \in b .. Len(f) : g[i + (a + 5 - b)] = f[i]
      /\ \A k \in 2 .. 5 : g[a - 1 + k] = Rendered(p)[k]
  <2>1. \A i \in b .. Len(f) : g[i + (a + 5 - b)] = f[i]
    BY DEF Spliced
  <2>2. \A k \in 2 .. 5 : g[a - 1 + k] = Rendered(p)[k]
    BY LinesOfSection
  <2> QED
    BY <2>1, <2>2
<1>4. \A i \in b .. Len(f) :
        i + (a + 5 - b) \in Entries(g, s) <=> i \in Entries(f, s)
  BY EntriesMove
<1>5. /\ a \notin Entries(g, s)
      /\ \A k \in 2 .. 5 :
           a - 1 + k \in Entries(g, s) <=> Rendered(p)[k].key = s.key
  <2>1. b <= Len(f) => f[b].kind = "heading"
    BY ParsesOn
  <2> QED
    BY <2>1, SectionEntries
<1>6. a - 1 + n \in Entries(g, s)
  BY <1>5
<1>7. PICK m : m = Max(Entries(g, s))
  OBVIOUS
<1>8. /\ m \in Entries(g, s) /\ m \in 1 .. Len(g)
      /\ \A i \in Entries(g, s) : i <= m
  BY <1>2, <1>6, <1>7, EntriesInFile
<1>9. FromFile(g, s) = g[m].value
  BY <1>2, <1>8, ReadAt
<1>10. \/ m \in 1 .. a - 1
       \/ \E k \in 1 .. 5 : m = a - 1 + k
       \/ \E j \in b .. Len(f) : m = j + (a + 5 - b)
  <2>1. \A i \in 1 .. Len(g) :
          \/ i \in 1 .. a - 1
          \/ \E k \in 1 .. 5 : i = a - 1 + k
          \/ \E j \in b .. Len(f) : i = j + (a + 5 - b)
    BY Places
  <2> QED
    BY <1>8, <2>1
<1>11. m \notin 1 .. a - 1
  <2>1. a - 1 + n <= m
    BY <1>6, <1>8
  <2> QED
    BY <1>1, <2>1
<1>12. ASSUME NEW k \in 1 .. 5, m = a - 1 + k
       PROVE  \E x \in 2 .. 5 : /\ Rendered(p)[x].key = s.key
                                /\ FromFile(g, s) = Rendered(p)[x].value
  <2>1. k \in 2 .. 5
    <3>1. k = 1 => m = a
      BY <1>1, <1>12
    <3> QED
      BY <1>5, <1>8, <3>1
  <2>2. Rendered(p)[k].key = s.key /\ g[m] = Rendered(p)[k]
    BY <1>3, <1>5, <1>8, <1>12, <2>1
  <2> QED
    BY <1>9, <2>1, <2>2
<1>13. ASSUME NEW j \in b .. Len(f), m = j + (a + 5 - b)
       PROVE  FromFile(g, s) = FromFile(f, s)
  <2>1. j \in Entries(f, s)
    BY <1>4, <1>8, <1>13
  <2>2. ASSUME NEW i \in Entries(f, s) PROVE i <= j
    <3>1. i \in 1 .. Len(f)
      BY <1>2, EntriesInFile
    <3>2. CASE i < b
      BY <1>1, <3>1, <3>2
    <3>3. CASE b <= i
      <4>1. i \in b .. Len(f)
        BY <1>1, <3>1, <3>3
      <4>2. i + (a + 5 - b) <= m
        BY <1>4, <1>8, <4>1
      <4> QED
        BY <1>1, <1>13, <4>1, <4>2
    <3> QED
      BY <1>1, <3>1, <3>2, <3>3
  <2>3. FromFile(f, s) = f[j].value
    BY <1>2, <2>1, <2>2, ReadAt
  <2> QED
    BY <1>3, <1>9, <1>13, <2>3
<1> QED
  BY <1>10, <1>11, <1>12, <1>13

(* The settings of the policy and the others *)

LEMMA OtherSections ==
  \A s \in OtherSettings : s.section # "tool_access"
<1>1. \A key, new, old, kind, default :
        /\ InFile("addin_channel", key, new, old, kind, default).section
             # "tool_access"
        /\ InFile("mcp_http", key, new, old, kind, default).section
             # "tool_access"
        /\ InFile("limits", key, new, old, kind, default).section
             # "tool_access"
        /\ InFile("audit", key, new, old, kind, default).section
             # "tool_access"
        /\ InFile("logging", key, new, old, kind, default).section
             # "tool_access"
  BY DEF InFile, Setting
<1>2. \A s \in AddinSettings : s.section # "tool_access"
  <2>1. /\ Origin.section # "tool_access" /\ AddinBind.section # "tool_access"
        /\ AddinPort.section # "tool_access" /\ Grace.section # "tool_access"
    BY DEF InFile, Setting, Origin, AddinBind, AddinPort, Grace
  <2>2. \A key, new, old, kind, default :
          InFile("addin_channel", key, new, old, kind, default).section
            # "tool_access"
    BY <1>1
  <2> QED
    BY <2>1, <2>2, Zenon DEF AddinSettings
<1>3. \A s \in McpSettings : s.section # "tool_access"
  BY <1>1 DEF McpSettings, McpBind, McpPort
<1>4. \A s \in LimitsSettings : s.section # "tool_access"
  BY <1>1 DEF LimitsSettings
<1>5. \A s \in AuditSettings : s.section # "tool_access"
  BY <1>1 DEF AuditSettings
<1>6. \A s \in LoggingSettings : s.section # "tool_access"
  BY <1>1 DEF LoggingSettings
<1> QED
  BY <1>2, <1>3, <1>4, <1>5, <1>6 DEF OtherSettings

\* The place of each setting of the policy in what is written, and its text.
LEMMA PolicySettings ==
  ASSUME NEW p
  PROVE  /\ \A s \in ToolAccessSettings : s.section = "tool_access"
         /\ AccessMode.key = "access_mode" /\ AccessMode.kind = "mode"
         /\ DisabledApps.key = "disabled_apps" /\ DisabledApps.kind = "names"
         /\ DisabledCategories.key = "disabled_categories"
         /\ DisabledCategories.kind = "pairs"
         /\ DisabledTools.key = "disabled_tools"
         /\ DisabledTools.kind = "names"
BY DEF ToolAccessSettings, AccessMode, DisabledApps, DisabledCategories,
       DisabledTools, ToolAccess, Setting

LEMMA RenderedValues ==
  ASSUME NEW p
  PROVE  /\ Rendered(p)[2].key = "access_mode"
         /\ Rendered(p)[3].key = "disabled_apps"
         /\ Rendered(p)[4].key = "disabled_categories"
         /\ Rendered(p)[5].key = "disabled_tools"
         /\ Rendered(p)[2].value = Text(p.mode)
         /\ Rendered(p)[3].value = Names(p.apps)
         /\ Rendered(p)[4].value = Pairs(p.categories)
         /\ Rendered(p)[5].value = Names(p.tools)
<1>1. \A k, v : Entry(k, v).key = k /\ Entry(k, v).value = v
  BY DEF Entry
<1>2. /\ Rendered(p)[2].key = "access_mode"
      /\ Rendered(p)[2].value = Text(p.mode)
  BY <1>1 DEF Rendered
<1>3. /\ Rendered(p)[3].key = "disabled_apps"
      /\ Rendered(p)[3].value = Names(p.apps)
  BY <1>1 DEF Rendered
<1>4. /\ Rendered(p)[4].key = "disabled_categories"
      /\ Rendered(p)[4].value = Pairs(p.categories)
  BY <1>1 DEF Rendered
<1>5. /\ Rendered(p)[5].key = "disabled_tools"
      /\ Rendered(p)[5].value = Names(p.tools)
  BY <1>1 DEF Rendered
<1> QED
  BY <1>2, <1>3, <1>4, <1>5

LEMMA PolicyValues ==
  ASSUME NEW p \in Policies
  PROVE  /\ p.mode \in {"read", "write", "all"}
         /\ p = [mode |-> p.mode, apps |-> p.apps,
                 categories |-> p.categories, tools |-> p.tools]
         /\ p # NoPolicy
         /\ Lower(Text(p.mode)) = Text(p.mode)
         /\ Text(p.mode) \in Modes
<1>1. p \in [mode : {"read", "write", "all"}, apps : SUBSET STRING,
             categories : SUBSET (STRING \X STRING), tools : SUBSET STRING]
  BY PoliciesAssumption
<1>2. /\ p.mode \in {"read", "write", "all"}
      /\ p = [mode |-> p.mode, apps |-> p.apps,
              categories |-> p.categories, tools |-> p.tools]
  BY <1>1
<1>3. p # NoPolicy
  <2>1. NoPolicy.mode = "none"
    BY DEF NoPolicy
  <2> QED
    BY <1>2, <2>1
<1>4. Text(p.mode).text = p.mode /\ Text("Read").text = "Read"
  BY DEF Text
<1>5. Text(p.mode) # Text("Read")
  BY <1>2, <1>4
<1>6. Lower(Text(p.mode)) = Text(p.mode)
  BY <1>5 DEF Lower
<1>7. Text(p.mode) \in Modes
  BY <1>2 DEF Modes
<1> QED
  BY <1>2, <1>3, <1>6, <1>7

(* What a save does to a file *)

\* What is loaded of a setting depends on the file by what the file says of it.
LEMMA SameSetting ==
  ASSUME NEW f, NEW g, NEW e, NEW s, FromFile(g, s) = FromFile(f, s)
  PROVE  /\ FileFits(f, s) => FileFits(g, s)
         /\ Value(g, e, s) = Value(f, e, s)
         /\ ValueFits(f, e, s) => ValueFits(g, e, s)
<1>1. FileFits(f, s) => FileFits(g, s)
  BY DEF FileFits
<1>2. Value(g, e, s) = Value(f, e, s)
  BY DEF Value
<1>3. ValueFits(f, e, s) => ValueFits(g, e, s)
  BY <1>2 DEF ValueFits
<1> QED
  BY <1>1, <1>2, <1>3

\* A setting of the policy that is read as it was saved is accepted, unless the
\* environment gives another value, which was accepted before.
LEMMA SavedFits ==
  ASSUME NEW f, NEW g, NEW e, NEW s, NEW v, FromFile(g, s) = v,
         ValueFits(f, e, s),
         \/ s.kind = "mode" /\ IsText(v) /\ Lower(v) \in Modes
         \/ s.kind = "pairs" /\ IsText(v) /\ IsPairs(v)
         \/ s.kind = "names" /\ IsText(v)
  PROVE  FileFits(g, s) /\ ValueFits(g, e, s)
<1>1. s.kind \in {"mode", "pairs", "names"} /\ IsText(v)
  OBVIOUS
<1>2. FileFits(g, s)
  BY <1>1 DEF FileFits
<1>3. CASE Given(e, s) # {}
  <2>1. Value(g, e, s) = Value(f, e, s)
    BY <1>3 DEF Value
  <2> QED
    BY <1>2, <2>1 DEF ValueFits
<1>4. CASE Given(e, s) = {}
  <2>1. CASE s.kind = "mode"
    <3>1. Value(g, e, s) = Lower(v)
      BY <1>4, <2>1 DEF Value
    <3> QED
      BY <1>2, <2>1, <3>1 DEF ValueFits
  <2>2. CASE s.kind = "pairs"
    <3>1. Value(g, e, s) = v
      BY <1>4, <2>2 DEF Value
    <3> QED
      BY <1>2, <2>2, <3>1 DEF ValueFits
  <2>3. CASE s.kind = "names"
    BY <1>2, <2>3 DEF ValueFits
  <2> QED
    BY <1>1, <2>1, <2>2, <2>3
<1> QED
  BY <1>3, <1>4

LEMMA WrittenTexts ==
  /\ \A t : IsText(Text(t))
  /\ \A S : IsText(Names(S)) /\ IsText(Pairs(S)) /\ IsPairs(Pairs(S))
<1>1. \A t : IsText(Text(t))
  BY DEF IsText, Text
<1>2. \A S : IsText(Names(S))
  BY DEF IsText, Names
<1>3. \A S : IsText(Pairs(S)) /\ IsPairs(Pairs(S))
  BY DEF IsText, Pairs, IsPairs
<1> QED
  BY <1>1, <1>2, <1>3

\* The file of a save says of a setting of the policy what it said before, or
\* what was saved for it.
LEMMA PolicyFits ==
  ASSUME NEW f \in Seq(Lines), NEW p \in Policies, NEW e, Loads(f, e),
         NEW s \in ToolAccessSettings
  PROVE  FileFits(Replaced(f, p), s) /\ ValueFits(Replaced(f, p), e, s)
<1>1. PICK g : g = Replaced(f, p)
  OBVIOUS
<1>2. Spliced(f, g, p, SectionStart(f), SectionEnd(f))
  BY <1>1, ReplacedIsSpliced
<1>3. Parses(f) /\ FileFits(f, s) /\ ValueFits(f, e, s)
  BY DEF Loads, Settings
<1>4. s.section = "tool_access"
  BY PolicySettings
<1>5. CASE FromFile(g, s) = FromFile(f, s)
  BY <1>1, <1>3, <1>5, SameSetting
<1>6. ASSUME NEW k \in 2 .. 5, Rendered(p)[k].key = s.key,
             FromFile(g, s) = Rendered(p)[k].value
      PROVE  FileFits(g, s) /\ ValueFits(g, e, s)
  <2>1. PICK v : v = Rendered(p)[k].value
    OBVIOUS
  <2>2. \/ s.kind = "mode" /\ IsText(v) /\ Lower(v) \in Modes
        \/ s.kind = "pairs" /\ IsText(v) /\ IsPairs(v)
        \/ s.kind = "names" /\ IsText(v)
    <3>1. \/ s.key = "access_mode" /\ s.kind = "mode"
          \/ s.key = "disabled_apps" /\ s.kind = "names"
          \/ s.key = "disabled_categories" /\ s.kind = "pairs"
          \/ s.key = "disabled_tools" /\ s.kind = "names"
      BY PolicySettings DEF ToolAccessSettings
    <3>2. k = 2 \/ k = 3 \/ k = 4 \/ k = 5
      OBVIOUS
    <3>3. \/ s.key = "access_mode" /\ v = Text(p.mode)
          \/ s.key = "disabled_apps" /\ v = Names(p.apps)
          \/ s.key = "disabled_categories" /\ v = Pairs(p.categories)
          \/ s.key = "disabled_tools" /\ v = Names(p.tools)
      BY <1>6, <2>1, <3>2, RenderedValues
    <3>4. Lower(Text(p.mode)) \in Modes
      BY PolicyValues
    <3>5. CASE s.key = "access_mode"
      <4>1. s.kind = "mode" /\ v = Text(p.mode)
        BY <3>1, <3>3, <3>5
      <4> QED
        BY <3>4, <4>1, WrittenTexts
    <3>6. CASE s.key \in {"disabled_apps", "disabled_tools"}
      <4>1. s.kind = "names" /\ \E S : v = Names(S)
        BY <3>1, <3>3, <3>6
      <4> QED
        BY <4>1, WrittenTexts
    <3>7. CASE s.key = "disabled_categories"
      <4>1. s.kind = "pairs" /\ v = Pairs(p.categories)
        BY <3>1, <3>3, <3>7
      <4> QED
        BY <4>1, WrittenTexts
    <3> QED
      BY <3>1, <3>5, <3>6, <3>7
  <2> QED
    BY <1>3, <1>6, <2>1, <2>2, SavedFits
<1>7. \E n \in 2 .. 5 : Rendered(p)[n].key = s.key
  <2>1. s.key \in {"access_mode", "disabled_apps", "disabled_categories",
                   "disabled_tools"}
    BY PolicySettings DEF ToolAccessSettings
  <2>2. 2 \in 2 .. 5 /\ 3 \in 2 .. 5 /\ 4 \in 2 .. 5 /\ 5 \in 2 .. 5
    OBVIOUS
  <2> QED
    BY <2>1, <2>2, RenderedValues
<1>8. \/ FromFile(g, s) = FromFile(f, s)
      \/ \E k \in 2 .. 5 : /\ Rendered(p)[k].key = s.key
                           /\ FromFile(g, s) = Rendered(p)[k].value
  <2>1. PICK n \in 2 .. 5 : Rendered(p)[n].key = s.key
    BY <1>7
  <2> QED
    BY <1>2, <1>3, <1>4, <2>1, PolicyOrAsBefore
<1> QED
  BY <1>1, <1>5, <1>6, <1>8

LEMMA LoadsOn ==
  ASSUME NEW f \in Seq(Lines), NEW p \in Policies, NEW e, Loads(f, e)
  PROVE  Loads(Replaced(f, p), e) /\ Load(Replaced(f, p), e) = Load(f, e)
<1>1. PICK g : g = Replaced(f, p)
  OBVIOUS
<1>2. Spliced(f, g, p, SectionStart(f), SectionEnd(f))
  BY <1>1, ReplacedIsSpliced
<1>3. Parses(f)
  BY DEF Loads
<1>4. ASSUME NEW s \in OtherSettings
      PROVE  FileFits(g, s) /\ ValueFits(g, e, s)
             /\ Value(g, e, s) = Value(f, e, s)
  <2>1. FromFile(g, s) = FromFile(f, s)
    BY <1>2, <1>3, OtherSections, OthersStay
  <2>2. FileFits(f, s) /\ ValueFits(f, e, s)
    BY DEF Loads, Settings
  <2> QED
    BY <2>1, <2>2, SameSetting
<1>5. ASSUME NEW s \in ToolAccessSettings
      PROVE  FileFits(g, s) /\ ValueFits(g, e, s)
  BY <1>1, PolicyFits
<1>6. Parses(g)
  BY <1>2, <1>3, ParsesOn
<1>7. \A s \in Settings : EnvFits(e, s)
  BY DEF Loads
<1>8. Loads(g, e)
  <2>1. \A s \in Settings : s \in OtherSettings \/ s \in ToolAccessSettings
    BY DEF Settings
  <2> QED
    BY <1>4, <1>5, <1>6, <1>7, <2>1 DEF Loads
<1>9. Load(g, e) = Load(f, e)
  BY <1>4 DEF Load
<1> QED
  BY <1>1, <1>8, <1>9

\* When the file that is written parses, what follows the section is a heading.
LEMMA SectionBeforeHeading ==
  ASSUME NEW f, NEW g, NEW p, NEW a, NEW b, Spliced(f, g, p, a, b),
         Parses(g), b <= Len(f)
  PROVE  f[b].kind = "heading"
<1>1. /\ a \in Nat /\ b \in Nat /\ Len(f) \in Nat /\ Len(g) \in Nat
      /\ 1 <= a /\ a <= b /\ b <= Len(f) + 1
      /\ Len(g) = Len(f) + (a + 5 - b)
  BY Places
<1>2. PICK x : x = b + (a + 5 - b)
  OBVIOUS
<1>3. x \in 1 .. Len(g) /\ b \in b .. Len(f)
  BY <1>1, <1>2
<1>4. g[x].kind \in {"heading", "entry"}
  BY <1>3 DEF Parses
<1>5. g[x] = f[b] /\ f[b].kind \in {"heading", "odd heading"}
  BY <1>2, <1>3 DEF Spliced
<1> QED
  BY <1>4, <1>5

\* With one such section in the file, nothing else gives a setting of the
\* policy.
LEMMA OneSection ==
  ASSUME NEW f, NEW g, NEW p, NEW a, NEW b, Spliced(f, g, p, a, b),
         Parses(g), Once(g), NEW s, s.section = "tool_access",
         NEW i \in Entries(g, s)
  PROVE  \E k \in 2 .. 5 : i = a - 1 + k /\ Rendered(p)[k].key = s.key
<1>1. /\ a \in Nat /\ b \in Nat /\ Len(f) \in Nat /\ Len(g) \in Nat
      /\ 1 <= a /\ a <= b /\ b <= Len(f) + 1
      /\ Len(g) = Len(f) + (a + 5 - b)
  BY Places
<1>2. g \in Seq(Lines)
  BY DEF Spliced
<1>3. b <= Len(f) => f[b].kind = "heading"
  BY SectionBeforeHeading
<1>4. /\ i \in 1 .. Len(g) /\ g[i].kind = "entry" /\ g[i].key = s.key
      /\ g[HeadingOf(g, i)].name = "tool_access"
  BY DEF Entries
<1>5. PICK h : h = HeadingOf(g, i)
  OBVIOUS
<1>6. h \in 1 .. i /\ h \in 1 .. Len(g) /\ g[h].kind = "heading"
  <2>1. i \in Nat
    BY <1>1, <1>4
  <2>2. h \in 0 .. i /\ (h # 0 => g[h].kind = "heading")
    BY <1>5, <2>1, HeadingAbove
  <2>3. h # 0
    BY <1>4, <1>5 DEF Parses
  <2> QED
    BY <1>1, <1>4, <2>2, <2>3
<1>7. g[h] = Heading("tool_access")
  <2>1. g[h] \in Lines
    BY <1>2, <1>6
  <2>2. g[h] = Heading(g[h].name)
    BY <1>6, <2>1, HeadingLines
  <2> QED
    BY <1>4, <1>5, <2>2
<1>8. g[a] = Heading("tool_access") /\ a \in 1 .. Len(g)
  BY <1>1, LinesOfSection
<1>9. h = a
  <2> DEFINE T == {j \in 1 .. Len(g) : g[j] = Heading("tool_access")}
  <2>1. IsFiniteSet(T)
    <3>1. IsFiniteSet(1 .. Len(g))
      BY <1>1, FS_Interval
    <3>2. T \in SUBSET (1 .. Len(g))
      OBVIOUS
    <3> HIDE DEF T
    <3> QED
      BY <3>1, <3>2, FS_Subset
  <2>2. Cardinality(T) = 1
    BY DEF Once
  <2>3. h \in T /\ a \in T
    BY <1>6, <1>7, <1>8
  <2> HIDE DEF T
  <2>4. \E x : T = {x}
    BY <2>1, <2>2, FS_Singleton
  <2> QED
    BY <2>3, <2>4
<1>10. \/ i \in 1 .. a - 1
       \/ \E k \in 1 .. 5 : i = a - 1 + k
       \/ \E j \in b .. Len(f) : i = j + (a + 5 - b)
  <2>1. \A x \in 1 .. Len(g) :
          \/ x \in 1 .. a - 1
          \/ \E k \in 1 .. 5 : x = a - 1 + k
          \/ \E j \in b .. Len(f) : x = j + (a + 5 - b)
    BY Places
  <2> QED
    BY <1>4, <2>1
<1>11. i \notin 1 .. a - 1
  BY <1>1, <1>6, <1>9
<1>12. ASSUME NEW j \in b .. Len(f), i = j + (a + 5 - b) PROVE FALSE
  <2>1. /\ HeadingOf(f, j) \in b .. j
        /\ HeadingOf(g, j + (a + 5 - b)) = HeadingOf(f, j) + (a + 5 - b)
    BY <1>3, HeadingsMove
  <2>2. h = HeadingOf(f, j) + (a + 5 - b)
    BY <1>5, <1>12, <2>1
  <2> QED
    BY <1>1, <1>9, <2>1, <2>2
<1>13. ASSUME NEW k \in 1 .. 5, i = a - 1 + k
       PROVE  k \in 2 .. 5 /\ Rendered(p)[k].key = s.key
  <2>1. k \in 2 .. 5
    <3>1. k = 1 => i = a
      BY <1>1, <1>13
    <3>2. g[a].kind = "heading"
      BY <1>8 DEF Heading
    <3> QED
      BY <1>4, <3>1, <3>2
  <2>2. g[i] = Rendered(p)[k]
    BY <1>13, <2>1, LinesOfSection
  <2> QED
    BY <1>4, <2>1, <2>2
<1> QED
  BY <1>10, <1>11, <1>12, <1>13

\* Then the file says what was saved.
LEMMA OneSectionIsRead ==
  ASSUME NEW f \in Seq(Lines), NEW p \in Policies,
         Parses(Replaced(f, p)), Once(Replaced(f, p)),
         NEW s, s.section = "tool_access",
         NEW k \in 2 .. 5, Rendered(p)[k].key = s.key,
         \A n \in 2 .. 5 : Rendered(p)[n].key = s.key => n = k
  PROVE  FromFile(Replaced(f, p), s) = Rendered(p)[k].value
<1>1. PICK g : g = Replaced(f, p)
  OBVIOUS
<1>2. PICK a : a = SectionStart(f)
  OBVIOUS
<1>3. PICK b : b = SectionEnd(f)
  OBVIOUS
<1>4. Spliced(f, g, p, a, b)
  BY <1>1, <1>2, <1>3, ReplacedIsSpliced
<1>5. Parses(g) /\ Once(g)
  BY <1>1
<1>6. \A i \in Entries(g, s) : i = a - 1 + k
  BY <1>4, <1>5, OneSection
<1>7. PICK m : m = a - 1 + k
  OBVIOUS
<1>8. a \in Nat /\ m \in Int /\ g \in Seq(Lines) /\ g[m] = Rendered(p)[k]
  <2>1. a \in Nat
    BY <1>4, Places
  <2>2. \A n \in 2 .. 5 : g[a - 1 + n] = Rendered(p)[n]
    BY <1>4, LinesOfSection
  <2>3. g \in Seq(Lines)
    BY <1>4 DEF Spliced
  <2> QED
    BY <1>7, <2>1, <2>2, <2>3
<1>9. m \in Entries(g, s)
  <2>1. b <= Len(f) => f[b].kind = "heading"
    BY <1>4, <1>5, SectionBeforeHeading
  <2>2. a - 1 + k \in Entries(g, s) <=>
          Rendered(p)[k].key = s.key /\ s.section = "tool_access"
    BY <1>4, <2>1, SectionEntries
  <2> QED
    BY <1>7, <2>2
<1>10. \A i \in Entries(g, s) : i <= m
  BY <1>6, <1>7, <1>8
<1>11. FromFile(g, s) = g[m].value
  BY <1>8, <1>9, <1>10, ReadAt
<1> QED
  BY <1>1, <1>8, <1>11

LEMMA NamesRead == \A S : NamesOf(Names(S)) = S
<1> SUFFICES ASSUME NEW S PROVE NamesOf(Names(S)) = S
  OBVIOUS
<1>1. PICK v : v = Names(S)
  OBVIOUS
<1>2. v.type = "names" /\ v.names = S
  BY <1>1 DEF Names
<1>3. Text("").type = "string"
  BY DEF Text
<1>4. NamesOf(v) = v.names
  BY <1>2, <1>3 DEF NamesOf
<1> QED
  BY <1>1, <1>2, <1>4

\* A start reads the policy that was saved.
LEMMA SavedIsRead ==
  ASSUME NEW f \in Seq(Lines), NEW p \in Policies, NEW e, ~ Overridden(e),
         Once(Replaced(f, p)), Loads(Replaced(f, p), e)
  PROVE  PolicyOf(Replaced(f, p), e) = p
<1>1. PICK g : g = Replaced(f, p)
  OBVIOUS
<1>2. Parses(Replaced(f, p))
  BY DEF Loads
<1>3. /\ Rendered(p)[2].key = "access_mode"
      /\ Rendered(p)[3].key = "disabled_apps"
      /\ Rendered(p)[4].key = "disabled_categories"
      /\ Rendered(p)[5].key = "disabled_tools"
      /\ Rendered(p)[2].value = Text(p.mode)
      /\ Rendered(p)[3].value = Names(p.apps)
      /\ Rendered(p)[4].value = Pairs(p.categories)
      /\ Rendered(p)[5].value = Names(p.tools)
  BY RenderedValues
<1>4. /\ AccessMode \in ToolAccessSettings
      /\ DisabledApps \in ToolAccessSettings
      /\ DisabledCategories \in ToolAccessSettings
      /\ DisabledTools \in ToolAccessSettings
  BY DEF ToolAccessSettings
<1>5. /\ AccessMode.section = "tool_access"
      /\ DisabledApps.section = "tool_access"
      /\ DisabledCategories.section = "tool_access"
      /\ DisabledTools.section = "tool_access"
  BY <1>4, PolicySettings
<1>6. /\ AccessMode.key = "access_mode" /\ AccessMode.kind = "mode"
      /\ DisabledApps.key = "disabled_apps" /\ DisabledApps.kind = "names"
      /\ DisabledCategories.key = "disabled_categories"
      /\ DisabledCategories.kind = "pairs"
      /\ DisabledTools.key = "disabled_tools" /\ DisabledTools.kind = "names"
  BY PolicySettings
<1>7. \A n \in 2 .. 5 : n = 2 \/ n = 3 \/ n = 4 \/ n = 5
  OBVIOUS
<1>8. FromFile(g, AccessMode) = Text(p.mode)
  <2>1. /\ Rendered(p)[2].key = AccessMode.key
        /\ \A n \in 2 .. 5 : Rendered(p)[n].key = AccessMode.key => n = 2
    BY <1>3, <1>6, <1>7
  <2> QED
    BY <1>1, <1>2, <1>3, <1>5, <2>1, OneSectionIsRead
<1>9. FromFile(g, DisabledApps) = Names(p.apps)
  <2>1. /\ Rendered(p)[3].key = DisabledApps.key
        /\ \A n \in 2 .. 5 : Rendered(p)[n].key = DisabledApps.key => n = 3
    BY <1>3, <1>6, <1>7
  <2> QED
    BY <1>1, <1>2, <1>3, <1>5, <2>1, OneSectionIsRead
<1>10. FromFile(g, DisabledCategories) = Pairs(p.categories)
  <2>1. /\ Rendered(p)[4].key = DisabledCategories.key
        /\ \A n \in 2 .. 5 :
             Rendered(p)[n].key = DisabledCategories.key => n = 4
    BY <1>3, <1>6, <1>7
  <2> QED
    BY <1>1, <1>2, <1>3, <1>5, <2>1, OneSectionIsRead
<1>11. FromFile(g, DisabledTools) = Names(p.tools)
  <2>1. /\ Rendered(p)[5].key = DisabledTools.key
        /\ \A n \in 2 .. 5 : Rendered(p)[n].key = DisabledTools.key => n = 5
    BY <1>3, <1>6, <1>7
  <2> QED
    BY <1>1, <1>2, <1>3, <1>5, <2>1, OneSectionIsRead
<1>12. \A s \in ToolAccessSettings : Given(e, s) = {}
  BY DEF Overridden
<1>13. Value(g, e, AccessMode).text = p.mode
  <2>1. Value(g, e, AccessMode) = Lower(Text(p.mode))
    BY <1>4, <1>6, <1>8, <1>12 DEF Value
  <2>2. Value(g, e, AccessMode) = Text(p.mode)
    BY <2>1, PolicyValues
  <2> QED
    BY <2>2 DEF Text
<1>14. NamesOf(Value(g, e, DisabledApps)) = p.apps
  <2>1. Value(g, e, DisabledApps) = Names(p.apps)
    BY <1>4, <1>6, <1>9, <1>12 DEF Value
  <2> QED
    BY <2>1, NamesRead
<1>15. PairsOf(Value(g, e, DisabledCategories)) = p.categories
  <2>1. Value(g, e, DisabledCategories) = Pairs(p.categories)
    BY <1>4, <1>6, <1>10, <1>12 DEF Value
  <2> QED
    BY <2>1 DEF PairsOf, Pairs
<1>16. NamesOf(Value(g, e, DisabledTools)) = p.tools
  <2>1. Value(g, e, DisabledTools) = Names(p.tools)
    BY <1>4, <1>6, <1>11, <1>12 DEF Value
  <2> QED
    BY <2>1, NamesRead
<1>17. PolicyOf(g, e) = [mode |-> p.mode, apps |-> p.apps,
                         categories |-> p.categories, tools |-> p.tools]
  BY <1>13, <1>14, <1>15, <1>16 DEF PolicyOf
<1> QED
  BY <1>1, <1>17, PolicyValues

-----------------------------------------------------------------------------
(* Theorems about saving *)

\* The file is made of lines; after a save it is another file with its section
\* replaced; and a daemon that was started since has read it.
FileInv ==
  /\ file \in Seq(Lines)
  /\ saved # NoPolicy =>
       /\ saved \in Policies
       /\ \E f \in Seq(Lines) : file = Replaced(f, saved)
  /\ Up /\ saved # NoPolicy /\ ~ Overridden(env) /\ Once(file) =>
       policy = saved

LEMMA WrittenFiles ==
  ASSUME NEW f \in Files
  PROVE  f \in Seq(Lines)
<1>1. f \in Seq(Written)
  BY FilesAssumption
<1>2. Written \subseteq Lines
  BY DEF Lines
<1> QED
  BY <1>1, <1>2

LEMMA CutFiles ==
  ASSUME NEW f \in Seq(Lines), NEW n \in 0 .. Len(f) - 1,
         NEW rest \in {<<>>, <<Broken>>}
  PROVE  SubSeq(f, 1, n) \o rest \in Seq(Lines)
<1>1. Broken \in Lines
  BY DEF Lines
<1>2. rest \in Seq(Lines)
  <2>1. <<>> \in Seq(Lines) /\ <<Broken>> \in Seq(Lines)
    BY <1>1
  <2> QED
    BY <2>1
<1>3. \A i \in 1 .. n : f[i] \in Lines
  OBVIOUS
<1>4. SubSeq(f, 1, n) \in Seq(Lines)
  BY <1>3, SubSeqProperties
<1> QED
  BY <1>2, <1>4, ConcatProperties

THEOREM FilesAreKept == Spec => []FileInv
<1>1. Init => FileInv
  BY WrittenFiles DEF Init, FileInv
<1>2. FileInv /\ [Next]_vars => FileInv'
  <2> SUFFICES ASSUME FileInv, [Next]_vars PROVE FileInv'
    OBVIOUS
  <2>1. CASE Start
    <3>1. UNCHANGED <<file, env, saved>> /\ policy' = PolicyOf(file, env)
      BY <2>1 DEF Start
    <3>2. Loads(file, env)
      BY <2>1 DEF Start, Starts
    <3>3. ASSUME saved # NoPolicy, ~ Overridden(env), Once(file)
          PROVE  policy' = saved
      <4>1. saved \in Policies
        BY <3>3 DEF FileInv
      <4>2. PICK f \in Seq(Lines) : file = Replaced(f, saved)
        BY <3>3 DEF FileInv
      <4>3. PICK p : p = saved
        OBVIOUS
      <4>4. PICK e : e = env
        OBVIOUS
      <4>5. /\ p \in Policies /\ ~ Overridden(e)
            /\ Once(Replaced(f, p)) /\ Loads(Replaced(f, p), e)
        BY <3>2, <3>3, <4>1, <4>2, <4>3, <4>4
      <4>6. PolicyOf(Replaced(f, p), e) = p
        BY <4>5, SavedIsRead
      <4> QED
        BY <3>1, <4>2, <4>3, <4>4, <4>6
    <3>4. /\ file' \in Seq(Lines)
          /\ saved' # NoPolicy =>
               /\ saved' \in Policies
               /\ \E f \in Seq(Lines) : file' = Replaced(f, saved')
      BY <3>1 DEF FileInv
    <3> QED
      BY <3>1, <3>3, <3>4 DEF FileInv
  <2>2. CASE Stop
    <3>1. UNCHANGED <<file, saved>> /\ ~ Up'
      BY <2>2 DEF Stop, Up
    <3> QED
      BY <3>1 DEF FileInv
  <2>3. CASE Edit
    <3>1. file' \in Seq(Lines) /\ saved' = NoPolicy
      BY <2>3, WrittenFiles DEF Edit
    <3> QED
      BY <3>1 DEF FileInv
  <2>4. ASSUME NEW p \in Policies, SaveToolAccess(p) PROVE FileInv'
    <3>1. file' = Replaced(file, p) /\ policy' = p /\ saved' = p
      BY <2>4 DEF SaveToolAccess
    <3>2. PICK f \in Seq(Lines) : f = file
      BY DEF FileInv
    <3>3. Replaced(f, p) \in Seq(Lines)
      BY ReplacedIsSpliced DEF Spliced
    <3> QED
      BY <3>1, <3>2, <3>3 DEF FileInv
  <2>5. ASSUME NEW p \in Policies, SaveIsCut(p) PROVE FileInv'
    <3>1. PICK f \in Seq(Lines) : f = file
      BY DEF FileInv
    <3>2. PICK g \in Seq(Lines) : g = Replaced(f, p)
      BY ReplacedIsSpliced DEF Spliced
    <3>3. PICK n \in 0 .. Len(g) - 1 :
            \E rest \in {<<>>, <<Broken>>} : file' = SubSeq(g, 1, n) \o rest
      BY <2>5, <3>1, <3>2 DEF SaveIsCut
    <3>4. PICK rest \in {<<>>, <<Broken>>} : file' = SubSeq(g, 1, n) \o rest
      BY <3>3
    <3>5. file' \in Seq(Lines)
      BY <3>4, CutFiles
    <3>6. saved' = NoPolicy
      BY <2>5 DEF SaveIsCut
    <3> QED
      BY <3>5, <3>6 DEF FileInv
  <2>6. CASE UNCHANGED vars
    BY <2>6 DEF vars, FileInv, Up
  <2> QED
    BY <2>1, <2>2, <2>3, <2>4, <2>5, <2>6 DEF Next
<1> QED
  BY <1>1, <1>2, PTL DEF Spec

\* The policy that was saved is in force, and comes back with every start,
\* unless the environment says otherwise or the section is repeated: whatever
\* file it was saved into.
THEOREM SavedPolicies == Spec => []SavedPolicyReturns
<1>1. FileInv => SavedPolicyReturns
  <2> SUFFICES ASSUME FileInv, saved # NoPolicy, ~ Overridden(env), Once(file)
               PROVE  /\ Up => policy = saved
                      /\ Loads(file, env) => PolicyOf(file, env) = saved
    BY DEF SavedPolicyReturns
  <2>1. Up => policy = saved
    BY DEF FileInv
  <2>2. ASSUME Loads(file, env) PROVE PolicyOf(file, env) = saved
    <3>1. saved \in Policies
      BY DEF FileInv
    <3>2. PICK f \in Seq(Lines) : file = Replaced(f, saved)
      BY DEF FileInv
    <3>3. PICK p : p = saved
      OBVIOUS
    <3>4. PICK e : e = env
      OBVIOUS
    <3>5. /\ p \in Policies /\ ~ Overridden(e)
          /\ Once(Replaced(f, p)) /\ Loads(Replaced(f, p), e)
      BY <2>2, <3>1, <3>2, <3>3, <3>4
    <3>6. PolicyOf(Replaced(f, p), e) = p
      BY <3>5, SavedIsRead
    <3> QED
      BY <3>2, <3>3, <3>4, <3>6
  <2> QED
    BY <2>1, <2>2
<1> QED
  BY <1>1, FilesAreKept, PTL

\* A save touches nothing but the policy: a file that loads does so afterwards,
\* in any environment, with the same settings.
THEOREM OtherSettingsStay == Spec => SaveKeepsTheRest
<1> DEFINE Kept ==
      \A p \in Policies : SaveToolAccess(p) =>
        \A e \in Envs : Loads(file, e) =>
          Loads(file', e) /\ Load(file', e) = Load(file, e)
<1>1. FileInv /\ [Next]_vars => Kept
  <2> SUFFICES ASSUME FileInv, NEW p \in Policies, SaveToolAccess(p),
                      NEW e \in Envs, Loads(file, e)
               PROVE  Loads(file', e) /\ Load(file', e) = Load(file, e)
    OBVIOUS
  <2>1. file' = Replaced(file, p)
    BY DEF SaveToolAccess
  <2>2. PICK f \in Seq(Lines) : f = file
    BY DEF FileInv
  <2>3. Loads(Replaced(f, p), e) /\ Load(Replaced(f, p), e) = Load(f, e)
    BY <2>2, LoadsOn
  <2> QED
    BY <2>1, <2>2, <2>3
<1>2. FileInv /\ [Next]_vars => [Kept]_vars
  BY <1>1
<1> HIDE DEF Kept
<1>3. Spec => [][Kept]_vars
  BY <1>2, FilesAreKept, PTL DEF Spec
<1> QED
  BY <1>3 DEF Kept, SaveKeepsTheRest
=============================================================================
