------------------------- MODULE SurveillanceProofs --------------------------
(***************************************************************************)
(* What is proved of a camera from its frames to its events, for every      *)
(* setup of zones, rules and scenes, every number of objects and every       *)
(* cooldown:                                                                *)
(*   - scores fall by the clock (ScoreInv);                                 *)
(*   - the questions of a frame are of keys that the deduplicator has, and   *)
(*     where no rule hides another the riskiest of a key comes first         *)
(*     (AnalysisMade, PendingInv), so that the pipeline's deduplicator is    *)
(*     EventDedup, and with it RateLimit;                                   *)
(*   - every variable keeps its type;                                       *)
(*   - a level is owed for less than a cooldown (OwedInv);                  *)
(*   - an intruder is reported (SeenInv counts his frames through the gate   *)
(*     and the tracker, IntruderInv follows them to the events).            *)
(* The invariants are proved one after the other: each step lemma takes      *)
(* those before it as hypotheses.                                           *)
(***************************************************************************)
EXTENDS Surveillance, EventDedupProofs, ListLemmas

----------------------------------------------------------------------------
(* Lists of lists                                                          *)

\* FlattenSeq appends the lists one after the other.
LEMMA FlattenRecursion ==
    ASSUME NEW T, NEW ss \in Seq(Seq(T)), Len(ss) # 0
    PROVE  \E f : /\ S!FlattenSeq(ss) = f[Len(ss)]
                  /\ f[1] = ss[1]
                  /\ \A i \in 2..Len(ss) : f[i] = f[i - 1] \o ss[i]
<1>0. Len(ss) \in Nat /\ Len(ss) >= 1
  OBVIOUS
<1> DEFINE Recursive(g, n) == g = [i \in 1..n |-> IF i = 1 THEN ss[i] ELSE g[i - 1] \o ss[i]]
           built == {n \in Nat : \E g : Recursive(g, n)}
<1>1. 0 \in built
  <2>1. PICK g : g = [i \in 1..0 |-> ss[i]]
    OBVIOUS
  <2>2. Recursive(g, 0)
    BY <2>1
  <2> HIDE DEF Recursive
  <2> QED BY <2>2
<1>2. ASSUME NEW n \in Nat, n \in built PROVE n + 1 \in built
  <2>1. PICK g : Recursive(g, n)
    BY <1>2
  <2>2. PICK h : h = [i \in 1..(n + 1) |-> IF i = 1 THEN ss[i] ELSE g[i - 1] \o ss[i]]
    OBVIOUS
  <2>3. ASSUME NEW i \in 1..(n + 1), i # 1 PROVE h[i - 1] = g[i - 1]
    <3>1. i - 1 \in 1..n
      BY <2>3
    <3>2. g[i - 1] = IF i - 1 = 1 THEN ss[i - 1] ELSE g[i - 1 - 1] \o ss[i - 1]
      BY <2>1, <3>1
    <3> QED BY <2>2, <3>1, <3>2
  <2>4. Recursive(h, n + 1)
    BY <2>2, <2>3
  <2> HIDE DEF Recursive
  <2> QED BY <2>4
<1>3. Nat \subseteq built
  <2> HIDE DEF built
  <2> QED BY <1>1, <1>2, NaturalSteps
<1>4. \E g : Recursive(g, Len(ss))
  BY <1>0, <1>3
<1>5. PICK f : f = CHOOSE g : Recursive(g, Len(ss))
  OBVIOUS
<1>6. Recursive(f, Len(ss))
  <2> HIDE DEF Recursive
  <2> QED BY <1>4, <1>5, Zenon
<1>7. S!FlattenSeq(ss) = f[Len(ss)]
  BY <1>5, Zenon DEF S!FlattenSeq
<1>8. f[1] = ss[1]
  BY <1>0, <1>6
<1>9. ASSUME NEW i \in 2..Len(ss) PROVE f[i] = f[i - 1] \o ss[i]
  <2>1. i \in 1..Len(ss) /\ i # 1
    OBVIOUS
  <2>2. f[i] = IF i = 1 THEN ss[i] ELSE f[i - 1] \o ss[i]
    BY <1>6, <2>1
  <2> QED BY <2>1, <2>2
<1> QED BY <1>7, <1>8, <1>9

\* What is in two lists, one after the other.
LEMMA Concatenated ==
    ASSUME NEW T, NEW s \in Seq(T), NEW u \in Seq(T)
    PROVE  /\ s \o u \in Seq(T)
           /\ S!ToSet(s \o u) = S!ToSet(s) \cup S!ToSet(u)
           /\ \A p, q \in DOMAIN (s \o u) : p < q =>
                 \/ /\ p \in DOMAIN s /\ q \in DOMAIN s
                    /\ (s \o u)[p] = s[p] /\ (s \o u)[q] = s[q]
                 \/ /\ p - Len(s) \in DOMAIN u /\ q - Len(s) \in DOMAIN u
                    /\ (s \o u)[p] = u[p - Len(s)] /\ (s \o u)[q] = u[q - Len(s)]
                 \/ (s \o u)[p] \in S!ToSet(s) /\ (s \o u)[q] \in S!ToSet(u)
<1> DEFINE c == s \o u
<1>1. /\ Len(s) \in Nat /\ DOMAIN s = 1..Len(s) /\ Len(u) \in Nat /\ DOMAIN u = 1..Len(u)
      /\ c \in Seq(T) /\ DOMAIN c = 1..(Len(s) + Len(u))
      /\ \A i \in 1..Len(s) : c[i] = s[i]
      /\ \A i \in (Len(s) + 1)..(Len(s) + Len(u)) : c[i] = u[i - Len(s)]
  OBVIOUS
<1> HIDE DEF c
<1>2. ASSUME NEW i \in DOMAIN c
      PROVE  \/ i \in 1..Len(s) /\ c[i] = s[i]
             \/ /\ i > Len(s) /\ i - Len(s) \in 1..Len(u) /\ c[i] = u[i - Len(s)]
  BY <1>1
<1>3. S!ToSet(c) = S!ToSet(s) \cup S!ToSet(u)
  <2>1. ASSUME NEW x \in S!ToSet(c) PROVE x \in S!ToSet(s) \cup S!ToSet(u)
    BY <1>1, <1>2 DEF S!ToSet
  <2>2. ASSUME NEW i \in 1..Len(s) PROVE s[i] \in S!ToSet(c)
    <3>1. i \in DOMAIN c /\ c[i] = s[i]
      BY <1>1
    <3> QED BY <3>1 DEF S!ToSet
  <2>3. ASSUME NEW j \in 1..Len(u) PROVE u[j] \in S!ToSet(c)
    <3>1. j + Len(s) \in DOMAIN c /\ c[j + Len(s)] = u[j]
      BY <1>1
    <3> QED BY <3>1 DEF S!ToSet
  <2>4. S!ToSet(s) \cup S!ToSet(u) \subseteq S!ToSet(c)
    BY <1>1, <2>2, <2>3 DEF S!ToSet
  <2> QED BY <2>1, <2>4
<1>4. ASSUME NEW p \in DOMAIN c, NEW q \in DOMAIN c, p < q
      PROVE  \/ /\ p \in DOMAIN s /\ q \in DOMAIN s /\ c[p] = s[p] /\ c[q] = s[q]
             \/ /\ p - Len(s) \in DOMAIN u /\ q - Len(s) \in DOMAIN u
                /\ c[p] = u[p - Len(s)] /\ c[q] = u[q - Len(s)]
             \/ c[p] \in S!ToSet(s) /\ c[q] \in S!ToSet(u)
  <2>1. CASE p \in 1..Len(s) /\ c[p] = s[p]
    BY <1>1, <1>2, <2>1 DEF S!ToSet
  <2>2. CASE p > Len(s) /\ p - Len(s) \in 1..Len(u) /\ c[p] = u[p - Len(s)]
    <3>1. ~(q \in 1..Len(s))
      BY <1>1, <1>4, <2>2
    <3> QED BY <1>1, <1>2, <2>2, <3>1
  <2> QED BY <1>2, <2>1, <2>2
<1> QED BY <1>1, <1>3, <1>4 DEF c

\* Every entry of a list before another is related to it.
Ordered(s, R) == \A p, q \in DOMAIN s : p < q => <<s[p], s[q]>> \in R
Before(s, u, R) == \A x \in S!ToSet(s), y \in S!ToSet(u) : <<x, y>> \in R

\* Two ordered lists, one after the other, are ordered when each entry of the first is
\* related to each of the second.
LEMMA OrderedBoth ==
    ASSUME NEW T, NEW s \in Seq(T), NEW u \in Seq(T), NEW R,
           Ordered(s, R), Ordered(u, R), Before(s, u, R)
    PROVE  Ordered(s \o u, R)
<1>1. PICK c : c = s \o u
  OBVIOUS
<1>2. SUFFICES ASSUME NEW p \in DOMAIN c, NEW q \in DOMAIN c, p < q
               PROVE  <<c[p], c[q]>> \in R
  BY <1>1 DEF Ordered
<1>3. Len(s) \in Nat /\ p \in Int /\ q \in Int
  BY <1>1
<1>4. \/ p \in DOMAIN s /\ q \in DOMAIN s /\ c[p] = s[p] /\ c[q] = s[q]
      \/ /\ p - Len(s) \in DOMAIN u /\ q - Len(s) \in DOMAIN u
         /\ c[p] = u[p - Len(s)] /\ c[q] = u[q - Len(s)]
      \/ c[p] \in S!ToSet(s) /\ c[q] \in S!ToSet(u)
  BY <1>1, <1>2, Concatenated
<1>5. p - Len(s) < q - Len(s)
  BY <1>2, <1>3
<1> QED BY <1>2, <1>4, <1>5 DEF Ordered, Before

\* What is in the flattened list.
LEMMA Flattened ==
    ASSUME NEW T, NEW ss \in Seq(Seq(T))
    PROVE  /\ S!FlattenSeq(ss) \in Seq(T)
           /\ \A x : x \in S!ToSet(S!FlattenSeq(ss)) <=> \E i \in DOMAIN ss : x \in S!ToSet(ss[i])
<1>0. Len(ss) \in Nat /\ DOMAIN ss = 1..Len(ss) /\ \A i \in 1..Len(ss) : ss[i] \in Seq(T)
  OBVIOUS
<1>1. CASE Len(ss) = 0
  <2>1. S!FlattenSeq(ss) = ss /\ ss = <<>> /\ DOMAIN ss = {}
    BY <1>0, <1>1 DEF S!FlattenSeq
  <2> QED BY <2>1 DEF S!ToSet
<1>2. CASE Len(ss) # 0
  <2>1. PICK f : /\ S!FlattenSeq(ss) = f[Len(ss)]
                 /\ f[1] = ss[1]
                 /\ \A i \in 2..Len(ss) : f[i] = f[i - 1] \o ss[i]
    BY <1>2, FlattenRecursion
  <2> DEFINE Fits(n) == n + 1 <= Len(ss) =>
               /\ f[n + 1] \in Seq(T)
               /\ \A x : x \in S!ToSet(f[n + 1]) <=> \E i \in 1..(n + 1) : x \in S!ToSet(ss[i])
             fitting == {n \in Nat : Fits(n)}
  <2>2. 0 \in fitting
    BY <1>0, <1>2, <2>1
  <2>3. ASSUME NEW n \in Nat, n \in fitting PROVE n + 1 \in fitting
    <3>1. SUFFICES ASSUME n + 2 <= Len(ss) PROVE Fits(n + 1)
      BY <1>0
    <3>2. PICK s, u, c : s = f[n + 1] /\ u = ss[n + 2] /\ c = f[n + 2]
      OBVIOUS
    <3>3. c = s \o u /\ s \in Seq(T) /\ u \in Seq(T)
      <4>1. n + 2 \in 2..Len(ss) /\ n + 2 - 1 = n + 1
        BY <1>0, <3>1
      <4>2. f[n + 2] = f[n + 1] \o ss[n + 2]
        <5>1. PICK k : k = n + 2
          OBVIOUS
        <5>2. f[k] = f[k - 1] \o ss[k]
          BY <2>1, <4>1, <5>1
        <5>3. k - 1 = n + 1
          BY <5>1
        <5> QED BY <5>1, <5>2, <5>3, Zenon
      <4>3. ss[n + 2] \in Seq(T)
        BY <1>0, <4>1
      <4> QED BY <1>0, <2>3, <3>1, <3>2, <4>1, <4>2, <4>3
    <3>4. c \in Seq(T) /\ S!ToSet(c) = S!ToSet(s) \cup S!ToSet(u)
      BY <3>3, Concatenated
    <3>5. \A x : x \in S!ToSet(s) <=> \E i \in 1..(n + 1) : x \in S!ToSet(ss[i])
      BY <1>0, <2>3, <3>1, <3>2
    <3>6. \A x : x \in S!ToSet(c) <=> \E i \in 1..(n + 2) : x \in S!ToSet(ss[i])
      <4>1. 1..(n + 2) = 1..(n + 1) \cup {n + 2}
        OBVIOUS
      <4> QED BY <3>2, <3>4, <3>5, <4>1
    <3>7. n + 1 + 1 = n + 2
      OBVIOUS
    <3> QED BY <3>2, <3>4, <3>6, <3>7
  <2>4. Nat \subseteq fitting
    <3> HIDE DEF fitting
    <3> QED BY <2>2, <2>3, NaturalSteps
  <2>5. Fits(Len(ss) - 1) /\ Len(ss) - 1 + 1 = Len(ss)
    <3>1. Len(ss) - 1 \in Nat
      BY <1>0, <1>2
    <3>2. Len(ss) - 1 \in fitting
      <4> HIDE DEF fitting
      <4> QED BY <2>4, <3>1
    <3> QED BY <1>0, <3>2
  <2> QED BY <1>0, <2>1, <2>5
<1> QED BY <1>1, <1>2

\* The flattened list is ordered when each of the lists is, and each entry of a list is
\* related to each of the lists after it.
LEMMA FlattenOrdered ==
    ASSUME NEW T, NEW ss \in Seq(Seq(T)), NEW R,
           \A i \in DOMAIN ss : Ordered(ss[i], R),
           \A i, j \in DOMAIN ss : i < j => Before(ss[i], ss[j], R)
    PROVE  Ordered(S!FlattenSeq(ss), R)
<1>0. Len(ss) \in Nat /\ DOMAIN ss = 1..Len(ss) /\ \A i \in 1..Len(ss) : ss[i] \in Seq(T)
  OBVIOUS
<1>1. CASE Len(ss) = 0
  <2>1. S!FlattenSeq(ss) = ss /\ DOMAIN ss = {}
    BY <1>0, <1>1 DEF S!FlattenSeq
  <2> QED BY <2>1 DEF Ordered
<1>2. CASE Len(ss) # 0
  <2>1. PICK f : /\ S!FlattenSeq(ss) = f[Len(ss)]
                 /\ f[1] = ss[1]
                 /\ \A i \in 2..Len(ss) : f[i] = f[i - 1] \o ss[i]
    BY <1>2, FlattenRecursion
  <2> DEFINE Fits(n) == n + 1 <= Len(ss) =>
               /\ f[n + 1] \in Seq(T) /\ Ordered(f[n + 1], R)
               /\ \A x \in S!ToSet(f[n + 1]) : \E i \in 1..(n + 1) : x \in S!ToSet(ss[i])
             fitting == {n \in Nat : Fits(n)}
  <2>2. 0 \in fitting
    BY <1>0, <1>2, <2>1
  <2>3. ASSUME NEW n \in Nat, n \in fitting PROVE n + 1 \in fitting
    <3>1. SUFFICES ASSUME n + 2 <= Len(ss) PROVE Fits(n + 1)
      BY <1>0
    <3>2. PICK s, u, c : s = f[n + 1] /\ u = ss[n + 2] /\ c = f[n + 2]
      OBVIOUS
    <3>3. c = s \o u /\ s \in Seq(T) /\ u \in Seq(T)
      <4>1. n + 2 \in 2..Len(ss) /\ n + 2 - 1 = n + 1
        BY <1>0, <3>1
      <4>2. f[n + 2] = f[n + 1] \o ss[n + 2]
        <5>1. PICK k : k = n + 2
          OBVIOUS
        <5>2. f[k] = f[k - 1] \o ss[k]
          BY <2>1, <4>1, <5>1
        <5>3. k - 1 = n + 1
          BY <5>1
        <5> QED BY <5>1, <5>2, <5>3, Zenon
      <4>3. ss[n + 2] \in Seq(T)
        BY <1>0, <4>1
      <4> QED BY <1>0, <2>3, <3>1, <3>2, <4>1, <4>2, <4>3
    <3>4. c \in Seq(T) /\ S!ToSet(c) = S!ToSet(s) \cup S!ToSet(u)
      BY <3>3, Concatenated
    <3>5. Ordered(s, R) /\ \A x \in S!ToSet(s) : \E i \in 1..(n + 1) : x \in S!ToSet(ss[i])
      <4>1. n + 1 <= Len(ss) /\ Fits(n)
        BY <1>0, <2>3, <3>1
      <4> QED BY <3>2, <4>1
    <3>6. Ordered(u, R)
      <4>1. n + 2 \in DOMAIN ss
        BY <1>0, <3>1
      <4> QED BY <3>2, <4>1
    <3>7. Before(s, u, R)
      <4>1. SUFFICES ASSUME NEW x \in S!ToSet(s), NEW y \in S!ToSet(u) PROVE <<x, y>> \in R
        BY DEF Before
      <4>2. PICK i \in 1..(n + 1) : x \in S!ToSet(ss[i])
        BY <3>5
      <4>3. i \in DOMAIN ss /\ n + 2 \in DOMAIN ss /\ i < n + 2
        BY <1>0, <3>1
      <4>4. Before(ss[i], ss[n + 2], R)
        BY <4>3
      <4> QED BY <3>2, <4>2, <4>4 DEF Before
    <3>8. Ordered(c, R)
      BY <3>3, <3>5, <3>6, <3>7, OrderedBoth
    <3>9. \A x \in S!ToSet(c) : \E i \in 1..(n + 2) : x \in S!ToSet(ss[i])
      <4>1. 1..(n + 2) = 1..(n + 1) \cup {n + 2}
        OBVIOUS
      <4> QED BY <3>2, <3>4, <3>5, <4>1
    <3>10. n + 1 + 1 = n + 2
      OBVIOUS
    <3> QED BY <3>2, <3>4, <3>8, <3>9, <3>10
  <2>4. Nat \subseteq fitting
    <3> HIDE DEF fitting
    <3> QED BY <2>2, <2>3, NaturalSteps
  <2>5. Fits(Len(ss) - 1) /\ Len(ss) - 1 + 1 = Len(ss)
    <3>1. Len(ss) - 1 \in Nat
      BY <1>0, <1>2
    <3>2. Len(ss) - 1 \in fitting
      <4> HIDE DEF fitting
      <4> QED BY <2>4, <3>1
    <3> QED BY <1>0, <3>2
  <2> QED BY <1>0, <2>1, <2>5
<1> QED BY <1>1, <1>2

----------------------------------------------------------------------------
(* The zones and the clock                                                 *)

ZonesInv == setup \in Setups /\ zoneOf = setup.zones

\* The zones stay what they were at the start.
LEMMA ZonesInit == PipelineInit => ZonesInv
BY DEF PipelineInit, ZonesInv

\* ... through every step.
LEMMA ZonesStep ==
    ASSUME ZonesInv, [PipelineNext]_pipelineVars
    PROVE  ZonesInv' /\ setup' = setup /\ zoneOf' = zoneOf
<1>1. setup' = setup /\ zoneOf' = zoneOf
  <2>1. ASSUME NEW scene \in setup.scenes, Hold(scene) \/ Lose(scene) \/ Analyze(scene)
        PROVE  setup' = setup /\ zoneOf' = zoneOf
    BY <2>1 DEF Hold, Lose, Analyze, Read, AnalyzeFrame, rulesVars
  <2>2. ASSUME NoFrame \/ AnswerNext \/ Switch \/ NextTick
        PROVE  setup' = setup /\ zoneOf' = zoneOf
    BY <2>2 DEF NoFrame, AnswerNext, Answer, Switch, NextTick, Wait, rulesVars, ownVars
  <2>3. CASE UNCHANGED pipelineVars
    BY <2>3 DEF pipelineVars, rulesVars, ownVars
  <2> QED BY <2>1, <2>2, <2>3 DEF PipelineNext
<1> QED BY <1>1 DEF ZonesInv

ClockInv == now \in Nat

\* Time passes between frames only, one unit at a step.
LEMMA ClockStep ==
    ASSUME ClockInv, [PipelineNext]_pipelineVars
    PROVE  /\ ClockInv'
           /\ now' = now \/ (NextTick /\ now' = now + 1 /\ frame' = "none")
<1>1. ASSUME NEW scene \in setup.scenes, Hold(scene) \/ Lose(scene) \/ Analyze(scene)
      PROVE  now' = now
  BY <1>1 DEF Hold, Lose, Analyze, AnalyzeFrame, vars
<1>2. ASSUME NoFrame \/ AnswerNext \/ Switch PROVE now' = now
  <2>1. ASSUME NEW k, Fire(k) \/ Suppress(k) PROVE now' = now
    BY <2>1 DEF Fire, Suppress
  <2> QED BY <1>2, <2>1 DEF NoFrame, AnswerNext, Answer, Switch, vars
<1>3. CASE NextTick
  BY <1>3 DEF NextTick, Wait, Tick, ClockInv
<1>4. CASE UNCHANGED pipelineVars
  BY <1>4 DEF pipelineVars, vars, ClockInv
<1> QED BY <1>1, <1>2, <1>3, <1>4 DEF PipelineNext, ClockInv

----------------------------------------------------------------------------
(* The score of a zone                                                     *)

Positive(n) == IF n > 0 THEN n ELSE 0

\* A zone's score is what is left of the score it had when somebody was last seen in
\* it, at the time it was last looked at.
ScoreInv ==
    /\ score \in [Zones -> Nat]
    /\ lastUpdate \in [Zones -> Nat \cup {None}]
    /\ charged \in [Zones -> [at : Nat, score : Nat]]
    /\ \A z \in DOMAIN zoneOf :
         /\ charged[z].at <= now
         /\ lastUpdate[z] = None => score[z] = 0 /\ charged[z].score = 0
         /\ lastUpdate[z] # None =>
              /\ charged[z].at <= lastUpdate[z] /\ lastUpdate[z] <= now
              /\ score[z] = Positive(charged[z].score
                                     - zoneOf[z].decay * (lastUpdate[z] - charged[z].at))
         /\ frame = "analysed" => lastUpdate[z] = now

\* What decays in two parts decays as in one, and not below nothing.
LEMMA DecayInParts ==
    ASSUME NEW c \in Nat, NEW d \in Nat, NEW x \in Nat, NEW y \in Nat
    PROVE  Positive(Positive(c - d * x) - d * y) = Positive(c - d * (x + y))
<1>1. d * (x + y) = d * x + d * y /\ d * x \in Nat /\ d * y \in Nat
  OBVIOUS
<1>2. PICK p, q : p = d * x /\ q = d * y
  OBVIOUS
<1>3. p \in Nat /\ q \in Nat /\ d * (x + y) = p + q
  BY <1>1, <1>2
<1> QED BY <1>2, <1>3 DEF Positive

\* A product of naturals is one.
LEMMA ProductIsNatural ==
    ASSUME NEW m \in Nat, NEW n \in Nat
    PROVE  m * n \in Nat
OBVIOUS

\* What an update does to a zone's score and to what it is charged.
LEMMA ScoreUpdated ==
    ASSUME ZonesInv, ScoreInv, ClockInv, NEW z \in DOMAIN zoneOf, NEW people \in Nat
    PROVE  LET new == Smart!NewScore(z, zoneOf[z], people, now) IN
           /\ new \in Nat
           /\ people = 0 => new = Positive(charged[z].score
                                            - zoneOf[z].decay * (now - charged[z].at))
<1>1. PICK new : new = Smart!NewScore(z, zoneOf[z], people, now)
  OBVIOUS
<1>2. PICK zone, s, l, c, a : zone = zoneOf[z] /\ s = score[z] /\ l = lastUpdate[z]
                              /\ c = charged[z].score /\ a = charged[z].at
  OBVIOUS
<1>3. z \in Zones /\ {zone.relaxed, zone.strict, zone.decay} \subseteq Nat
  BY <1>2, SetupAssumption DEF ZonesInv, Smart!Settings
<1>4. s \in Nat /\ c \in Nat /\ a \in Nat /\ a <= now /\ now \in Nat
  BY <1>2, <1>3 DEF ScoreInv, ClockInv
<1>5. PICK e : e = Smart!Elapsed(z, now)
  OBVIOUS
<1>6. e \in Nat /\ (l # None => e = now - l /\ l \in Nat)
  BY <1>2, <1>3, <1>4, <1>5, SurveillanceAssumption DEF ScoreInv, Smart!Elapsed
<1>7. PICK w : w = IF Smart!Mode(zone, now) = "RELAXED" THEN zone.relaxed ELSE zone.strict
  OBVIOUS
<1>8. w \in Nat /\ people * e \in Nat /\ people * e * w \in Nat
  BY <1>3, <1>6, <1>7, ProductIsNatural
<1>9. new = IF people > 0 THEN s + people * e * w ELSE Positive(s - zone.decay * e)
  BY <1>1, <1>2, <1>5, <1>7 DEF Smart!NewScore, Positive
<1>10. zone.decay * e \in Nat
  BY <1>3, <1>6, ProductIsNatural
<1>11. new \in Nat
  <2>1. PICK p, q : p = people * e * w /\ q = zone.decay * e
    OBVIOUS
  <2>2. p \in Nat /\ q \in Nat
    BY <1>8, <1>10, <2>1
  <2>3. new = IF people > 0 THEN s + p ELSE Positive(s - q)
    BY <1>9, <2>1
  <2> QED BY <1>4, <2>2, <2>3 DEF Positive
<1>12. ASSUME people = 0 PROVE new = Positive(c - zone.decay * (now - a))
  <2>1. new = Positive(s - zone.decay * e)
    BY <1>9, <1>12
  <2>2. CASE l = None
    <3>1. s = 0 /\ c = 0
      BY <1>2, <2>2 DEF ScoreInv
    <3>2. now - a \in Nat /\ zone.decay * (now - a) \in Nat
      BY <1>3, <1>4, ProductIsNatural
    <3>3. PICK p, q : p = zone.decay * e /\ q = zone.decay * (now - a)
      OBVIOUS
    <3> QED BY <1>10, <2>1, <3>1, <3>2, <3>3 DEF Positive
  <2>3. CASE l # None
    <3>1. a <= l /\ l <= now /\ s = Positive(c - zone.decay * (l - a))
      BY <1>2, <2>3 DEF ScoreInv
    <3>2. l - a \in Nat /\ e \in Nat /\ l - a + e = now - a
      BY <1>4, <1>6, <2>3, <3>1
    <3>3. Positive(Positive(c - zone.decay * (l - a)) - zone.decay * e)
             = Positive(c - zone.decay * (l - a + e))
      BY <1>3, <1>4, <3>2, DecayInParts
    <3> QED BY <2>1, <3>1, <3>2, <3>3
  <2> QED BY <2>2, <2>3
<1> QED BY <1>1, <1>2, <1>11, <1>12

\* The values of a function on a finite set are finitely many.
LEMMA ImageIsFinite ==
    ASSUME NEW D, IsFiniteSet(D), NEW f
    PROVE  IsFiniteSet({f[x] : x \in D})
<1> DEFINE T == {f[x] : x \in D}
           g == [x \in D |-> f[x]]
<1>1. g \in Surjection(D, T)
  BY DEF Surjection
<1> HIDE DEF g, T
<1>2. IsFiniteSet(T)
  BY <1>1, FS_Surjection
<1> QED BY <1>2 DEF T

\* The confirmed tracks are a list, and so the people in a zone can be counted.
LEMMA PeopleAreCounted ==
    ASSUME NEW table, NEW z \in DOMAIN zoneOf
    PROVE  PeopleOf(ConfirmedTracks(table))[z] \in Nat
<1> DEFINE confirmed == {o \in Objects : table[o] # None /\ table[o].hits >= MinHits}
           ids == {table[o].id : o \in confirmed}
<1>1. PICK list : list = ConfirmedTracks(table)
  OBVIOUS
<1>2. IsFiniteSet(confirmed)
  <2>1. confirmed \in SUBSET Objects
    OBVIOUS
  <2> HIDE DEF confirmed
  <2> QED BY <2>1, FS_Subset, SurveillanceAssumption
<1>3. IsFiniteSet(ids)
  <2>1. PICK f : f = [o \in confirmed |-> table[o].id]
    OBVIOUS
  <2>2. IsFiniteSet({f[o] : o \in confirmed})
    <3> HIDE DEF confirmed
    <3> QED BY <1>2, ImageIsFinite
  <2>3. \A o \in confirmed : f[o] = table[o].id
    BY <2>1
  <2>4. {f[o] : o \in confirmed} = ids
    <3> HIDE DEF confirmed
    <3> QED BY <2>3
  <2> QED BY <2>2, <2>4
<1>4. Cardinality(ids) \in Nat
  <2> HIDE DEF ids
  <2> QED BY <1>3, FS_CardinalityType
<1>5. DOMAIN list = 1..Cardinality(ids)
  BY <1>1 DEF ConfirmedTracks, Ascending
<1> HIDE DEF ids
<1>6. IsFiniteSet(DOMAIN list)
  BY <1>4, <1>5, FS_Interval
<1> DEFINE there == {i \in DOMAIN list : /\ list[i].class = "person"
                                         /\ S!Contains(list[i].zones, z)}
<1>7. IsFiniteSet(there)
  <2>1. there \in SUBSET DOMAIN list
    OBVIOUS
  <2> HIDE DEF there
  <2> QED BY <1>6, <2>1, FS_Subset
<1>8. PeopleOf(list)[z] = Cardinality(there)
  BY DEF PeopleOf
<1> HIDE DEF there
<1> QED BY <1>1, <1>7, <1>8, FS_CardinalityType

\* Steps that leave the zones' states alone; they may end the tick.
LEMMA ScoreUntouched ==
    ASSUME ZonesInv, ScoreInv, ClockInv, ClockInv', zoneOf' = zoneOf,
           UNCHANGED <<score, lastUpdate, charged>>,
           \/ now' = now /\ (frame' = "analysed" => frame = "analysed")
           \/ now' = now + 1 /\ frame' = "none"
    PROVE  ScoreInv'
<1>1. now <= now' /\ now \in Int /\ now' \in Int
  BY DEF ClockInv
<1>2. ASSUME NEW z \in DOMAIN zoneOf
      PROVE  /\ charged[z].at <= now'
             /\ lastUpdate[z] = None => score[z] = 0 /\ charged[z].score = 0
             /\ lastUpdate[z] # None =>
                  /\ charged[z].at <= lastUpdate[z] /\ lastUpdate[z] <= now'
                  /\ score[z] = Positive(charged[z].score
                                         - zoneOf[z].decay * (lastUpdate[z] - charged[z].at))
             /\ frame' = "analysed" => lastUpdate[z] = now'
  <2>1. z \in Zones
    BY SetupAssumption DEF ZonesInv
  <2> QED BY <1>1, <2>1 DEF ScoreInv
<1> QED BY <1>2 DEF ScoreInv

\* An analysed frame updates every zone of the camera.
LEMMA ScoreAnalyzed ==
    ASSUME ZonesInv, ScoreInv, ClockInv, NEW scene, Analyze(scene)
    PROVE  ScoreInv'
<1>1. PICK people : people = PeopleOf(ConfirmedTracks(tracks'))
  OBVIOUS
<1>2. \A z \in DOMAIN zoneOf : people[z] \in Nat
  BY <1>1, PeopleAreCounted
<1>3. now' = now /\ zoneOf' = zoneOf /\ frame' = "analysed" /\ DOMAIN zoneOf \subseteq Zones
  BY SetupAssumption DEF Analyze, AnalyzeFrame, vars, ZonesInv
<1>4. /\ score' = [z \in Zones |-> IF z \in DOMAIN zoneOf
                                   THEN Smart!NewScore(z, zoneOf[z], people[z], now) ELSE score[z]]
      /\ lastUpdate' = [z \in Zones |-> IF z \in DOMAIN zoneOf THEN now ELSE lastUpdate[z]]
  BY <1>1 DEF Analyze, Smart!Analyze
<1>5. charged' = [z \in Zones |-> IF z \in DOMAIN zoneOf /\ people[z] > 0
                                  THEN [at |-> now, score |-> score'[z]] ELSE charged[z]]
  BY <1>1 DEF Analyze
<1>6. ASSUME NEW z \in DOMAIN zoneOf
      PROVE  /\ score'[z] \in Nat /\ lastUpdate'[z] = now /\ now # None
             /\ IF people[z] > 0
                THEN charged'[z] = [at |-> now, score |-> score'[z]]
                ELSE /\ charged'[z] = charged[z]
                     /\ score'[z] = Positive(charged[z].score
                                            - zoneOf[z].decay * (now - charged[z].at))
  <2>1. PICK new : new = Smart!NewScore(z, zoneOf[z], people[z], now)
    OBVIOUS
  <2>2. /\ new \in Nat
        /\ people[z] = 0 => new = Positive(charged[z].score
                                           - zoneOf[z].decay * (now - charged[z].at))
    BY <1>2, <2>1, ScoreUpdated
  <2>3. z \in Zones /\ score'[z] = new /\ lastUpdate'[z] = now
    BY <1>3, <1>4, <2>1
  <2>4. charged'[z] = IF people[z] > 0 THEN [at |-> now, score |-> score'[z]] ELSE charged[z]
    BY <1>5, <2>3
  <2>5. people[z] \in Nat /\ now \in Nat /\ now # None
    BY <1>2, ClockAssumption DEF ClockInv
  <2> QED BY <2>2, <2>3, <2>4, <2>5
<1>7. /\ score' \in [Zones -> Nat] /\ lastUpdate' \in [Zones -> Nat \cup {None}]
      /\ charged' \in [Zones -> [at : Nat, score : Nat]]
  <2>1. ASSUME NEW z \in Zones
        PROVE  /\ score'[z] \in Nat /\ lastUpdate'[z] \in Nat \cup {None}
               /\ charged'[z] \in [at : Nat, score : Nat]
    <3>1. CASE z \in DOMAIN zoneOf
      <4>1. charged[z] \in [at : Nat, score : Nat] /\ now \in Nat
        BY DEF ScoreInv, ClockInv
      <4>2. score'[z] \in Nat /\ lastUpdate'[z] = now
        BY <1>6, <3>1
      <4>3. charged'[z] \in {charged[z], [at |-> now, score |-> score'[z]]}
        BY <1>6, <3>1
      <4> QED BY <4>1, <4>2, <4>3
    <3>2. CASE z \notin DOMAIN zoneOf
      BY <1>4, <1>5, <3>2 DEF ScoreInv
    <3> QED BY <3>1, <3>2
  <2>2. /\ score' = [z \in Zones |-> score'[z]] /\ lastUpdate' = [z \in Zones |-> lastUpdate'[z]]
        /\ charged' = [z \in Zones |-> charged'[z]]
    BY <1>4, <1>5
  <2> QED BY <2>1, <2>2
<1>8. ASSUME NEW z \in DOMAIN zoneOf
      PROVE  /\ charged'[z].at <= now /\ lastUpdate'[z] = now /\ now # None
             /\ score'[z] = Positive(charged'[z].score - zoneOf[z].decay * (now - charged'[z].at))
  <2>1. CASE people[z] > 0
    <3>0. charged'[z] = [at |-> now, score |-> score'[z]]
      BY <1>6, <2>1
    <3>1. charged'[z].at = now /\ charged'[z].score = score'[z] /\ score'[z] \in Nat
      BY <1>6, <3>0
    <3>2. now - now = 0 /\ zoneOf[z].decay * 0 = 0 /\ now <= now
      BY SetupAssumption DEF ClockInv, ZonesInv, Smart!Settings
    <3>3. score'[z] = Positive(score'[z] - 0)
      BY <3>1 DEF Positive
    <3> QED BY <1>6, <3>1, <3>2, <3>3
  <2>2. CASE ~(people[z] > 0)
    <3>1. charged[z].at <= now
      BY DEF ScoreInv
    <3> QED BY <1>6, <2>2, <3>1
  <2> QED BY <2>1, <2>2
<1>9. ASSUME NEW z \in DOMAIN zoneOf
      PROVE  /\ charged'[z].at <= now' /\ lastUpdate'[z] # None /\ lastUpdate'[z] = now'
             /\ charged'[z].at <= lastUpdate'[z] /\ lastUpdate'[z] <= now'
             /\ score'[z] = Positive(charged'[z].score
                                    - zoneOf'[z].decay * (lastUpdate'[z] - charged'[z].at))
  <2>1. now <= now
    BY DEF ClockInv
  <2> QED BY <1>3, <1>8, <2>1
<1> QED BY <1>3, <1>7, <1>9 DEF ScoreInv

\* Every step keeps what is left of the scores.
LEMMA ScoreStep ==
    ASSUME ZonesInv, ScoreInv, ClockInv, [PipelineNext]_pipelineVars
    PROVE  ScoreInv'
<1>1. ClockInv' /\ zoneOf' = zoneOf
  BY ClockStep, ZonesStep
<1>2. ASSUME NEW scene \in setup.scenes, Hold(scene) \/ Lose(scene) PROVE ScoreInv'
  <2>1. /\ UNCHANGED <<score, lastUpdate, charged>> /\ now' = now
        /\ frame' # "analysed"
    BY <1>2 DEF Hold, Lose, vars, smartVars
  <2> QED BY <1>1, <2>1, ScoreUntouched
<1>3. ASSUME NEW scene \in setup.scenes, Analyze(scene) PROVE ScoreInv'
  BY <1>3, ScoreAnalyzed
<1>4. ASSUME NoFrame \/ Switch \/ UNCHANGED pipelineVars PROVE ScoreInv'
  <2>1. /\ UNCHANGED <<score, lastUpdate, charged>> /\ now' = now
        /\ frame' = "analysed" => frame = "analysed"
    BY <1>4 DEF NoFrame, Switch, pipelineVars, vars, smartVars, ownVars
  <2> QED BY <1>1, <2>1, ScoreUntouched
<1>5. CASE AnswerNext
  <2>1. UNCHANGED <<score, lastUpdate, charged, frame>>
    BY <1>5 DEF AnswerNext, smartVars, ownVars
  <2>2. ASSUME NEW k, Fire(k) \/ Suppress(k) PROVE now' = now
    BY <2>2 DEF Fire, Suppress
  <2>3. now' = now
    BY <1>5, <2>2 DEF AnswerNext, Answer
  <2> QED BY <1>1, <2>1, <2>3, ScoreUntouched
<1>6. CASE NextTick
  <2>1. UNCHANGED <<score, lastUpdate, charged>> /\ now' = now + 1 /\ frame' = "none"
    BY <1>6 DEF NextTick, Wait, Tick, smartVars
  <2> QED BY <1>1, <2>1, ScoreUntouched
<1> QED BY <1>2, <1>3, <1>4, <1>5, <1>6 DEF PipelineNext

\* A zone's score falls by the clock: after an analysed frame that shows nobody in it,
\* it has lost what the time since somebody was seen makes, however many of the frames
\* in between were held back or lost (_analyze_zone).
THEOREM ScoresDecay == PipelineSpec => []DecayByTheClock
<1> DEFINE Inv == ZonesInv /\ ClockInv /\ ScoreInv
<1>1. PipelineInit => Inv
  <2> SUFFICES ASSUME PipelineInit PROVE Inv
    OBVIOUS
  <2>1. ZonesInv /\ now = StartTime /\ StartTime \in Nat
    BY ZonesInit, ClockAssumption DEF PipelineInit, RulesInit, Init
  <2>2. /\ score = [z \in Zones |-> 0] /\ lastUpdate = [z \in Zones |-> None]
        /\ charged = [z \in Zones |-> [at |-> now, score |-> 0]] /\ frame = "none"
    BY DEF PipelineInit, Smart!Init
  <2>3. \A z \in DOMAIN zoneOf : z \in Zones
    BY <2>1, SetupAssumption DEF ZonesInv
  <2> QED BY <2>1, <2>2, <2>3 DEF ClockInv, ScoreInv
<1>2. Inv /\ [PipelineNext]_pipelineVars => Inv'
  BY ZonesStep, ClockStep, ScoreStep
<1>3. Inv => DecayByTheClock
  <2> SUFFICES ASSUME Inv, frame = "analysed", NEW z \in DOMAIN zoneOf
               PROVE  LET left == charged[z].score - zoneOf[z].decay * (now - charged[z].at)
                      IN  score[z] = (IF left > 0 THEN left ELSE 0)
    BY DEF DecayByTheClock
  <2>1. lastUpdate[z] = now /\ now # None
    BY ClockAssumption DEF ScoreInv, ClockInv
  <2>2. score[z] = Positive(charged[z].score - zoneOf[z].decay * (now - charged[z].at))
    BY <2>1 DEF ScoreInv
  <2> QED BY <2>2 DEF Positive
<1> QED BY <1>1, <1>2, <1>3, PTL DEF PipelineSpec

----------------------------------------------------------------------------
(* What a frame asks                                                       *)

Question == [key : Keys, base : RiskLevels, zones : SUBSET DOMAIN zoneOf]

\* A confirmed track, with what was sighted of it.
Sighted(t) ==
    /\ t.id \in 1..MaxTracks /\ t.still = FALSE /\ t.dwell = 0
    /\ \E sight \in Sightings(setup) :
          /\ t.class = sight.class /\ t.zones = sight.zones
          /\ t.fast = sight.fast /\ t.against = sight.against

\* A question comes before those of its key that are no riskier.
Falls == {pair \in Question \X Question :
            pair[1].key = pair[2].key => Risk(pair[1]) >= Risk(pair[2])}

\* A level is lowered by 3 steps at most.
LEMMA ReductionInRange ==
    ASSUME ZonesInv, NEW zones \in SUBSET DOMAIN zoneOf
    PROVE  BestReduction(zones) \in 0..3
<1>1. ASSUME NEW D \in SUBSET (0..3), 0 \in D PROVE Max(D) \in 0..3
  <2>1. \E x \in D : \A y \in D : x >= y
    <3>1. \A x \in D : x \in {0, 1, 2, 3}
      OBVIOUS
    <3> QED BY <1>1, <3>1
  <2>2. Max(D) \in D
    BY <2>1 DEF Max
  <2> QED BY <2>2
<1>2. ASSUME NEW z \in zones PROVE Reduction(zoneOf[z]) \in 0..3
  <2> DEFINE D == {0} \cup {s.reduceBy : s \in {s \in zoneOf[z].schedules : IsActive(s)}}
  <2>1. zoneOf[z].schedules \subseteq RiskSchedules
    BY SetupAssumption DEF ZonesInv, RuledZone
  <2>2. D \subseteq 0..3
    BY <2>1 DEF RiskSchedules
  <2>3. Reduction(zoneOf[z]) = Max(D)
    BY DEF Reduction
  <2> HIDE DEF D
  <2>4. 0 \in D
    BY DEF D
  <2> QED BY <1>1, <2>2, <2>3, <2>4
<1> DEFINE E == {0} \cup {Reduction(zoneOf[z]) : z \in zones}
<1>3. E \subseteq 0..3 /\ 0 \in E
  BY <1>2
<1>4. BestReduction(zones) = Max(E)
  BY DEF BestReduction
<1> HIDE DEF E
<1> QED BY <1>1, <1>3, <1>4

\* Two questions of one key and the same zones fall with what they ask for.
LEMMA RiskFalls ==
    ASSUME ZonesInv, NEW x \in Question, NEW y \in Question, x.zones = y.zones,
           x.zones \subseteq DOMAIN zoneOf, x.key = y.key => x.base >= y.base
    PROVE  <<x, y>> \in Falls
<1>1. SUFFICES ASSUME x.key = y.key PROVE Risk(x) >= Risk(y)
  BY DEF Falls
<1>2. PICK n : n = BestReduction(x.zones)
  OBVIOUS
<1>3. n \in 0..3 /\ x.base \in 0..3 /\ y.base \in 0..3
  BY <1>2, ReductionInRange DEF Question, RiskLevels, Low, Critical
<1>4. x.base >= y.base
  BY <1>1
<1>5. /\ Risk(x) = IF x.key[1] = "weapon" THEN x.base ELSE ReduceRisk(x.base, n)
      /\ Risk(y) = IF x.key[1] = "weapon" THEN y.base ELSE ReduceRisk(y.base, n)
  BY <1>1, <1>2 DEF Risk, EffectiveRisk
<1>6. ReduceRisk(x.base, n) >= ReduceRisk(y.base, n)
  BY <1>3, <1>4 DEF ReduceRisk, Low
<1> QED BY <1>4, <1>5, <1>6

\* A list is a function on its places.
LEMMA ListOf ==
    ASSUME NEW T, NEW n \in Nat, NEW s, s = [i \in 1..n |-> s[i]], \A i \in 1..n : s[i] \in T
    PROVE  s \in Seq(T) /\ Len(s) = n /\ DOMAIN s = 1..n
OBVIOUS

\* A question that is asked on a condition.
LEMMA IfAsks ==
    ASSUME NEW T, NEW c \in BOOLEAN, NEW a, c => a \in T, NEW R
    PROVE  /\ If(c, a) \in Seq(T)
           /\ \A x : x \in S!ToSet(If(c, a)) <=> c /\ x = a
           /\ Ordered(If(c, a), R)
<1>1. CASE c
  <2>1. PICK s : s = <<a>>
    OBVIOUS
  <2>2. If(c, a) = s /\ s \in Seq(T) /\ DOMAIN s = {1} /\ s[1] = a
    BY <1>1, <2>1 DEF If
  <2>3. Ordered(s, R)
    BY <2>2 DEF Ordered
  <2>4. S!ToSet(s) = {a}
    BY <2>2 DEF S!ToSet
  <2> QED BY <1>1, <2>2, <2>3, <2>4
<1>2. CASE ~c
  <2>1. If(c, a) = << >> /\ << >> \in Seq(T) /\ DOMAIN << >> = {}
    BY <1>2 DEF If
  <2> QED BY <1>2, <2>1 DEF S!ToSet, Ordered
<1> QED BY <1>1, <1>2

\* What a rule asks for is an event, of a level and a number of tracks if any.
AsksWell(rule) ==
    /\ rule.type \in EventTypes /\ rule.risk \in RiskLevels
    /\ rule.trigger \in Nat /\ rule.maxCount \in Nat \cup {None}

\* A zone's rules, its own or those of its type, are a list of rules.
LEMMA RulesAreRules ==
    ASSUME ZonesInv, NEW z \in DOMAIN zoneOf, NEW rules, rules = EffectiveRules(zoneOf[z])
    PROVE  /\ Len(rules) \in Nat /\ DOMAIN rules = 1..Len(rules)
           /\ \A i \in DOMAIN rules : AsksWell(rules[i])
<1>1. zoneOf[z].rules \in Seq(ZoneRules) /\ zoneOf[z].type \in ZoneTypes
  BY SetupAssumption DEF ZonesInv, RuledZone
<1>2. ASSUME NEW class, NEW risk \in RiskLevels, NEW type \in EventTypes
      PROVE  /\ AsksWell(Rule(class, risk, type))
             /\ AsksWell([Rule(class, risk, type) EXCEPT !.trigger = 30])
  BY <1>2 DEF Rule, AsksWell
<1>3. High \in RiskLevels /\ Medium \in RiskLevels /\ Low \in RiskLevels
  BY DEF High, Medium, Low, Critical, RiskLevels
<1>4. "intrusion" \in EventTypes /\ "person" \in EventTypes
  BY DEF EventTypes
<1>5. CASE rules = DefaultZoneRules(zoneOf[z].type)
  <2>1. PICK type : type = zoneOf[z].type
    OBVIOUS
  <2>2. CASE type = "pedestrian"
    <3>1. PICK a, b, c : /\ a = Rule("car", High, "intrusion")
                         /\ b = Rule("truck", High, "intrusion")
                         /\ c = Rule("motorcycle", Medium, "intrusion")
      OBVIOUS
    <3>2. AsksWell(a) /\ AsksWell(b) /\ AsksWell(c)
      BY <1>2, <1>3, <1>4, <3>1
    <3>3. rules = <<a, b, c>>
      BY <1>5, <2>1, <2>2, <3>1 DEF DefaultZoneRules
    <3> QED BY <3>2, <3>3
  <2>3. CASE type \in {"restricted", "parking", "perimeter", "entrance"}
    <3>1. \E a : rules = <<a>> /\ AsksWell(a)
      <4>1. CASE type = "restricted"
        BY <1>2, <1>3, <1>4, <1>5, <2>1, <4>1 DEF DefaultZoneRules
      <4>2. CASE type = "parking"
        BY <1>2, <1>3, <1>4, <1>5, <2>1, <4>2 DEF DefaultZoneRules
      <4>3. CASE type = "perimeter"
        BY <1>2, <1>3, <1>4, <1>5, <2>1, <4>3 DEF DefaultZoneRules
      <4>4. CASE type = "entrance"
        BY <1>2, <1>3, <1>4, <1>5, <2>1, <4>4 DEF DefaultZoneRules
      <4> QED BY <2>3, <4>1, <4>2, <4>3, <4>4
    <3> QED BY <3>1
  <2>4. CASE type \in {"counting_line", "safe_zone"}
    <3>1. rules = << >>
      BY <1>5, <2>1, <2>4 DEF DefaultZoneRules
    <3> QED BY <3>1
  <2> QED BY <1>1, <2>1, <2>2, <2>3, <2>4 DEF ZoneTypes
<1>6. CASE rules = zoneOf[z].rules
  <2>1. \A rule \in ZoneRules : AsksWell(rule)
    BY DEF ZoneRules, AsksWell
  <2> QED BY <1>1, <1>6, <2>1
<1> QED BY <1>5, <1>6 DEF EffectiveRules

\* One of the rules has the track fit it, and asks x.
RuleAsked(x, t, z, rules) ==
    \E i \in DOMAIN rules :
       /\ FitsClass(rules[i], t.class) /\ t.dwell >= rules[i].trigger
       /\ x = Ask(rules[i].type, t.id, z, rules[i].risk, {z})

\* What is asked of a track for the rules of a zone.
LEMMA RuleAsksMade ==
    ASSUME ZonesInv, NEW z \in DOMAIN zoneOf, NEW t, Sighted(t),
           NEW rules, rules = EffectiveRules(zoneOf[z])
    PROVE  /\ RuleAsks(t, z) \in Seq(Question)
           /\ \A x : x \in S!ToSet(RuleAsks(t, z)) <=> RuleAsked(x, t, z, rules)
           /\ RulesFall(zoneOf[z]) => Ordered(RuleAsks(t, z), Falls)
<1> DEFINE fits(i) == FitsClass(rules[i], t.class) /\ t.dwell >= rules[i].trigger
           ask(i) == Ask(rules[i].type, t.id, z, rules[i].risk, {z})
<1>1. PICK ss : ss = [i \in DOMAIN rules |-> If(fits(i), ask(i))]
  OBVIOUS
<1>2. RuleAsks(t, z) = S!FlattenSeq(ss)
  BY <1>1 DEF RuleAsks, Each
<1>3. /\ DOMAIN rules = 1..Len(rules) /\ Len(rules) \in Nat
      /\ \A i \in DOMAIN rules : AsksWell(rules[i])
  BY RulesAreRules
<1>4. z \in Zones /\ t.id \in 1..MaxTracks
  BY SetupAssumption DEF ZonesInv, Sighted
<1>5. ASSUME NEW i \in DOMAIN rules
      PROVE  fits(i) \in BOOLEAN /\ ask(i) \in Question
  <2>1. AsksWell(rules[i])
    BY <1>3
  <2>2. <<rules[i].type, t.id, z>> \in Keys
    BY <1>4, KeyAssumption DEF ZonesInv
  <2> QED BY <1>4, <2>1, <2>2 DEF Ask, Question, AsksWell, FitsClass
<1>6. ASSUME NEW i \in DOMAIN rules
      PROVE  /\ ss[i] \in Seq(Question) /\ Ordered(ss[i], Falls)
             /\ \A x : x \in S!ToSet(ss[i]) <=> fits(i) /\ x = ask(i)
  <2>1. ss[i] = If(fits(i), ask(i))
    BY <1>1
  <2> HIDE DEF fits, ask
  <2> QED BY <1>5, <2>1, IfAsks
<1>7. ss \in Seq(Seq(Question)) /\ DOMAIN ss = DOMAIN rules
  <2>1. ss = [i \in 1..Len(rules) |-> ss[i]]
    BY <1>1, <1>3
  <2>2. \A i \in 1..Len(rules) : ss[i] \in Seq(Question)
    BY <1>3, <1>6
  <2> QED BY <1>3, <2>1, <2>2, ListOf
<1>8. ASSUME RulesFall(zoneOf[z]), NEW i \in DOMAIN ss, NEW j \in DOMAIN ss, i < j
      PROVE  Before(ss[i], ss[j], Falls)
  <2>1. SUFFICES ASSUME NEW x \in S!ToSet(ss[i]), NEW y \in S!ToSet(ss[j])
                 PROVE  <<x, y>> \in Falls
    BY DEF Before
  <2>2. x = ask(i) /\ y = ask(j)
    BY <1>6, <1>7
  <2>3. /\ x \in Question /\ y \in Question /\ x.zones = {z} /\ y.zones = {z}
        /\ x.key = <<rules[i].type, t.id, z>> /\ y.key = <<rules[j].type, t.id, z>>
        /\ x.base = rules[i].risk /\ y.base = rules[j].risk
    BY <1>5, <1>7, <2>2 DEF Ask
  <2>4. x.key = y.key => x.base >= y.base
    BY <1>7, <1>8, <2>3 DEF RulesFall
  <2> QED BY <2>3, <2>4, RiskFalls
<1>9. /\ S!FlattenSeq(ss) \in Seq(Question)
      /\ \A x : x \in S!ToSet(S!FlattenSeq(ss)) <=> \E i \in DOMAIN ss : x \in S!ToSet(ss[i])
  BY <1>7, Flattened
<1>10. RulesFall(zoneOf[z]) => Ordered(S!FlattenSeq(ss), Falls)
  BY <1>6, <1>7, <1>8, FlattenOrdered
<1>11. \A x : x \in S!ToSet(S!FlattenSeq(ss)) <=> RuleAsked(x, t, z, rules)
  <2>1. \A x : RuleAsked(x, t, z, rules) <=> \E i \in DOMAIN rules : fits(i) /\ x = ask(i)
    BY DEF RuleAsked
  <2> HIDE DEF fits, ask
  <2> QED BY <1>6, <1>7, <1>9, <2>1
<1> QED BY <1>2, <1>9, <1>10, <1>11

\* What is asked of a track in one zone.
LEMMA ZoneAsked ==
    ASSUME ZonesInv, NEW z \in DOMAIN zoneOf, NEW t, Sighted(t),
           NEW s, s = RuleAsks(t, z) \o DwellAsks(t, z)
    PROVE  /\ s \in Seq(Question)
           /\ \A x \in S!ToSet(s) :
                /\ x.key[2] = t.id /\ x.key[3] = z
                /\ RulesFall(zoneOf[z]) => x.key[1] \notin {"running", "direction"}
           /\ S!ToSet(RuleAsks(t, z)) \subseteq S!ToSet(s)
           /\ RulesFall(zoneOf[z]) => Ordered(s, Falls)
<1>1. PICK rules : rules = EffectiveRules(zoneOf[z])
  OBVIOUS
<1>2. PICK a, b : a = RuleAsks(t, z) /\ b = DwellAsks(t, z)
  OBVIOUS
<1>3. /\ a \in Seq(Question)
      /\ \A x \in S!ToSet(a) : \E i \in DOMAIN rules :
            x = Ask(rules[i].type, t.id, z, rules[i].risk, {z})
      /\ RulesFall(zoneOf[z]) => Ordered(a, Falls)
  <2>1. /\ RuleAsks(t, z) \in Seq(Question)
        /\ \A x : x \in S!ToSet(RuleAsks(t, z)) <=> RuleAsked(x, t, z, rules)
        /\ RulesFall(zoneOf[z]) => Ordered(RuleAsks(t, z), Falls)
    BY <1>1, RuleAsksMade
  <2>2. \A x \in S!ToSet(a) : \E i \in DOMAIN rules :
            x = Ask(rules[i].type, t.id, z, rules[i].risk, {z})
    BY <1>2, <2>1 DEF RuleAsked
  <2> QED BY <1>2, <2>1, <2>2
<1> DEFINE stays == zoneOf[z].maxDwell \notin {None, 0} /\ t.dwell >= zoneOf[z].maxDwell
           ask == Ask("loitering", t.id, z, Medium, {z})
<1>4. /\ b \in Seq(Question) /\ Ordered(b, Falls)
      /\ \A x \in S!ToSet(b) : x = ask
  <2>1. b = If(stays, ask)
    BY <1>2 DEF DwellAsks
  <2>2. stays => ask \in Question
    <3>1. zoneOf[z].maxDwell # None => <<"loitering", t.id, z>> \in Keys
      BY KeyAssumption DEF ZonesInv, Sighted
    <3>2. z \in Zones /\ Medium \in RiskLevels
      BY SetupAssumption DEF ZonesInv, RiskLevels, Low, Medium, Critical
    <3> QED BY <3>1, <3>2 DEF Ask, Question
  <2> HIDE DEF ask
  <2>3. stays \in BOOLEAN
    OBVIOUS
  <2> HIDE DEF stays
  <2> QED BY <2>1, <2>2, <2>3, IfAsks
<1>5. /\ s \in Seq(Question) /\ S!ToSet(s) = S!ToSet(a) \cup S!ToSet(b)
  BY <1>2, <1>3, <1>4, Concatenated
<1>6. ASSUME NEW x \in S!ToSet(s)
      PROVE  /\ x.key[2] = t.id /\ x.key[3] = z
             /\ RulesFall(zoneOf[z]) => x.key[1] \notin {"running", "direction"}
  <2>1. CASE x = ask
    BY <2>1 DEF Ask
  <2>2. CASE x \in S!ToSet(a)
    <3>1. PICK i \in DOMAIN rules : x = Ask(rules[i].type, t.id, z, rules[i].risk, {z})
      BY <1>3, <2>2
    <3>2. x.key = <<rules[i].type, t.id, z>>
      BY <3>1 DEF Ask
    <3>3. RulesFall(zoneOf[z]) => rules[i].type \notin {"running", "direction"}
      BY <1>1 DEF RulesFall
    <3> QED BY <3>2, <3>3
  <2> QED BY <1>4, <1>5, <2>1, <2>2
<1>7. ASSUME RulesFall(zoneOf[z]) PROVE Before(a, b, Falls)
  <2>1. SUFFICES ASSUME NEW x \in S!ToSet(a), NEW y \in S!ToSet(b) PROVE <<x, y>> \in Falls
    BY DEF Before
  <2>2. PICK i \in DOMAIN rules : x = Ask(rules[i].type, t.id, z, rules[i].risk, {z})
    BY <1>3
  <2>3. x.key[1] = rules[i].type /\ y.key[1] = "loitering"
    BY <1>4, <2>2 DEF Ask
  <2>4. rules[i].type # "loitering"
    BY <1>1, <1>7 DEF RulesFall
  <2>5. x \in Question /\ y \in Question
    BY <1>3, <1>4 DEF S!ToSet
  <2> QED BY <2>3, <2>4, <2>5 DEF Falls
<1> QED BY <1>2, <1>3, <1>4, <1>5, <1>6, <1>7, OrderedBoth

\* A sighting is in zones of the camera, in each once.
LEMMA SightedZones ==
    ASSUME ZonesInv, NEW t, Sighted(t)
    PROVE  /\ t.zones \in Seq(DOMAIN zoneOf)
           /\ \A i, j \in DOMAIN t.zones : i < j => t.zones[i] # t.zones[j]
           /\ t.fast \in BOOLEAN
<1>1. PICK sight \in Sightings(setup) : t.zones = sight.zones /\ t.fast = sight.fast
  BY DEF Sighted
<1>2. /\ sight.zones \in Seq(DOMAIN zoneOf) /\ S!IsInjective(sight.zones)
      /\ sight.fast \in BOOLEAN
  BY SetupAssumption DEF ZonesInv
<1>3. \A i, j \in DOMAIN sight.zones : sight.zones[i] = sight.zones[j] => i = j
  BY <1>2 DEF S!IsInjective
<1>4. \A i \in DOMAIN sight.zones : i \in Int
  BY <1>2
<1>5. ASSUME NEW i \in DOMAIN sight.zones, NEW j \in DOMAIN sight.zones, i < j
      PROVE  sight.zones[i] # sight.zones[j]
  BY <1>3, <1>4, <1>5
<1> QED BY <1>1, <1>2, <1>5

AllFall == \A z \in DOMAIN zoneOf : RulesFall(zoneOf[z])

\* What is asked of a track in its zones.
LEMMA ZoneAsksMade ==
    ASSUME ZonesInv, NEW t, Sighted(t)
    PROVE  /\ ZoneAsks(t) \in Seq(Question)
           /\ \A x \in S!ToSet(ZoneAsks(t)) :
                /\ x.key[2] = t.id
                /\ AllFall => x.key[1] \notin {"running", "direction"}
           /\ \A i \in DOMAIN t.zones : zoneOf[t.zones[i]].type # "safe_zone" =>
                S!ToSet(RuleAsks(t, t.zones[i])) \subseteq S!ToSet(ZoneAsks(t))
           /\ AllFall => Ordered(ZoneAsks(t), Falls)
<1> DEFINE asks(z) == IF zoneOf[z].type = "safe_zone" THEN << >>
                      ELSE RuleAsks(t, z) \o DwellAsks(t, z)
<1>1. PICK ss : ss = [i \in DOMAIN t.zones |-> asks(t.zones[i])]
  OBVIOUS
<1>2. ZoneAsks(t) = S!FlattenSeq(ss)
  BY <1>1 DEF ZoneAsks, Each
<1>3. /\ Len(t.zones) \in Nat /\ DOMAIN t.zones = 1..Len(t.zones)
      /\ \A i \in DOMAIN t.zones : t.zones[i] \in DOMAIN zoneOf
      /\ \A i, j \in DOMAIN t.zones : i < j => t.zones[i] # t.zones[j]
  BY SightedZones
<1>4. ASSUME NEW i \in DOMAIN t.zones
      PROVE  /\ ss[i] \in Seq(Question)
             /\ \A x \in S!ToSet(ss[i]) :
                  /\ x.key[2] = t.id /\ x.key[3] = t.zones[i]
                  /\ AllFall => x.key[1] \notin {"running", "direction"}
             /\ zoneOf[t.zones[i]].type # "safe_zone" =>
                  S!ToSet(RuleAsks(t, t.zones[i])) \subseteq S!ToSet(ss[i])
             /\ AllFall => Ordered(ss[i], Falls)
  <2>1. PICK z \in DOMAIN zoneOf : z = t.zones[i]
    BY <1>3
  <2>2. CASE zoneOf[z].type = "safe_zone"
    <3>1. ss[i] = << >> /\ DOMAIN ss[i] = {} /\ S!ToSet(ss[i]) = {}
      BY <1>1, <2>1, <2>2 DEF S!ToSet
    <3> QED BY <2>1, <2>2, <3>1 DEF Ordered
  <2>3. CASE zoneOf[z].type # "safe_zone"
    <3>1. ss[i] = RuleAsks(t, z) \o DwellAsks(t, z)
      BY <1>1, <2>1, <2>3
    <3>2. /\ ss[i] \in Seq(Question)
          /\ \A x \in S!ToSet(ss[i]) :
               /\ x.key[2] = t.id /\ x.key[3] = z
               /\ RulesFall(zoneOf[z]) => x.key[1] \notin {"running", "direction"}
          /\ S!ToSet(RuleAsks(t, z)) \subseteq S!ToSet(ss[i])
          /\ RulesFall(zoneOf[z]) => Ordered(ss[i], Falls)
      BY <3>1, ZoneAsked
    <3> QED BY <2>1, <3>2 DEF AllFall
  <2> QED BY <2>2, <2>3
<1>5. ss \in Seq(Seq(Question)) /\ DOMAIN ss = DOMAIN t.zones
  <2>1. ss = [i \in 1..Len(t.zones) |-> ss[i]]
    BY <1>1, <1>3
  <2>2. \A i \in 1..Len(t.zones) : ss[i] \in Seq(Question)
    BY <1>3, <1>4
  <2> QED BY <1>3, <2>1, <2>2, ListOf
<1>6. ASSUME NEW i \in DOMAIN ss, NEW j \in DOMAIN ss, i < j
      PROVE  Before(ss[i], ss[j], Falls)
  <2>1. SUFFICES ASSUME NEW x \in S!ToSet(ss[i]), NEW y \in S!ToSet(ss[j])
                 PROVE  <<x, y>> \in Falls
    BY DEF Before
  <2>2. x.key[3] = t.zones[i] /\ y.key[3] = t.zones[j] /\ t.zones[i] # t.zones[j]
    BY <1>3, <1>4, <1>5, <1>6
  <2>3. x \in Question /\ y \in Question
    BY <1>4, <1>5 DEF S!ToSet
  <2> QED BY <2>2, <2>3 DEF Falls
<1>7. /\ S!FlattenSeq(ss) \in Seq(Question)
      /\ \A x : x \in S!ToSet(S!FlattenSeq(ss)) <=> \E i \in DOMAIN ss : x \in S!ToSet(ss[i])
  BY <1>5, Flattened
<1>8. AllFall => Ordered(S!FlattenSeq(ss), Falls)
  BY <1>4, <1>5, <1>6, FlattenOrdered
<1>9. ASSUME NEW i \in DOMAIN t.zones, zoneOf[t.zones[i]].type # "safe_zone"
      PROVE  S!ToSet(RuleAsks(t, t.zones[i])) \subseteq S!ToSet(S!FlattenSeq(ss))
  BY <1>4, <1>5, <1>7, <1>9
<1>10. \A x \in S!ToSet(S!FlattenSeq(ss)) :
          /\ x.key[2] = t.id
          /\ AllFall => x.key[1] \notin {"running", "direction"}
  BY <1>4, <1>5, <1>7
<1> QED BY <1>2, <1>7, <1>8, <1>9, <1>10

\* What is asked of the ways a track moves in its zones.
LEMMA DirectionAsksMade ==
    ASSUME ZonesInv, NEW t, Sighted(t)
    PROVE  /\ DirectionAsks(t) \in Seq(Question)
           /\ \A x \in S!ToSet(DirectionAsks(t)) : x.key[1] = "direction" /\ x.key[2] = t.id
           /\ Ordered(DirectionAsks(t), Falls)
<1> DEFINE against(z) == z \in t.against
           ask(z) == Ask("direction", t.id, z, Medium, {z})
<1>1. PICK ss : ss = [i \in DOMAIN t.zones |-> If(against(t.zones[i]), ask(t.zones[i]))]
  OBVIOUS
<1>2. DirectionAsks(t) = S!FlattenSeq(ss)
  BY <1>1 DEF DirectionAsks, Each
<1>3. /\ Len(t.zones) \in Nat /\ DOMAIN t.zones = 1..Len(t.zones)
      /\ \A i \in DOMAIN t.zones : t.zones[i] \in DOMAIN zoneOf
      /\ \A i, j \in DOMAIN t.zones : i < j => t.zones[i] # t.zones[j]
  BY SightedZones
<1>4. ASSUME NEW i \in DOMAIN t.zones
      PROVE  /\ ss[i] \in Seq(Question) /\ Ordered(ss[i], Falls)
             /\ \A x \in S!ToSet(ss[i]) : x.key = <<"direction", t.id, t.zones[i]>>
  <2>1. PICK z \in DOMAIN zoneOf : z = t.zones[i]
    BY <1>3
  <2>2. against(z) => ask(z) \in Question
    <3>1. PICK sight \in Sightings(setup) : t.zones = sight.zones /\ t.against = sight.against
      BY DEF Sighted
    <3>2. against(z) => <<"direction", t.id, z>> \in Keys
      <4>1. z \in {sight.zones[k] : k \in DOMAIN sight.zones}
        BY <2>1, <3>1
      <4> QED BY <3>1, <4>1, KeyAssumption DEF ZonesInv, Sighted
    <3>3. z \in Zones /\ Medium \in RiskLevels
      BY SetupAssumption DEF ZonesInv, RiskLevels, Low, Medium, Critical
    <3> QED BY <3>2, <3>3 DEF Ask, Question
  <2>3. ss[i] = If(against(z), ask(z))
    BY <1>1, <2>1
  <2>4. ask(z).key = <<"direction", t.id, t.zones[i]>>
    BY <2>1 DEF Ask
  <2>5. against(z) \in BOOLEAN
    OBVIOUS
  <2> HIDE DEF against, ask
  <2>6. /\ ss[i] \in Seq(Question) /\ Ordered(ss[i], Falls)
        /\ \A x : x \in S!ToSet(ss[i]) <=> against(z) /\ x = ask(z)
    BY <2>2, <2>3, <2>5, IfAsks
  <2> QED BY <2>4, <2>6
<1>5. ss \in Seq(Seq(Question)) /\ DOMAIN ss = DOMAIN t.zones
  <2>1. ss = [i \in 1..Len(t.zones) |-> ss[i]]
    BY <1>1, <1>3
  <2>2. \A i \in 1..Len(t.zones) : ss[i] \in Seq(Question)
    BY <1>3, <1>4
  <2> QED BY <1>3, <2>1, <2>2, ListOf
<1>6. ASSUME NEW i \in DOMAIN ss, NEW j \in DOMAIN ss, i < j
      PROVE  Before(ss[i], ss[j], Falls)
  <2>1. SUFFICES ASSUME NEW x \in S!ToSet(ss[i]), NEW y \in S!ToSet(ss[j])
                 PROVE  <<x, y>> \in Falls
    BY DEF Before
  <2>2. /\ x.key = <<"direction", t.id, t.zones[i]>> /\ y.key = <<"direction", t.id, t.zones[j]>>
        /\ t.zones[i] # t.zones[j]
    BY <1>3, <1>4, <1>5, <1>6
  <2>3. x \in Question /\ y \in Question
    BY <1>4, <1>5 DEF S!ToSet
  <2> QED BY <2>2, <2>3 DEF Falls
<1>7. /\ S!FlattenSeq(ss) \in Seq(Question)
      /\ \A x : x \in S!ToSet(S!FlattenSeq(ss)) <=> \E i \in DOMAIN ss : x \in S!ToSet(ss[i])
  BY <1>5, Flattened
<1>8. Ordered(S!FlattenSeq(ss), Falls)
  BY <1>4, <1>5, <1>6, FlattenOrdered
<1>9. \A x \in S!ToSet(S!FlattenSeq(ss)) : x.key[1] = "direction" /\ x.key[2] = t.id
  BY <1>4, <1>5, <1>7
<1> QED BY <1>2, <1>7, <1>8, <1>9

\* What is asked of a track's behaviour, unless it is of no interest.
LEMMA BehavioralAsksMade ==
    ASSUME ZonesInv, NEW t, Sighted(t), ~(EventsOnlyInZones /\ t.zones = << >>)
    PROVE  /\ BehavioralAsks(t) \in Seq(Question)
           /\ \A x \in S!ToSet(BehavioralAsks(t)) :
                x.key[1] \in {"running", "direction"} /\ x.key[2] = t.id
           /\ Ordered(BehavioralAsks(t), Falls)
<1> DEFINE runs == t.class = "person" /\ t.fast
           left == t.class \in AbandonedClasses /\ t.still
           run == BehaviorAsk("running", t, Medium)
           leave == BehaviorAsk("abandoned", t, High)
<1>1. PICK a, b, c : a = If(runs, run) /\ b = DirectionAsks(t) /\ c = If(left, leave)
  OBVIOUS
<1>2. BehavioralAsks(t) = a \o b \o c
  BY <1>1 DEF BehavioralAsks
<1>3. run.key[1] = "running" /\ run.key[2] = t.id
  BY DEF BehaviorAsk, Ask
<1>4. runs => run \in Question
  <2>1. PICK sight \in Sightings(setup) :
            t.class = sight.class /\ t.zones = sight.zones /\ t.fast = sight.fast
    BY DEF Sighted
  <2>2. PICK zones : zones = {t.zones[i] : i \in DOMAIN t.zones}
    OBVIOUS
  <2>3. /\ t.zones \in Seq(DOMAIN zoneOf) /\ (t.zones = << >> <=> zones = {})
        /\ zones \subseteq DOMAIN zoneOf
    <3>1. t.zones \in Seq(DOMAIN zoneOf)
      BY SightedZones
    <3>2. PICK list : list = t.zones
      OBVIOUS
    <3>3. list \in Seq(DOMAIN zoneOf) /\ zones = {list[i] : i \in DOMAIN list}
      BY <2>2, <3>1, <3>2
    <3>4. list = << >> <=> DOMAIN list = {}
      BY <3>3
    <3>5. zones = {} <=> DOMAIN list = {}
      BY <3>3
    <3>6. \A i \in DOMAIN list : list[i] \in DOMAIN zoneOf
      BY <3>3
    <3> QED BY <3>1, <3>2, <3>3, <3>4, <3>5, <3>6
  <2>4. runs /\ (EventsOnlyInZones => zones # {}) =>
            <<"running", t.id, IF zones = {} THEN None ELSE t.zones[1]>> \in Keys
    <3>1. zones = {sight.zones[i] : i \in DOMAIN sight.zones}
      BY <2>1, <2>2
    <3>2. LET there == {sight.zones[i] : i \in DOMAIN sight.zones} IN
          sight.class = "person" /\ sight.fast /\ (EventsOnlyInZones => there # {}) =>
            <<"running", t.id, IF there = {} THEN None ELSE sight.zones[1]>> \in Keys
      BY <2>1, KeyAssumption DEF ZonesInv, Sighted
    <3> QED BY <2>1, <3>1, <3>2
  <2>5. run = [key |-> <<"running", t.id, IF zones = {} THEN None ELSE t.zones[1]>>,
               base |-> Medium, zones |-> zones]
    BY <2>2, <2>3 DEF BehaviorAsk, Ask
  <2>6. Medium \in RiskLevels
    BY DEF RiskLevels, Low, Medium, Critical
  <2> HIDE DEF run, runs
  <2> QED BY <2>3, <2>4, <2>5, <2>6 DEF Question
<1>5. runs \in BOOLEAN /\ left = FALSE
  BY SightedZones DEF Sighted
<1> HIDE DEF runs, left, run, leave
<1>6. /\ a \in Seq(Question) /\ Ordered(a, Falls)
      /\ \A x : x \in S!ToSet(a) <=> runs /\ x = run
  BY <1>1, <1>4, <1>5, IfAsks
<1>7. /\ b \in Seq(Question) /\ Ordered(b, Falls)
      /\ \A x \in S!ToSet(b) : x.key[1] = "direction" /\ x.key[2] = t.id
  BY <1>1, DirectionAsksMade
<1>8. c = << >>
  BY <1>1, <1>5 DEF If
<1>9. a \o b \in Seq(Question) /\ a \o b \o c = a \o b
  BY <1>6, <1>7, <1>8
<1>10. Before(a, b, Falls)
  <2>1. SUFFICES ASSUME NEW x \in S!ToSet(a), NEW y \in S!ToSet(b) PROVE <<x, y>> \in Falls
    BY DEF Before
  <2>2. x.key[1] = "running" /\ y.key[1] = "direction"
    BY <1>3, <1>6, <1>7
  <2>3. x \in Question /\ y \in Question
    BY <1>6, <1>7 DEF S!ToSet
  <2> QED BY <2>2, <2>3 DEF Falls
<1>11. Ordered(a \o b, Falls)
  BY <1>6, <1>7, <1>10, OrderedBoth
<1>12. S!ToSet(a \o b) = S!ToSet(a) \cup S!ToSet(b)
  BY <1>6, <1>7, Concatenated
<1>13. \A x \in S!ToSet(a \o b) : x.key[1] \in {"running", "direction"} /\ x.key[2] = t.id
  BY <1>3, <1>6, <1>7, <1>12
<1> QED BY <1>2, <1>9, <1>11, <1>13

\* What is asked of the crowd in a zone.
LEMMA CrowdingAsksMade ==
    ASSUME ZonesInv, NEW z \in DOMAIN zoneOf, MaxTracks >= 1, NEW list
    PROVE  /\ CrowdingAsks(list, z) \in Seq(Question)
           /\ \A x \in S!ToSet(CrowdingAsks(list, z)) : x.key = <<"crowding", None, z>>
           /\ AllFall => Ordered(CrowdingAsks(list, z), Falls)
<1>0. PICK rules : rules = EffectiveRules(zoneOf[z])
  OBVIOUS
<1> DEFINE crowded(i) == /\ rules[i].maxCount # None
                         /\ Count(list, z, rules[i].class) > rules[i].maxCount
           ask(i) == Ask("crowding", None, z, rules[i].risk, {z})
<1>1. PICK ss : ss = [i \in DOMAIN rules |-> If(crowded(i), ask(i))]
  OBVIOUS
<1>2. CrowdingAsks(list, z) = S!FlattenSeq(ss)
  BY <1>0, <1>1 DEF CrowdingAsks, Each
<1>3. /\ DOMAIN rules = 1..Len(rules) /\ Len(rules) \in Nat
      /\ \A i \in DOMAIN rules : AsksWell(rules[i])
  BY <1>0, RulesAreRules
<1>4. z \in Zones /\ 1 \in 1..MaxTracks
  BY SetupAssumption, SurveillanceAssumption DEF ZonesInv
<1>5. ASSUME NEW i \in DOMAIN rules
      PROVE  /\ crowded(i) \in BOOLEAN
             /\ crowded(i) => ask(i) \in Question /\ rules[i].maxCount # None
  <2>1. rules[i].risk \in RiskLevels
    BY <1>3 DEF AsksWell
  <2>2. rules[i].maxCount # None => <<"crowding", None, z>> \in Keys
    BY <1>0, <1>4, KeyAssumption DEF ZonesInv
  <2> QED BY <1>4, <2>1, <2>2 DEF Ask, Question
<1>6. ASSUME NEW i \in DOMAIN rules
      PROVE  /\ ss[i] \in Seq(Question) /\ Ordered(ss[i], Falls)
             /\ \A x : x \in S!ToSet(ss[i]) <=> crowded(i) /\ x = ask(i)
  <2>1. ss[i] = If(crowded(i), ask(i))
    BY <1>1
  <2> HIDE DEF crowded, ask
  <2> QED BY <1>5, <2>1, IfAsks
<1>7. ss \in Seq(Seq(Question)) /\ DOMAIN ss = DOMAIN rules
  <2>1. ss = [i \in 1..Len(rules) |-> ss[i]]
    BY <1>1, <1>3
  <2>2. \A i \in 1..Len(rules) : ss[i] \in Seq(Question)
    BY <1>3, <1>6
  <2> QED BY <1>3, <2>1, <2>2, ListOf
<1>8. ASSUME AllFall, NEW i \in DOMAIN ss, NEW j \in DOMAIN ss, i < j
      PROVE  Before(ss[i], ss[j], Falls)
  <2>1. SUFFICES ASSUME NEW x \in S!ToSet(ss[i]), NEW y \in S!ToSet(ss[j])
                 PROVE  <<x, y>> \in Falls
    BY DEF Before
  <2>2. /\ x = ask(i) /\ y = ask(j) /\ x \in Question /\ y \in Question
        /\ rules[i].maxCount # None /\ rules[j].maxCount # None
    <3>1. i \in DOMAIN rules /\ j \in DOMAIN rules
      BY <1>7
    <3> HIDE DEF crowded, ask
    <3>2. x = ask(i) /\ y = ask(j) /\ crowded(i) /\ crowded(j)
      BY <1>6, <3>1
    <3> QED BY <1>5, <3>1, <3>2
  <2>3. /\ x.zones = {z} /\ y.zones = {z} /\ x.base = rules[i].risk /\ y.base = rules[j].risk
    BY <2>2 DEF Ask
  <2>4. RulesFall(zoneOf[z])
    BY <1>8 DEF AllFall
  <2>5. rules[i].risk >= rules[j].risk
    BY <1>0, <1>7, <1>8, <2>2, <2>4 DEF RulesFall
  <2> QED BY <2>2, <2>3, <2>5, RiskFalls
<1>9. /\ S!FlattenSeq(ss) \in Seq(Question)
      /\ \A x : x \in S!ToSet(S!FlattenSeq(ss)) <=> \E i \in DOMAIN ss : x \in S!ToSet(ss[i])
  BY <1>7, Flattened
<1>10. AllFall => Ordered(S!FlattenSeq(ss), Falls)
  BY <1>6, <1>7, <1>8, FlattenOrdered
<1>11. \A i \in DOMAIN rules : ask(i).key = <<"crowding", None, z>>
  BY DEF Ask
<1>12. \A x \in S!ToSet(S!FlattenSeq(ss)) : x.key = <<"crowding", None, z>>
  <2> HIDE DEF crowded, ask
  <2> QED BY <1>6, <1>7, <1>9, <1>11
<1> QED BY <1>2, <1>9, <1>10, <1>12

\* A finite set as a list: each of its members once.
LEMMA SetListed ==
    ASSUME NEW D, IsFiniteSet(D)
    PROVE  /\ S!SetToSeq(D) \in Seq(D)
           /\ \A i, j \in DOMAIN S!SetToSeq(D) :
                 i < j => S!SetToSeq(D)[i] # S!SetToSeq(D)[j]
<1>1. PICK n : n = Cardinality(D)
  OBVIOUS
<1>2. n \in Nat /\ ExistsBijection(1..n, D)
  BY <1>1, FS_CardinalityType
<1>3. PICK g \in [1..n -> D] : S!IsInjective(g)
  <2>1. PICK g : g \in Bijection(1..n, D)
    BY <1>2 DEF ExistsBijection
  <2>2. g \in [1..n -> D] /\ \A a, b \in 1..n : g[a] = g[b] => a = b
    BY <2>1 DEF Bijection, Injection, IsInjective
  <2> QED BY <2>2 DEF S!IsInjective
<1>4. PICK f : f = S!SetToSeq(D)
  OBVIOUS
<1>5. S!Cardinality(D) = n
  BY <1>1 DEF S!Cardinality, Cardinality
<1>6. f \in [1..n -> D] /\ S!IsInjective(f)
  <2>1. f = CHOOSE h \in [1..S!Cardinality(D) -> D] : S!IsInjective(h)
    BY <1>4, Zenon DEF S!SetToSeq
  <2> QED BY <1>3, <1>5, <2>1
<1>7. f \in Seq(D) /\ DOMAIN f = 1..n
  BY <1>2, <1>6
<1>8. \A i, j \in DOMAIN f : f[i] = f[j] => i = j
  BY <1>6 DEF S!IsInjective
<1>9. ASSUME NEW i \in DOMAIN f, NEW j \in DOMAIN f, i < j PROVE f[i] # f[j]
  BY <1>2, <1>7, <1>8, <1>9
<1> QED BY <1>4, <1>7, <1>9

\* A list of confirmed tracks, each once.
TrackList(list) ==
    /\ Len(list) \in Nat /\ DOMAIN list = 1..Len(list)
    /\ \A i \in DOMAIN list : Sighted(list[i])
    /\ \A i, j \in DOMAIN list : i < j => list[i].id # list[j].id

\* The entries of a list are of its type.
LEMMA ListEntries ==
    ASSUME NEW T, NEW s \in Seq(T)
    PROVE  \A x \in S!ToSet(s) : x \in T
BY DEF S!ToSet

\* Each list has questions about the track in its place, of these types and in order.
AskedInTurn(ss, list, good, types) ==
    /\ DOMAIN ss = DOMAIN list
    /\ \A i \in DOMAIN list :
         /\ ss[i] \in Seq(Question)
         /\ \A x \in S!ToSet(ss[i]) : x.key[2] = list[i].id /\ (good => x.key[1] \in types)
         /\ good => Ordered(ss[i], Falls)

\* What is asked of each track in turn: questions of one key are of one track.
LEMMA TracksAsked ==
    ASSUME NEW list, TrackList(list), NEW ss, ss = [i \in DOMAIN list |-> ss[i]],
           NEW good \in BOOLEAN, NEW types, AskedInTurn(ss, list, good, types)
    PROVE  /\ S!FlattenSeq(ss) \in Seq(Question)
           /\ \A x \in S!ToSet(S!FlattenSeq(ss)) :
                 x.key[2] \in Int /\ (good => x.key[1] \in types)
           /\ good => Ordered(S!FlattenSeq(ss), Falls)
           /\ \A i \in DOMAIN list : S!ToSet(ss[i]) \subseteq S!ToSet(S!FlattenSeq(ss))
<1>0. \A i \in DOMAIN list :
         /\ ss[i] \in Seq(Question)
         /\ \A x \in S!ToSet(ss[i]) : x.key[2] = list[i].id /\ (good => x.key[1] \in types)
         /\ good => Ordered(ss[i], Falls)
  BY DEF AskedInTurn
<1>1. ss \in Seq(Seq(Question)) /\ DOMAIN ss = DOMAIN list
  <2>1. ss = [i \in 1..Len(list) |-> ss[i]]
    BY DEF TrackList
  <2>2. \A i \in 1..Len(list) : ss[i] \in Seq(Question)
    BY <1>0 DEF TrackList
  <2>3. Len(list) \in Nat /\ DOMAIN list = 1..Len(list)
    BY DEF TrackList
  <2> QED BY <2>1, <2>2, <2>3, ListOf
<1>2. ASSUME NEW i \in DOMAIN ss, NEW j \in DOMAIN ss, i < j PROVE Before(ss[i], ss[j], Falls)
  <2>1. SUFFICES ASSUME NEW x \in S!ToSet(ss[i]), NEW y \in S!ToSet(ss[j])
                 PROVE  <<x, y>> \in Falls
    BY DEF Before
  <2>2. x.key[2] = list[i].id /\ y.key[2] = list[j].id
    BY <1>0, <1>1
  <2>3. list[i].id # list[j].id
    BY <1>1, <1>2 DEF TrackList
  <2>4. x \in Question /\ y \in Question
    BY <1>0, <1>1, ListEntries
  <2> QED BY <2>2, <2>3, <2>4 DEF Falls
<1>3. /\ S!FlattenSeq(ss) \in Seq(Question)
      /\ \A x : x \in S!ToSet(S!FlattenSeq(ss)) <=> \E i \in DOMAIN ss : x \in S!ToSet(ss[i])
  BY <1>1, Flattened
<1>4. good => Ordered(S!FlattenSeq(ss), Falls)
  BY <1>0, <1>1, <1>2, FlattenOrdered
<1>5. ASSUME NEW x \in S!ToSet(S!FlattenSeq(ss))
      PROVE  x.key[2] \in Int /\ (good => x.key[1] \in types)
  <2>1. PICK i \in DOMAIN list : x \in S!ToSet(ss[i])
    BY <1>1, <1>3
  <2>2. list[i].id \in 1..MaxTracks
    BY DEF TrackList, Sighted
  <2>3. list[i].id \in Int
    BY <2>2
  <2> QED BY <1>0, <2>1, <2>3
<1>6. \A i \in DOMAIN list : S!ToSet(ss[i]) \subseteq S!ToSet(S!FlattenSeq(ss))
  BY <1>1, <1>3
<1> QED BY <1>3, <1>4, <1>5, <1>6

\* No track is asked about for a weapon.
LEMMA NoWeaponAsks ==
    ASSUME NEW list, TrackList(list)
    PROVE  Each(list, WeaponAsks) = << >>
<1>1. PICK ss : ss = [i \in DOMAIN list |-> WeaponAsks(list[i])]
  OBVIOUS
<1>2. Each(list, WeaponAsks) = S!FlattenSeq(ss)
  BY <1>1 DEF Each
<1>3. \A i \in DOMAIN list : ss[i] = << >>
  BY <1>1 DEF WeaponAsks, WeaponClasses, If
<1>4. ss \in Seq(Seq({})) /\ DOMAIN ss = DOMAIN list
  <2>1. ss = [i \in 1..Len(list) |-> ss[i]] /\ Len(list) \in Nat /\ DOMAIN list = 1..Len(list)
    BY <1>1 DEF TrackList
  <2>2. \A i \in 1..Len(list) : ss[i] \in Seq({})
    <3>1. << >> \in Seq({})
      OBVIOUS
    <3> QED BY <1>3, <2>1, <3>1, Zenon
  <2> QED BY <2>1, <2>2, ListOf
<1>5. S!FlattenSeq(ss) \in Seq({})
  BY <1>4, Flattened
<1> QED BY <1>2, <1>5

\* What the rules of the track's zones ask of it is in the list; a safe zone asks nothing.
ZonesAsked(t, s) ==
    \A i \in DOMAIN t.zones : zoneOf[t.zones[i]].type # "safe_zone" =>
       S!ToSet(RuleAsks(t, t.zones[i])) \subseteq S!ToSet(s)

\* What is asked of the zones of all the tracks.
LEMMA AllZoneAsksMade ==
    ASSUME ZonesInv, NEW list, TrackList(list), NEW s, s = EachReported(list, ZoneAsks)
    PROVE  /\ s \in Seq(Question)
           /\ \A x \in S!ToSet(s) :
                x.key[2] \in Int /\ (AllFall => x.key[1] \notin {"running", "direction"})
           /\ AllFall => Ordered(s, Falls)
           /\ \A i \in DOMAIN list : ZonesAsked(list[i], s)
<1> DEFINE asks(t) == IF EventsOnlyInZones /\ t.zones = << >> THEN << >> ELSE ZoneAsks(t)
<1>1. PICK ss : ss = [i \in DOMAIN list |-> asks(list[i])]
  OBVIOUS
<1>2. s = S!FlattenSeq(ss)
  BY <1>1 DEF EachReported, Each
<1>3. PICK types : \A k \in Keys : k[1] \in types <=> k[1] \notin {"running", "direction"}
  <2>1. PICK all : all = {k[1] : k \in Keys}
    OBVIOUS
  <2>2. PICK types : types = all \ {"running", "direction"}
    OBVIOUS
  <2> QED BY <2>1, <2>2
<1>4. ASSUME NEW i \in DOMAIN list
      PROVE  /\ ss[i] \in Seq(Question)
             /\ \A x \in S!ToSet(ss[i]) : x.key[2] = list[i].id /\ (AllFall => x.key[1] \in types)
             /\ AllFall => Ordered(ss[i], Falls)
  <2>1. Sighted(list[i])
    BY DEF TrackList
  <2>2. CASE ss[i] = << >>
    <3>1. DOMAIN ss[i] = {} /\ << >> \in Seq(Question)
      BY <2>2
    <3> QED BY <2>2, <3>1 DEF S!ToSet, Ordered
  <2>3. CASE ss[i] = ZoneAsks(list[i])
    <3>1. /\ ss[i] \in Seq(Question)
          /\ \A x \in S!ToSet(ss[i]) :
                /\ x.key[2] = list[i].id
                /\ AllFall => x.key[1] \notin {"running", "direction"}
          /\ AllFall => Ordered(ss[i], Falls)
      BY <2>1, <2>3, ZoneAsksMade
    <3>2. \A x \in S!ToSet(ss[i]) : x \in Question
      BY <3>1, ListEntries
    <3>3. \A x \in S!ToSet(ss[i]) : x.key \in Keys
      BY <3>2 DEF Question
    <3> QED BY <1>3, <3>1, <3>3
  <2> QED BY <1>1, <2>2, <2>3
<1>5. PICK good \in BOOLEAN : good <=> AllFall
  BY DEF AllFall
<1>6. ss = [i \in DOMAIN list |-> ss[i]] /\ AskedInTurn(ss, list, good, types)
  BY <1>1, <1>4, <1>5 DEF AskedInTurn
<1>7. /\ s \in Seq(Question)
      /\ \A x \in S!ToSet(s) : x.key[2] \in Int /\ (good => x.key[1] \in types)
      /\ good => Ordered(s, Falls)
      /\ \A i \in DOMAIN list : S!ToSet(ss[i]) \subseteq S!ToSet(s)
  BY <1>2, <1>6, TracksAsked
<1>8. \A x \in S!ToSet(s) : x.key \in Keys
  <2>1. \A x \in S!ToSet(s) : x \in Question
    BY <1>7, ListEntries
  <2> QED BY <2>1 DEF Question
<1>9. ASSUME NEW i \in DOMAIN list PROVE ZonesAsked(list[i], s)
  <2>1. PICK t : t = list[i]
    OBVIOUS
  <2>2. Sighted(t)
    BY <2>1 DEF TrackList
  <2>3. CASE t.zones = << >>
    <3>1. DOMAIN t.zones = {}
      BY <2>3
    <3> QED BY <2>1, <3>1 DEF ZonesAsked
  <2>4. CASE t.zones # << >>
    <3>1. ss[i] = ZoneAsks(t)
      BY <1>1, <2>1, <2>4
    <3>2. \A j \in DOMAIN t.zones : zoneOf[t.zones[j]].type # "safe_zone" =>
             S!ToSet(RuleAsks(t, t.zones[j])) \subseteq S!ToSet(ss[i])
      BY <2>2, <3>1, ZoneAsksMade
    <3>3. S!ToSet(ss[i]) \subseteq S!ToSet(s)
      BY <1>7
    <3> QED BY <2>1, <3>2, <3>3 DEF ZonesAsked
  <2> QED BY <2>3, <2>4
<1> QED BY <1>3, <1>5, <1>7, <1>8, <1>9

\* What is asked of the behaviour of all the tracks.
LEMMA AllBehavioralAsksMade ==
    ASSUME ZonesInv, NEW list, TrackList(list), NEW s, s = EachReported(list, BehavioralAsks)
    PROVE  /\ s \in Seq(Question)
           /\ \A x \in S!ToSet(s) : x.key[2] \in Int /\ x.key[1] \in {"running", "direction"}
           /\ Ordered(s, Falls)
<1> DEFINE asks(t) == IF EventsOnlyInZones /\ t.zones = << >> THEN << >> ELSE BehavioralAsks(t)
<1>1. PICK ss : ss = [i \in DOMAIN list |-> asks(list[i])]
  OBVIOUS
<1>2. s = S!FlattenSeq(ss)
  BY <1>1 DEF EachReported, Each
<1>3. ASSUME NEW i \in DOMAIN list
      PROVE  /\ ss[i] \in Seq(Question)
             /\ \A x \in S!ToSet(ss[i]) :
                   x.key[2] = list[i].id /\ x.key[1] \in {"running", "direction"}
             /\ Ordered(ss[i], Falls)
  <2>1. Sighted(list[i])
    BY DEF TrackList
  <2>2. CASE EventsOnlyInZones /\ list[i].zones = << >>
    <3>1. ss[i] = << >> /\ DOMAIN ss[i] = {} /\ << >> \in Seq(Question)
      BY <1>1, <2>2
    <3> QED BY <3>1 DEF S!ToSet, Ordered
  <2>3. CASE ~(EventsOnlyInZones /\ list[i].zones = << >>)
    <3>1. ss[i] = BehavioralAsks(list[i])
      BY <1>1, <2>3
    <3> QED BY <2>1, <2>3, <3>1, BehavioralAsksMade
  <2> QED BY <2>2, <2>3
<1>4. /\ ss = [i \in DOMAIN list |-> ss[i]]
      /\ AskedInTurn(ss, list, TRUE, {"running", "direction"})
  BY <1>1, <1>3 DEF AskedInTurn
<1>5. /\ s \in Seq(Question)
      /\ \A x \in S!ToSet(s) :
            x.key[2] \in Int /\ (TRUE => x.key[1] \in {"running", "direction"})
      /\ TRUE => Ordered(s, Falls)
  BY <1>2, <1>4, TracksAsked
<1> QED BY <1>5

\* What is asked of the crowds in the zones.
LEMMA AllCrowdingAsksMade ==
    ASSUME ZonesInv, NEW list, NEW occupied \in SUBSET DOMAIN zoneOf,
           occupied # {} => MaxTracks >= 1,
           NEW zs, zs = S!SetToSeq(occupied),
           NEW s, s = S!FlattenSeq([i \in DOMAIN zs |-> CrowdingAsks(list, zs[i])])
    PROVE  /\ s \in Seq(Question)
           /\ \A x \in S!ToSet(s) : x.key[2] = None
           /\ AllFall => Ordered(s, Falls)
<1>2. PICK ss : ss = [i \in DOMAIN zs |-> CrowdingAsks(list, zs[i])]
  OBVIOUS
<1>3. s = S!FlattenSeq(ss)
  BY <1>2
<1>4. /\ Len(zs) \in Nat /\ DOMAIN zs = 1..Len(zs)
      /\ \A i \in DOMAIN zs : zs[i] \in occupied
      /\ \A i, j \in DOMAIN zs : i < j => zs[i] # zs[j]
  <2>1. occupied \in SUBSET Zones
    BY SetupAssumption DEF ZonesInv
  <2>2. IsFiniteSet(occupied)
    BY <2>1, FS_Subset, SurveillanceAssumption
  <2>3. zs \in Seq(occupied) /\ \A i, j \in DOMAIN zs : i < j => zs[i] # zs[j]
    BY <2>2, SetListed
  <2> QED BY <2>3
<1>5. ASSUME NEW i \in DOMAIN zs
      PROVE  /\ ss[i] \in Seq(Question)
             /\ \A x \in S!ToSet(ss[i]) : x.key = <<"crowding", None, zs[i]>>
             /\ AllFall => Ordered(ss[i], Falls)
  <2>1. PICK z \in DOMAIN zoneOf : z = zs[i] /\ MaxTracks >= 1
    BY <1>4
  <2>2. ss[i] = CrowdingAsks(list, z)
    BY <1>2, <2>1
  <2> QED BY <2>1, <2>2, CrowdingAsksMade
<1>6. ss \in Seq(Seq(Question)) /\ DOMAIN ss = DOMAIN zs
  <2>1. ss = [i \in 1..Len(zs) |-> ss[i]]
    BY <1>2, <1>4
  <2>2. \A i \in 1..Len(zs) : ss[i] \in Seq(Question)
    BY <1>4, <1>5
  <2> QED BY <1>4, <2>1, <2>2, ListOf
<1>7. ASSUME NEW i \in DOMAIN ss, NEW j \in DOMAIN ss, i < j PROVE Before(ss[i], ss[j], Falls)
  <2>1. SUFFICES ASSUME NEW x \in S!ToSet(ss[i]), NEW y \in S!ToSet(ss[j])
                 PROVE  <<x, y>> \in Falls
    BY DEF Before
  <2>2. x.key # y.key
    BY <1>4, <1>5, <1>6, <1>7
  <2>3. x \in Question /\ y \in Question
    BY <1>5, <1>6, ListEntries
  <2> QED BY <2>2, <2>3 DEF Falls
<1>8. /\ S!FlattenSeq(ss) \in Seq(Question)
      /\ \A x : x \in S!ToSet(S!FlattenSeq(ss)) <=> \E i \in DOMAIN ss : x \in S!ToSet(ss[i])
  BY <1>6, Flattened
<1>9. AllFall => Ordered(S!FlattenSeq(ss), Falls)
  BY <1>5, <1>6, <1>7, FlattenOrdered
<1>10. ASSUME NEW x \in S!ToSet(S!FlattenSeq(ss)) PROVE x.key[2] = None
  <2>1. PICK i \in DOMAIN zs : x \in S!ToSet(ss[i])
    BY <1>6, <1>8
  <2> QED BY <1>5, <2>1
<1> QED BY <1>3, <1>8, <1>9, <1>10

\* What a frame asks: questions, and when no rule hides a riskier one behind it, the
\* riskiest question of a key first; what the zones' rules ask is among them.
LEMMA AnalysisMade ==
    ASSUME ZonesInv, NEW list, TrackList(list)
    PROVE  /\ Analysis(list) \in Seq(Question)
           /\ AllFall => Ordered(Analysis(list), Falls)
           /\ \A i \in DOMAIN list : ZonesAsked(list[i], Analysis(list))
<1>1. PICK occupied : occupied = {z \in Zones : \E i \in DOMAIN list : S!Contains(list[i].zones, z)}
  OBVIOUS
<1>2. PICK zs : zs = S!SetToSeq(occupied)
  OBVIOUS
<1> DEFINE crowds == [i \in DOMAIN zs |-> CrowdingAsks(list, zs[i])]
<1>3. PICK w, a, b, c : /\ w = Each(list, WeaponAsks)
                        /\ a = EachReported(list, ZoneAsks)
                        /\ b = EachReported(list, BehavioralAsks)
                        /\ c = S!FlattenSeq(crowds)
  OBVIOUS
<1>4. Analysis(list) = w \o a \o b \o c
  BY <1>1, <1>2, <1>3 DEF Analysis, Each
<1>5. w = << >>
  BY <1>3, NoWeaponAsks
<1>6. /\ a \in Seq(Question)
      /\ \A x \in S!ToSet(a) :
           x.key[2] \in Int /\ (AllFall => x.key[1] \notin {"running", "direction"})
      /\ AllFall => Ordered(a, Falls)
      /\ \A i \in DOMAIN list : ZonesAsked(list[i], a)
  BY <1>3, AllZoneAsksMade
<1>7. /\ b \in Seq(Question) /\ Ordered(b, Falls)
      /\ \A x \in S!ToSet(b) : x.key[2] \in Int /\ x.key[1] \in {"running", "direction"}
  BY <1>3, AllBehavioralAsksMade
<1>8. ASSUME NEW z \in occupied PROVE z \in DOMAIN zoneOf /\ MaxTracks >= 1
  <2>1. PICK i \in DOMAIN list : S!Contains(list[i].zones, z)
    BY <1>1
  <2>2. Sighted(list[i])
    BY DEF TrackList
  <2>3. list[i].zones \in Seq(DOMAIN zoneOf)
    BY <2>2, SightedZones
  <2>4. list[i].id \in 1..MaxTracks /\ MaxTracks \in Int
    BY <2>2, SurveillanceAssumption DEF Sighted
  <2>5. PICK s, k : s = list[i].zones /\ k \in 1..Len(s) /\ s[k] = z
    BY <2>1 DEF S!Contains
  <2> QED BY <2>3, <2>4, <2>5
<1>9. /\ c \in Seq(Question)
      /\ \A x \in S!ToSet(c) : x.key[2] = None
      /\ AllFall => Ordered(c, Falls)
  <2>1. occupied \in SUBSET DOMAIN zoneOf /\ (occupied # {} => MaxTracks >= 1)
    BY <1>8
  <2> QED BY <1>2, <1>3, <2>1, AllCrowdingAsksMade
<1>10. w \o a \o b \o c = a \o b \o c
  BY <1>5, <1>6
<1>11. a \o b \in Seq(Question) /\ S!ToSet(a \o b) = S!ToSet(a) \cup S!ToSet(b)
  BY <1>6, <1>7, Concatenated
<1>12. a \o b \o c \in Seq(Question)
  BY <1>9, <1>11, Concatenated
<1>13. ASSUME AllFall PROVE Ordered(a \o b \o c, Falls)
  <2>1. ASSUME NEW x \in S!ToSet(a), NEW y \in S!ToSet(b) PROVE <<x, y>> \in Falls
    <3>1. x \in Question /\ y \in Question
      BY <1>6, <1>7, ListEntries
    <3>2. x.key # y.key
      BY <1>6, <1>7, <1>13
    <3> QED BY <3>1, <3>2 DEF Falls
  <2>2. ASSUME NEW x \in S!ToSet(a \o b), NEW y \in S!ToSet(c) PROVE <<x, y>> \in Falls
    <3>1. x \in Question /\ y \in Question
      BY <1>9, <1>11, ListEntries
    <3>2. x.key # y.key
      BY <1>6, <1>7, <1>9, <1>11, ClockAssumption
    <3> QED BY <3>1, <3>2 DEF Falls
  <2>3. Before(a, b, Falls) /\ Before(a \o b, c, Falls)
    BY <2>1, <2>2 DEF Before
  <2>4. Ordered(a \o b, Falls)
    BY <1>6, <1>7, <1>13, <2>3, OrderedBoth
  <2> QED BY <1>9, <1>11, <1>13, <2>3, <2>4, OrderedBoth
<1>14. S!ToSet(a) \subseteq S!ToSet(a \o b \o c)
  <2>1. PICK ab : ab = a \o b
    OBVIOUS
  <2>2. ab \in Seq(Question) /\ c \in Seq(Question)
    BY <1>9, <1>11, <2>1
  <2>3. S!ToSet(ab \o c) = S!ToSet(ab) \cup S!ToSet(c)
    BY <2>2, Concatenated
  <2> QED BY <1>11, <2>1, <2>3
<1>15. \A i \in DOMAIN list : ZonesAsked(list[i], a \o b \o c)
  BY <1>6, <1>14 DEF ZonesAsked
<1> QED BY <1>4, <1>10, <1>12, <1>13, <1>15

----------------------------------------------------------------------------
(* The tracks                                                              *)

TrackType == [id : 1..MaxTracks, hits : 1..MinHits, misses : 0..MaxMisses,
              sight : Sightings(setup)]

\* Tracks, each with an id of its own, below the next one.
TrackTable(table, next) ==
    /\ table \in [Objects -> TrackType \cup {None}]
    /\ \A o \in Objects : table[o] # None => table[o].id < next
    /\ \A o, p \in Objects : o # p /\ table[o] # None /\ table[p] # None =>
          table[o].id # table[p].id

TracksInv == nextId \in 1..(MaxTracks + 1) /\ TrackTable(tracks, nextId)

\* None is no track.
LEMMA TrackIsSome == ASSUME ZonesInv PROVE None \notin TrackType
<1>1. TrackType \subseteq [id : Nat, hits : Nat, misses : Nat, sight : Sightings(setup)]
  BY SurveillanceAssumption DEF TrackType
<1> QED BY <1>1, NoneAssumption DEF ZonesInv

\* The newcomers of a frame take the next ids, in order of their numbers.
LEMMA NewcomersCount ==
    ASSUME NEW N \in SUBSET Int, IsFiniteSet(N), NEW o \in N
    PROVE  /\ Cardinality({p \in N : p < o}) \in Nat
           /\ Cardinality({p \in N : p < o}) = Rank(N, o) - 1
<1> DEFINE below == {p \in N : p < o}
<1>1. below \in SUBSET N /\ o \notin below
  <2>1. ~(o < o)
    OBVIOUS
  <2> QED BY <2>1
<1>2. {p \in N : p <= o} = below \cup {o}
  <2>1. \A p \in N : p <= o <=> p < o \/ p = o
    OBVIOUS
  <2> QED BY <2>1
<1> HIDE DEF below
<1>3. IsFiniteSet(below)
  BY <1>1, FS_Subset
<1>4. Cardinality(below \cup {o}) = Cardinality(below) + 1 /\ Cardinality(below) \in Nat
  BY <1>1, <1>3, FS_AddElement, FS_CardinalityType
<1>5. Rank(N, o) = Cardinality(below) + 1
  BY <1>2, <1>4 DEF Rank
<1>6. Cardinality(below) = Rank(N, o) - 1
  BY <1>4, <1>5
<1> QED BY <1>4, <1>6 DEF below

\* The number of newcomers with a smaller number than o's.
Earlier(scene, o) == Cardinality({p \in Newcomers(scene) : p < o})

\* Newcomers are finitely many, and no two come at the same place.
LEMMA NewcomersPlaced ==
    ASSUME ZonesInv, NEW scene \in setup.scenes
    PROVE  /\ Cardinality(Newcomers(scene)) \in Nat
           /\ \A o \in Newcomers(scene) : Earlier(scene, o) \in 0..(Cardinality(Newcomers(scene)) - 1)
           /\ \A o, p \in Newcomers(scene) : Earlier(scene, o) = Earlier(scene, p) => o = p
<1>1. PICK N : N = Newcomers(scene)
  OBVIOUS
<1>2. N \in SUBSET Objects
  BY <1>1, SetupAssumption DEF ZonesInv, Newcomers
<1>3. N \in SUBSET Int /\ IsFiniteSet(N)
  BY <1>2, FS_Subset, SurveillanceAssumption
<1>4. Cardinality(N) \in Nat
  BY <1>3, FS_CardinalityType
<1>5. ASSUME NEW o \in N
      PROVE  Earlier(scene, o) = Rank(N, o) - 1 /\ Rank(N, o) \in 1..Cardinality(N)
  BY <1>1, <1>3, NewcomersCount, RankInRange DEF Earlier
<1>6. ASSUME NEW o \in N, NEW p \in N, Earlier(scene, o) = Earlier(scene, p) PROVE o = p
  <2>1. Rank(N, o) = Rank(N, p)
    BY <1>4, <1>5, <1>6
  <2> QED BY <1>3, <2>1, RankInjective
<1>7. ASSUME NEW o \in N PROVE Earlier(scene, o) \in 0..(Cardinality(N) - 1)
  BY <1>4, <1>5
<1> QED BY <1>1, <1>4, <1>6, <1>7

\* An analysed frame keeps the ids of the tracks and gives the newcomers their own.
LEMMA TracksUpdated ==
    ASSUME ZonesInv, TracksInv, NEW scene \in setup.scenes,
           NEW next, next = nextId + Cardinality(Newcomers(scene)), next <= MaxTracks + 1
    PROVE  next \in 1..(MaxTracks + 1) /\ TrackTable(Update(scene), next)
<1>1. PICK N, c, table : N = Newcomers(scene) /\ c = Cardinality(N) /\ table = Update(scene)
  OBVIOUS
<1>2. /\ c \in Nat
      /\ \A o \in N : Earlier(scene, o) \in 0..(c - 1)
      /\ \A o, p \in N : Earlier(scene, o) = Earlier(scene, p) => o = p
  BY <1>1, NewcomersPlaced
<1>3. nextId \in 1..(MaxTracks + 1) /\ MaxTracks \in Nat /\ next = nextId + c
  BY <1>1, SurveillanceAssumption DEF TracksInv
<1>4. next \in 1..(MaxTracks + 1)
  BY <1>2, <1>3
<1>5. /\ MinHits \in Nat \ {0} /\ MaxMisses \in Nat
      /\ \A o \in DOMAIN scene : o \in Objects /\ scene[o] \in Sightings(setup)
  BY SetupAssumption, SurveillanceAssumption DEF ZonesInv, Sightings
<1>6. ASSUME NEW o \in Objects
      PROVE  \/ table[o] = None
             \/ /\ tracks[o] # None /\ table[o] \in TrackType
                /\ table[o].id = tracks[o].id
             \/ /\ o \in N /\ table[o] \in TrackType
                /\ table[o].id = nextId + Earlier(scene, o)
  <2>1. PICK t, id : t = tracks[o] /\ id = nextId + Earlier(scene, o)
    OBVIOUS
  <2>2. table[o] = Tracked(o, scene, id)
    BY <1>1, <2>1 DEF Update, Earlier
  <2>3. t \in TrackType \cup {None}
    BY <2>1 DEF TracksInv, TrackTable
  <2>4. CASE o \in DOMAIN scene /\ t = None
    <3>1. table[o] = [id |-> id, hits |-> 1, misses |-> 0, sight |-> scene[o]]
      BY <2>1, <2>2, <2>4 DEF Tracked
    <3>2. o \in N
      BY <1>1, <2>1, <2>4 DEF Newcomers
    <3>3. id \in 1..MaxTracks
      BY <1>2, <1>3, <1>4, <2>1, <3>2
    <3>4. table[o] \in TrackType /\ table[o].id = id
      BY <1>5, <2>4, <3>1, <3>3 DEF TrackType
    <3> QED BY <2>1, <3>2, <3>4
  <2>5. CASE o \in DOMAIN scene /\ t # None
    <3>1. table[o] = [t EXCEPT !.misses = 0, !.sight = scene[o],
                               !.hits = IF @ < MinHits THEN @ + 1 ELSE @]
      BY <2>1, <2>2, <2>5 DEF Tracked
    <3>2. t \in TrackType
      BY <2>3, <2>5
    <3>3. PICK hits : hits = IF t.hits < MinHits THEN t.hits + 1 ELSE t.hits
      OBVIOUS
    <3>4. hits \in 1..MinHits /\ 0 \in 0..MaxMisses
      BY <1>5, <3>2, <3>3 DEF TrackType
    <3>5. table[o] = [id |-> t.id, hits |-> hits, misses |-> 0, sight |-> scene[o]]
      BY <3>1, <3>2, <3>3 DEF TrackType
    <3>6. table[o] \in TrackType /\ table[o].id = t.id
      BY <1>5, <2>5, <3>2, <3>4, <3>5 DEF TrackType
    <3> QED BY <2>1, <2>5, <3>6
  <2>6. CASE o \notin DOMAIN scene /\ t # None /\ t.misses < MaxMisses
    <3>1. table[o] = [t EXCEPT !.misses = @ + 1]
      BY <2>1, <2>2, <2>6 DEF Tracked
    <3>2. t \in TrackType
      BY <2>3, <2>6
    <3>3. table[o] \in TrackType /\ table[o].id = t.id
      BY <1>5, <2>6, <3>1, <3>2 DEF TrackType
    <3> QED BY <2>1, <2>6, <3>3
  <2>7. CASE o \notin DOMAIN scene /\ ~(t # None /\ t.misses < MaxMisses)
    <3>1. table[o] = None
      BY <2>1, <2>2, <2>7 DEF Tracked
    <3> QED BY <3>1
  <2> QED BY <2>4, <2>5, <2>6, <2>7
<1>7. table \in [Objects -> TrackType \cup {None}]
  <2>1. table = [o \in Objects |-> table[o]]
    BY <1>1 DEF Update
  <2>2. \A o \in Objects : table[o] \in TrackType \cup {None}
    BY <1>6
  <2> QED BY <2>1, <2>2
<1>8. ASSUME NEW o \in Objects, tracks[o] # None
      PROVE  tracks[o].id \in Nat /\ tracks[o].id < nextId
  BY <1>8 DEF TracksInv, TrackTable, TrackType
<1>9. ASSUME NEW o \in Objects, table[o] # None PROVE table[o].id < next
  BY <1>2, <1>3, <1>6, <1>8, <1>9
<1>10. ASSUME NEW o \in Objects, NEW p \in Objects, o # p, table[o] # None, table[p] # None
       PROVE  table[o].id # table[p].id
  <2>1. CASE /\ tracks[o] # None /\ table[o].id = tracks[o].id
             /\ tracks[p] # None /\ table[p].id = tracks[p].id
    BY <1>10, <2>1 DEF TracksInv, TrackTable
  <2>2. CASE /\ o \in N /\ table[o].id = nextId + Earlier(scene, o)
             /\ tracks[p] # None /\ table[p].id = tracks[p].id
    BY <1>2, <1>3, <1>8, <2>2
  <2>3. CASE /\ p \in N /\ table[p].id = nextId + Earlier(scene, p)
             /\ tracks[o] # None /\ table[o].id = tracks[o].id
    BY <1>2, <1>3, <1>8, <2>3
  <2>4. CASE /\ o \in N /\ table[o].id = nextId + Earlier(scene, o)
             /\ p \in N /\ table[p].id = nextId + Earlier(scene, p)
    <3>1. Earlier(scene, o) # Earlier(scene, p)
      BY <1>2, <1>10, <2>4
    <3>2. Earlier(scene, o) \in Int /\ Earlier(scene, p) \in Int
      BY <1>2, <2>4
    <3> QED BY <1>3, <2>4, <3>1, <3>2
  <2> QED BY <1>6, <1>10, <2>1, <2>2, <2>3, <2>4
<1> QED BY <1>1, <1>4, <1>7, <1>9, <1>10 DEF TrackTable

\* The confirmed tracks of a table are a list of tracks, each once.
LEMMA ConfirmedAreListed ==
    ASSUME ZonesInv, NEW table, NEW next, TrackTable(table, next)
    PROVE  TrackList(ConfirmedTracks(table))
<1> DEFINE confirmed == {o \in Objects : table[o] # None /\ table[o].hits >= MinHits}
<1>1. PICK list, ids : list = ConfirmedTracks(table) /\ ids = {table[o].id : o \in confirmed}
  OBVIOUS
<1>2. ids \in SUBSET (1..MaxTracks)
  <2>1. \A o \in confirmed : table[o] \in TrackType
    BY DEF TrackTable
  <2> QED BY <1>1, <2>1 DEF TrackType
<1>3. ids \in SUBSET Int /\ IsFiniteSet(ids)
  <2>1. IsFiniteSet(1..MaxTracks)
    BY FS_Interval, SurveillanceAssumption
  <2>2. IsFiniteSet(ids)
    BY <1>2, <2>1, FS_Subset
  <2>3. \A id \in 1..MaxTracks : id \in Int
    OBVIOUS
  <2> QED BY <1>2, <2>2, <2>3
<1>4. PICK inOrder : inOrder = Ascending(ids)
  OBVIOUS
<1>5. /\ inOrder \in Seq(ids) /\ DOMAIN inOrder = 1..Len(inOrder) /\ Len(inOrder) \in Nat
      /\ DOMAIN inOrder = 1..Cardinality(ids)
      /\ \A n \in DOMAIN inOrder : inOrder[n] \in ids
  <2>1. inOrder \in Seq(ids) /\ DOMAIN inOrder = 1..Cardinality(ids)
    BY <1>3, <1>4, AscendingProperties
  <2> HIDE DEF confirmed
  <2>2. DOMAIN inOrder = 1..Len(inOrder) /\ Len(inOrder) \in Nat
    BY <2>1
  <2>3. \A n \in DOMAIN inOrder : inOrder[n] \in ids
    BY <1>3, <1>4, <2>1, AscendingProperties
  <2> QED BY <2>1, <2>2, <2>3
<1>6. ASSUME NEW i \in DOMAIN inOrder, NEW j \in DOMAIN inOrder, i < j
      PROVE  inOrder[i] # inOrder[j]
  <2>1. inOrder[i] < inOrder[j]
    BY <1>3, <1>4, <1>5, <1>6, AscendingOrder
  <2>2. inOrder[i] \in Int /\ inOrder[j] \in Int
    BY <1>3, <1>5
  <2> QED BY <2>1, <2>2
<1> DEFINE made(t) == [id |-> t.id, class |-> t.sight.class, zones |-> t.sight.zones,
                       fast |-> t.sight.fast, still |-> FALSE, against |-> t.sight.against,
                       dwell |-> 0]
           of(i) == CHOOSE o \in confirmed : table[o].id = inOrder[i]
<1>7. list = [i \in DOMAIN inOrder |-> made(table[of(i)])]
  BY <1>1, <1>4 DEF ConfirmedTracks
<1>8. ASSUME NEW i \in DOMAIN inOrder
      PROVE  Sighted(list[i]) /\ list[i].id = inOrder[i]
  <2>1. \E o \in confirmed : table[o].id = inOrder[i]
    BY <1>1, <1>5
  <2>2. of(i) \in confirmed /\ table[of(i)].id = inOrder[i]
    BY <2>1
  <2>3. PICK t : t = table[of(i)]
    OBVIOUS
  <2>4. t \in TrackType /\ t.id = inOrder[i]
    BY <2>2, <2>3 DEF TrackTable
  <2>5. list[i] = made(t)
    BY <1>7, <2>3
  <2> QED BY <2>4, <2>5 DEF TrackType, Sighted
<1> HIDE DEF made, of
<1>9. DOMAIN list = DOMAIN inOrder /\ Len(list) = Len(inOrder)
  <2>1. DOMAIN list = 1..Len(inOrder)
    BY <1>5, <1>7
  <2> QED BY <1>5, <2>1
<1>10. \A i \in DOMAIN list : Sighted(list[i])
  BY <1>8, <1>9
<1>11. \A i, j \in DOMAIN list : i < j => list[i].id # list[j].id
  BY <1>6, <1>8, <1>9
<1>12. Len(list) \in Nat /\ DOMAIN list = 1..Len(list)
  BY <1>5, <1>9
<1> HIDE DEF confirmed
<1> QED BY <1>1, <1>10, <1>11, <1>12 DEF TrackList

\* Every step keeps the table of tracks.
LEMMA TracksStep ==
    ASSUME ZonesInv, TracksInv, [PipelineNext]_pipelineVars
    PROVE  TracksInv'
<1>1. setup' = setup
  BY ZonesStep
<1>2. ASSUME UNCHANGED <<tracks, nextId>> PROVE TracksInv'
  BY <1>1, <1>2 DEF TracksInv, TrackTable, TrackType
<1>3. ASSUME NEW scene \in setup.scenes, Hold(scene) \/ Lose(scene)
      PROVE  UNCHANGED <<tracks, nextId>>
  BY <1>3 DEF Hold, Lose
<1>4. ASSUME NEW scene \in setup.scenes, Analyze(scene) PROVE TracksInv'
  <2>1. PICK next : next = nextId + Cardinality(Newcomers(scene))
    OBVIOUS
  <2>2. next <= MaxTracks + 1 /\ nextId' = next /\ tracks' = Update(scene)
    BY <1>4, <2>1 DEF Analyze
  <2>3. next \in 1..(MaxTracks + 1) /\ TrackTable(Update(scene), next)
    BY <2>1, <2>2, TracksUpdated
  <2> QED BY <1>1, <2>2, <2>3 DEF TracksInv, TrackTable, TrackType
<1>5. ASSUME NoFrame \/ AnswerNext \/ Switch \/ NextTick PROVE UNCHANGED <<tracks, nextId>>
  BY <1>5 DEF NoFrame, AnswerNext, Switch, NextTick, ownVars
<1>6. ASSUME UNCHANGED pipelineVars PROVE UNCHANGED <<tracks, nextId>>
  BY <1>6 DEF pipelineVars, ownVars
<1> QED BY <1>2, <1>3, <1>4, <1>5, <1>6 DEF PipelineNext

----------------------------------------------------------------------------
(* The questions                                                           *)

PendingInv == pending \in Seq(Question) /\ (AllFall => Ordered(pending, Falls))

\* Levels fall with the clock and the zones as they are.
LEMMA FallsStay ==
    ASSUME now' = now, zoneOf' = zoneOf
    PROVE  Falls' = Falls /\ (AllFall' <=> AllFall)
<1>1. ASSUME NEW x PROVE Risk(x)' = Risk(x)
  BY DEF Risk, EffectiveRisk, BestReduction, Reduction, IsActive, InWindow, TimeOfDay, Weekday
<1>2. Falls' = Falls
  BY <1>1 DEF Falls, Question
<1>3. AllFall' <=> AllFall
  BY DEF AllFall
<1> QED BY <1>2, <1>3

\* The rest of an ordered list of questions is one.
LEMMA TailOrdered ==
    ASSUME NEW T, NEW s \in Seq(T), s # << >>, NEW R, Ordered(s, R)
    PROVE  /\ Head(s) \in T /\ Tail(s) \in Seq(T) /\ Ordered(Tail(s), R)
           /\ \A x \in S!ToSet(Tail(s)) : <<Head(s), x>> \in R
           /\ S!ToSet(s) = {Head(s)} \cup S!ToSet(Tail(s))
<1>1. PICK t, n : t = Tail(s) /\ n = Len(s)
  OBVIOUS
<1>2. /\ n \in Nat /\ n >= 1 /\ DOMAIN s = 1..n /\ Head(s) = s[1] /\ s[1] \in T
      /\ t \in Seq(T) /\ DOMAIN t = 1..(n - 1) /\ \A i \in 1..(n - 1) : t[i] = s[i + 1]
  BY <1>1
<1>3. ASSUME NEW i \in DOMAIN t, NEW j \in DOMAIN t, i < j PROVE <<t[i], t[j]>> \in R
  <2>1. i + 1 \in DOMAIN s /\ j + 1 \in DOMAIN s /\ i + 1 < j + 1
    BY <1>2, <1>3
  <2> QED BY <1>2, <2>1 DEF Ordered
<1>4. ASSUME NEW i \in DOMAIN t PROVE <<s[1], t[i]>> \in R
  <2>1. 1 \in DOMAIN s /\ i + 1 \in DOMAIN s /\ 1 < i + 1
    BY <1>2
  <2> QED BY <1>2, <2>1 DEF Ordered
<1>5. S!ToSet(s) = {s[1]} \cup S!ToSet(t)
  <2>1. ASSUME NEW i \in DOMAIN s PROVE s[i] \in {s[1]} \cup S!ToSet(t)
    <3>1. CASE i # 1
      <4>1. i - 1 \in DOMAIN t /\ t[i - 1] = s[i]
        BY <1>2, <3>1
      <4> QED BY <4>1 DEF S!ToSet
    <3> QED BY <3>1
  <2>2. ASSUME NEW i \in DOMAIN t PROVE t[i] \in S!ToSet(s)
    <3>1. i + 1 \in DOMAIN s /\ t[i] = s[i + 1]
      BY <1>2
    <3> QED BY <3>1 DEF S!ToSet
  <2>3. s[1] \in S!ToSet(s)
    BY <1>2 DEF S!ToSet
  <2> QED BY <2>1, <2>2, <2>3 DEF S!ToSet
<1> QED BY <1>1, <1>2, <1>3, <1>4, <1>5 DEF Ordered, S!ToSet

\* Every step keeps the questions, of keys the deduplicator has.
LEMMA PendingStep ==
    ASSUME ZonesInv, TracksInv, PendingInv, [PipelineNext]_pipelineVars
    PROVE  PendingInv'
<1>1. ZonesInv' /\ setup' = setup /\ zoneOf' = zoneOf
  BY ZonesStep
<1>2. Question' = Question
  BY <1>1 DEF Question
<1>3. ASSUME now' = now, pending' = pending PROVE PendingInv'
  BY <1>1, <1>2, <1>3, FallsStay DEF PendingInv, Ordered
<1>4. ASSUME NEW scene \in setup.scenes, Hold(scene) \/ Lose(scene) PROVE PendingInv'
  <2>1. now' = now /\ pending' = pending
    BY <1>4 DEF Hold, Lose, vars, rulesVars
  <2> QED BY <1>3, <2>1
<1>5. ASSUME NEW scene \in setup.scenes, Analyze(scene) PROVE PendingInv'
  <2>1. TracksInv'
    BY TracksStep
  <2>2. PICK table : table = tracks'
    OBVIOUS
  <2>3. TrackTable(table, nextId')
    BY <1>1, <2>1, <2>2 DEF TracksInv, TrackTable, TrackType
  <2>4. PICK list : list = ConfirmedTracks(table)
    OBVIOUS
  <2>5. TrackList(list)
    BY <2>3, <2>4, ConfirmedAreListed
  <2>6. pending' = Analysis(list) /\ now' = now
    BY <1>5, <2>2, <2>4 DEF Analyze, AnalyzeFrame, vars
  <2>7. PICK asks : asks = Analysis(list)
    OBVIOUS
  <2>8. asks \in Seq(Question) /\ (AllFall => Ordered(asks, Falls))
    BY <2>5, <2>7, AnalysisMade
  <2>9. pending' = asks /\ Falls' = Falls /\ (AllFall' <=> AllFall)
    BY <1>1, <2>6, <2>7, FallsStay
  <2> QED BY <1>2, <2>8, <2>9 DEF PendingInv, Ordered
<1>6. CASE AnswerNext
  <2>1. pending # << >> /\ pending' = Tail(pending)
    BY <1>6 DEF AnswerNext, Answer
  <2>2. now' = now
    <3>1. ASSUME NEW k, Fire(k) \/ Suppress(k) PROVE now' = now
      BY <3>1 DEF Fire, Suppress
    <3> QED BY <1>6, <3>1 DEF AnswerNext, Answer
  <2>3. PICK rest : rest = Tail(pending)
    OBVIOUS
  <2>4. rest \in Seq(Question)
    BY <2>1, <2>3 DEF PendingInv
  <2>5. AllFall => Ordered(rest, Falls)
    BY <2>1, <2>3, TailOrdered DEF PendingInv
  <2>6. pending' = rest /\ Falls' = Falls /\ (AllFall' <=> AllFall)
    BY <1>1, <2>1, <2>2, <2>3, FallsStay
  <2> QED BY <1>2, <2>4, <2>5, <2>6 DEF PendingInv, Ordered
<1>7. CASE NextTick
  <2>1. pending' = << >>
    BY <1>7 DEF NextTick, Wait, rulesVars
  <2>2. << >> \in Seq(Question) /\ DOMAIN << >> = {}
    OBVIOUS
  <2> QED BY <1>2, <2>1, <2>2 DEF PendingInv, Ordered
<1>8. CASE NoFrame \/ Switch
  <2>1. now' = now /\ pending' = pending
    BY <1>8 DEF NoFrame, Switch, vars, rulesVars
  <2> QED BY <1>3, <2>1
<1>9. CASE UNCHANGED pipelineVars
  <2>1. now' = now /\ pending' = pending
    BY <1>9 DEF pipelineVars, vars, rulesVars
  <2> QED BY <1>3, <2>1
<1> QED BY <1>4, <1>5, <1>6, <1>7, <1>8, <1>9 DEF PipelineNext

\* What the pipeline does to the deduplicator is a step of it.
LEMMA DedupStep ==
    ASSUME PendingInv, [PipelineNext]_pipelineVars
    PROVE  [Next]_vars
<1>1. ASSUME NEW scene \in setup.scenes, Hold(scene) \/ Lose(scene) \/ Analyze(scene)
      PROVE  UNCHANGED vars
  BY <1>1 DEF Hold, Lose, Analyze, AnalyzeFrame
<1>2. CASE NoFrame \/ Switch \/ UNCHANGED pipelineVars
  BY <1>2 DEF NoFrame, Switch, pipelineVars
<1>3. CASE AnswerNext
  <2>1. pending # << >> /\ Head(pending) \in Question
    BY <1>3 DEF AnswerNext, Answer, PendingInv
  <2>2. PICK k \in Keys : k = Head(pending).key
    BY <2>1 DEF Question
  <2>3. Fire(k) \/ Suppress(k)
    BY <1>3, <2>2 DEF AnswerNext, Answer
  <2> QED BY <2>3 DEF Next
<1>4. CASE NextTick
  BY <1>4 DEF NextTick, Wait, Next
<1> QED BY <1>1, <1>2, <1>3, <1>4 DEF PipelineNext

\* The zones, the tracks and the questions are what they should be, at any time.
LEMMA PipelineHolds == PipelineSpec => [](ZonesInv /\ ClockInv /\ TracksInv /\ PendingInv)
<1> DEFINE Inv == ZonesInv /\ ClockInv /\ TracksInv /\ PendingInv
<1>1. PipelineInit => Inv
  <2> SUFFICES ASSUME PipelineInit PROVE Inv
    OBVIOUS
  <2>1. ZonesInv /\ now = StartTime /\ StartTime \in Nat
    BY ZonesInit, ClockAssumption DEF PipelineInit, RulesInit, Init
  <2>2. tracks = [o \in Objects |-> None] /\ nextId = 1 /\ pending = << >>
    BY DEF PipelineInit, RulesInit
  <2>3. TracksInv
    BY <2>2, SurveillanceAssumption DEF TracksInv, TrackTable
  <2>4. << >> \in Seq(Question) /\ DOMAIN << >> = {}
    OBVIOUS
  <2> QED BY <2>1, <2>2, <2>3, <2>4 DEF ClockInv, PendingInv, Ordered
<1>2. Inv /\ [PipelineNext]_pipelineVars => Inv'
  BY ZonesStep, ClockStep, TracksStep, PendingStep
<1> QED BY <1>1, <1>2, PTL DEF PipelineSpec

\* The deduplicator of the pipeline behaves as the one on its own: frames are analysed
\* and their questions asked between its steps (RiskEngine.analyze, should_fire).
THEOREM PipelineDedups == PipelineSpec => Spec
<1>1. PipelineInit => Init
  BY DEF PipelineInit, RulesInit
<1>2. ZonesInv /\ ClockInv /\ TracksInv /\ PendingInv /\ [PipelineNext]_pipelineVars
        => [Next]_vars
  BY DedupStep
<1> QED BY <1>1, <1>2, PipelineHolds, PTL DEF PipelineSpec, Spec

\* And so the events of a camera are those of a limiter that never forgets a key.
THEOREM PipelineLimitsRates == PipelineSpec => ImplementsRateLimit
BY PipelineDedups, DedupRefinesRateLimit, PTL

----------------------------------------------------------------------------
(* The types                                                               *)

\* What the frames and the gate, the smart zones and the levels of the events are.
FrameInv ==
    /\ Gate!TypeOK(setup.scenes)
    /\ frame \in {"none", "held", "lost", "analysed"}
    /\ lost \in 0..MaxLost /\ switches \in 0..setup.switches
    /\ seen \in [Objects -> 0..Needed] /\ vacant \subseteq DOMAIN zoneOf

SmartInv == lastEvent \in [Zones -> Nat \cup {None}] /\ smartLevel \in [Zones -> Smart!Levels]

LevelInv ==
    /\ analysed \in Nat \cup {None}
    /\ level \in [Keys -> RiskLevels]
    /\ owed \in [Keys -> [since : Nat, level : RiskLevels] \cup {None}]

\* A question has a level.
LEMMA RiskInRange ==
    ASSUME ZonesInv, NEW x \in Question
    PROVE  Risk(x) \in RiskLevels
<1>1. PICK n : n = BestReduction(x.zones)
  OBVIOUS
<1>2. n \in 0..3 /\ x.base \in 0..3
  BY <1>1, ReductionInRange DEF Question, RiskLevels, Low, Critical
<1>3. Risk(x) = IF x.key[1] = "weapon" THEN x.base ELSE ReduceRisk(x.base, n)
  BY <1>1 DEF Risk, EffectiveRisk
<1> QED BY <1>2, <1>3 DEF ReduceRisk, RiskLevels, Low, Critical

\* A frame that is read keeps the types.
LEMMA ReadTypes ==
    ASSUME ZonesInv, ClockInv, FrameInv, NEW scene \in setup.scenes, Read(scene)
    PROVE  /\ Gate!TypeOK(setup.scenes)' /\ seen' \in [Objects -> 0..Needed]
           /\ switches' = switches /\ setup' = setup
<1>1. Gate!Detect(scene, now) /\ switches' = switches /\ setup' = setup /\ now \in Nat
  BY DEF Read, ClockInv
<1>2. MinFrames \in Nat /\ MinHits \in Nat \ {0} /\ MinFrames >= 1
  BY GateAssumption, SurveillanceAssumption DEF Gate!Config
<1>3. Needed \in Nat
  BY <1>2 DEF Needed
<1>4. Gate!TypeOK(setup.scenes)'
  <2>1. Gate!Streak(scene) \in 0..MinFrames
    BY <1>2 DEF FrameInv, Gate!TypeOK, Gate!Streak
  <2>2. CASE enabled
    BY <1>1, <2>1, <2>2 DEF Gate!Detect, FrameInv, Gate!TypeOK
  <2>3. CASE ~enabled
    BY <1>1, <2>3 DEF Gate!Detect, Gate!vars, FrameInv, Gate!TypeOK
  <2> QED BY <2>2, <2>3
<1>5. seen' \in [Objects -> 0..Needed]
  <2>1. \A o \in Objects : seen[o] \in 0..Needed
    BY DEF FrameInv
  <2>2. PICK n : n = Needed
    OBVIOUS
  <2>3. \A m \in 0..n : m < n => m + 1 \in 0..n
    BY <1>3, <2>2
  <2>4. seen' = [o \in Objects |-> seen'[o]]
    BY DEF Read
  <2>5. \A o \in Objects : seen'[o] \in {0, seen[o]} \/ (seen[o] < n /\ seen'[o] = seen[o] + 1)
    BY <2>2 DEF Read
  <2>6. 0 \in 0..n
    BY <1>3, <2>2
  <2>7. \A o \in Objects : seen'[o] \in 0..n
    BY <2>1, <2>2, <2>3, <2>5, <2>6
  <2> QED BY <2>2, <2>4, <2>7
<1> QED BY <1>1, <1>4, <1>5

\* Every step keeps the types of the frames and the gate.
LEMMA FrameStep ==
    ASSUME ZonesInv, ClockInv, FrameInv, [PipelineNext]_pipelineVars
    PROVE  FrameInv'
<1>1. zoneOf' = zoneOf /\ setup' = setup
  BY ZonesStep
<1>2. ASSUME UNCHANGED <<gateVars, seen>> PROVE
        Gate!TypeOK(setup.scenes)' /\ seen' \in [Objects -> 0..Needed]
  BY <1>1, <1>2 DEF FrameInv, gateVars, Gate!TypeOK
<1>3. MaxLost \in Nat /\ lost \in 0..MaxLost
  BY SurveillanceAssumption DEF FrameInv
<1>4. ASSUME NEW scene \in setup.scenes, Hold(scene) \/ Lose(scene) \/ Analyze(scene)
      PROVE  FrameInv'
  <2>1. /\ Gate!TypeOK(setup.scenes)' /\ seen' \in [Objects -> 0..Needed]
        /\ switches' = switches
    BY <1>4, ReadTypes DEF Hold, Lose, Analyze
  <2>2. frame' \in {"none", "held", "lost", "analysed"} /\ vacant' \subseteq DOMAIN zoneOf
    BY <1>4 DEF Hold, Lose, Analyze, FrameInv
  <2>3. lost' \in 0..MaxLost
    BY <1>3, <1>4 DEF Hold, Lose, Analyze
  <2> QED BY <1>1, <2>1, <2>2, <2>3 DEF FrameInv
<1>5. CASE NoFrame
  <2>1. UNCHANGED <<gateVars, seen, switches, vacant>> /\ frame' = "lost"
    BY <1>5 DEF NoFrame
  <2>2. lost' \in 0..MaxLost
    BY <1>3, <1>5 DEF NoFrame
  <2> QED BY <1>1, <1>2, <2>1, <2>2 DEF FrameInv
<1>6. CASE AnswerNext \/ NextTick \/ UNCHANGED pipelineVars
  <2>1. UNCHANGED <<gateVars, seen, switches, vacant, lost>> /\ frame' \in {"none", frame}
    BY <1>6 DEF AnswerNext, NextTick, pipelineVars, ownVars
  <2> QED BY <1>1, <1>2, <2>1 DEF FrameInv
<1>7. CASE Switch
  <2>1. /\ UNCHANGED <<vacant, lost, frame>> /\ switches' = switches + 1
        /\ switches < setup.switches
    BY <1>7 DEF Switch
  <2>2. switches' \in 0..setup.switches
    BY <2>1, SetupAssumption DEF FrameInv, ZonesInv
  <2>3. Gate!TypeOK(setup.scenes)'
    BY <1>1, <1>7 DEF Switch, Gate!SetEnabled, Gate!TypeOK, FrameInv
  <2>4. seen' \in [Objects -> 0..Needed]
    <3>1. 0 \in 0..Needed
      BY GateAssumption, SurveillanceAssumption DEF Gate!Config, Needed
    <3>2. seen' \in {seen, [o \in Objects |-> 0]}
      BY <1>7 DEF Switch
    <3> QED BY <3>1, <3>2 DEF FrameInv
  <2> QED BY <1>1, <2>1, <2>2, <2>3, <2>4 DEF FrameInv
<1> QED BY <1>4, <1>5, <1>6, <1>7 DEF PipelineNext

\* A level of the smart zones is one of four.
LEMMA EffectiveLevelInRange ==
    ASSUME NEW zone, NEW mode, NEW people, NEW s
    PROVE  Smart!EffectiveLevel(zone, mode, people, s) \in Smart!Levels
<1>1. Smart!RiskFromScore(s) \in 0..3
  BY DEF Smart!RiskFromScore, Smart!Low, Smart!Medium, Smart!High, Smart!Critical
<1>2. Smart!SmartLevel(zone, mode, people) \in 0..3
  BY DEF Smart!SmartLevel, Smart!Low, Smart!Medium, Smart!High
<1>3. 0 \in 0..3
  OBVIOUS
<1> QED BY <1>1, <1>2, <1>3 DEF Smart!EffectiveLevel, Smart!Levels, Smart!Low, Smart!Critical

\* Every step keeps the types of the smart zones.
LEMMA SmartStep ==
    ASSUME ClockInv, SmartInv, [PipelineNext]_pipelineVars
    PROVE  SmartInv'
<1>1. ASSUME UNCHANGED <<lastEvent, smartLevel>> PROVE SmartInv'
  BY <1>1 DEF SmartInv
<1>2. ASSUME NEW scene \in setup.scenes, Hold(scene) \/ Lose(scene)
      PROVE  UNCHANGED <<lastEvent, smartLevel>>
  BY <1>2 DEF Hold, Lose, smartVars
<1>3. ASSUME NEW scene \in setup.scenes, Analyze(scene) PROVE SmartInv'
  <2>1. PICK people : people = PeopleOf(ConfirmedTracks(tracks'))
    OBVIOUS
  <2>2. PICK reporting : reporting = {z \in DOMAIN zoneOf : Smart!Reports(z, zoneOf[z], people[z], now)}
    OBVIOUS
  <2>3. /\ lastEvent' = [z \in Zones |-> IF z \in reporting THEN now ELSE lastEvent[z]]
        /\ smartLevel' = [z \in Zones |->
              IF z \in reporting
              THEN Smart!EffectiveLevel(zoneOf[z], Smart!Mode(zoneOf[z], now), people[z], score'[z])
              ELSE smartLevel[z]]
    BY <1>3, <2>1, <2>2 DEF Analyze, Smart!Analyze
  <2>4. lastEvent' \in [Zones -> Nat \cup {None}]
    BY <2>3 DEF SmartInv, ClockInv
  <2>5. smartLevel' \in [Zones -> Smart!Levels]
    BY <2>3, EffectiveLevelInRange DEF SmartInv
  <2> QED BY <2>4, <2>5 DEF SmartInv
<1>4. ASSUME NoFrame \/ AnswerNext \/ Switch \/ NextTick \/ UNCHANGED pipelineVars
      PROVE  UNCHANGED <<lastEvent, smartLevel>>
  BY <1>4 DEF NoFrame, AnswerNext, Switch, NextTick, pipelineVars, smartVars
<1> QED BY <1>1, <1>2, <1>3, <1>4 DEF PipelineNext

\* Every step keeps the types of the levels.
LEMMA LevelStep ==
    ASSUME ZonesInv, ClockInv, PendingInv, LevelInv, [PipelineNext]_pipelineVars
    PROVE  LevelInv'
<1>1. ASSUME UNCHANGED <<analysed, level, owed>> PROVE LevelInv'
  BY <1>1 DEF LevelInv
<1>2. ASSUME NEW scene \in setup.scenes, Analyze(scene) PROVE LevelInv'
  <2>1. analysed' = now /\ level' = level
    BY <1>2 DEF Analyze, AnalyzeFrame
  <2>2. owed' = [k \in Keys |-> owed'[k]] /\ \A k \in Keys : owed'[k] \in {None, owed[k]}
    BY <1>2 DEF Analyze, AnalyzeFrame
  <2>3. \A k \in Keys : owed'[k] \in [since : Nat, level : RiskLevels] \cup {None}
    BY <2>2 DEF LevelInv
  <2>4. owed' \in [Keys -> [since : Nat, level : RiskLevels] \cup {None}]
    BY <2>2, <2>3
  <2> QED BY <2>1, <2>4 DEF LevelInv, ClockInv
<1>3. CASE AnswerNext
  <2>1. pending # << >> /\ Head(pending) \in Question
    BY <1>3 DEF AnswerNext, Answer, PendingInv
  <2>2. PICK k, risk : k = Head(pending).key /\ risk = Risk(Head(pending))
    OBVIOUS
  <2>3. risk \in RiskLevels /\ [since |-> now, level |-> risk] \in [since : Nat, level : RiskLevels]
    BY <2>1, <2>2, RiskInRange DEF ClockInv
  <2>4. analysed' = analysed /\ level' \in {level, [level EXCEPT ![k] = risk]}
    BY <1>3, <2>2 DEF AnswerNext, Answer
  <2>5. owed' \in {owed, [owed EXCEPT ![k] = None],
                   [owed EXCEPT ![k] = [since |-> now, level |-> risk]]}
    BY <1>3, <2>2 DEF AnswerNext, Answer
  <2> QED BY <2>3, <2>4, <2>5 DEF LevelInv
<1>4. ASSUME NEW scene \in setup.scenes, Hold(scene) \/ Lose(scene)
      PROVE  UNCHANGED <<analysed, level, owed>>
  BY <1>4 DEF Hold, Lose, rulesVars
<1>5. ASSUME NoFrame \/ Switch \/ NextTick \/ UNCHANGED pipelineVars
      PROVE  UNCHANGED <<analysed, level, owed>>
  BY <1>5 DEF NoFrame, Switch, NextTick, Wait, pipelineVars, rulesVars
<1> QED BY <1>1, <1>2, <1>3, <1>4, <1>5 DEF PipelineNext

\* No frame has been read at first, and no smart zone looked at.
LEMMA FramesInit == PipelineInit => FrameInv /\ SmartInv
<1> SUFFICES ASSUME PipelineInit PROVE FrameInv /\ SmartInv
  OBVIOUS
<1>1. FrameInv
  <2>1. Gate!TypeOK(setup.scenes)
    BY GateAssumption DEF PipelineInit, Gate!Init, Gate!TypeOK, Gate!Config
  <2>2. Needed \in Nat
    BY GateAssumption, SurveillanceAssumption DEF Gate!Config, Needed
  <2>3. 0 \in 0..MaxLost /\ 0 \in 0..setup.switches /\ 0 \in 0..Needed
    BY <2>2, ZonesInit, SurveillanceAssumption, SetupAssumption DEF ZonesInv
  <2> QED BY <2>1, <2>3 DEF PipelineInit, FrameInv
<1>2. SmartInv
  BY DEF PipelineInit, Smart!Init, SmartInv, Smart!Levels, Smart!Low, Smart!Critical
<1> QED BY <1>1, <1>2

\* Every variable of the pipeline has its type, and no more tracks are made than there
\* is room for (CameraTracker.update, RiskEngine.analyze, _analyze_zone, detect).
THEOREM PipelineTypes == PipelineSpec => []PipelineTypeOK
<1> DEFINE Inv == /\ ZonesInv /\ ClockInv /\ TracksInv /\ PendingInv
                  /\ ScoreInv /\ FrameInv /\ SmartInv /\ LevelInv
<1>1. PipelineInit => Inv
  <2> SUFFICES ASSUME PipelineInit PROVE Inv
    OBVIOUS
  <2>1. ZonesInv /\ now \in Nat
    BY ZonesInit, ClockAssumption DEF PipelineInit, RulesInit, Init
  <2>2. tracks = [o \in Objects |-> None] /\ nextId = 1 /\ pending = << >>
    BY DEF PipelineInit, RulesInit
  <2>3. TracksInv
    BY <2>2, SurveillanceAssumption DEF TracksInv, TrackTable
  <2>4. << >> \in Seq(Question) /\ DOMAIN << >> = {}
    OBVIOUS
  <2>5. ScoreInv
    <3>1. /\ score = [z \in Zones |-> 0] /\ lastUpdate = [z \in Zones |-> None]
          /\ charged = [z \in Zones |-> [at |-> now, score |-> 0]] /\ frame = "none"
      BY DEF PipelineInit, Smart!Init
    <3>2. \A z \in DOMAIN zoneOf : z \in Zones
      BY <2>1, SetupAssumption DEF ZonesInv
    <3> QED BY <2>1, <3>1, <3>2 DEF ScoreInv
  <2>6. FrameInv /\ SmartInv
    BY FramesInit
  <2>7. LevelInv
    BY DEF PipelineInit, RulesInit, LevelInv, RiskLevels, Low, Critical
  <2> QED BY <2>1, <2>2, <2>3, <2>4, <2>5, <2>6, <2>7 DEF ClockInv, PendingInv, Ordered
<1>2. Inv /\ [PipelineNext]_pipelineVars => Inv'
  BY ZonesStep, ClockStep, TracksStep, PendingStep, ScoreStep, FrameStep, SmartStep, LevelStep
<1>3. Inv => PipelineTypeOK
  <2> SUFFICES ASSUME Inv PROVE PipelineTypeOK
    OBVIOUS
  <2>1. /\ setup \in Setups
        /\ \A z \in DOMAIN zoneOf : RuledZone(zoneOf[z]) /\ Smart!Settings(zoneOf[z])
    BY SetupAssumption DEF ZonesInv
  <2>2. Smart!TypeOK
    BY DEF ScoreInv, SmartInv, Smart!TypeOK
  <2>3. \A o \in Objects : tracks[o] # None =>
           /\ tracks[o].id < nextId
           /\ tracks[o].hits \in 1..MinHits /\ tracks[o].misses \in 0..MaxMisses
    BY DEF TracksInv, TrackTable, TrackType
  <2>4. \A i \in DOMAIN pending : pending[i] \in Question
    BY DEF PendingInv
  <2>5. \A i \in DOMAIN pending : pending[i].key \in Keys /\ pending[i].base \in RiskLevels
    BY <2>4 DEF Question
  <2>6. /\ nextId \in 1..(MaxTracks + 1) /\ charged \in [Zones -> [at : Nat, score : Nat]]
    BY DEF TracksInv, ScoreInv
  <2> QED BY <2>1, <2>2, <2>3, <2>5, <2>6 DEF FrameInv, LevelInv, PipelineTypeOK
<1> QED BY <1>1, <1>2, <1>3, PTL DEF PipelineSpec

----------------------------------------------------------------------------
(* The levels that are owed                                                *)

\* A level is owed since the last event of its key or later.  Once a frame is analysed,
\* its key is cooling down or has still to be asked for, at that level or a higher one.
OwedInv ==
    /\ analysed # None => analysed <= now
    /\ pending # << >> => analysed = now
    /\ \A k \in Keys : owed[k] # None =>
         /\ sent[k] <= owed[k].since /\ owed[k].since <= now
         /\ analysed = now =>
              \/ now - sent[k] < Cooldown[k]
              \/ \E x \in S!ToSet(pending) : x.key = k /\ Risk(x) >= owed[k].level

\* What answers a question: an event when the cooldown is over, else none.
LEMMA Answered ==
    ASSUME TypeOK, TableInv, NEW k \in Keys
    PROVE  /\ now \in Nat /\ sent[k] \in Nat /\ sent[k] <= now /\ Cooldown[k] \in Nat
           /\ Fire(k) => /\ now - sent[k] >= Cooldown[k] /\ now' = now
                         /\ sent' = [sent EXCEPT ![k] = now]
           /\ Suppress(k) => now - sent[k] < Cooldown[k] /\ now' = now /\ sent' = sent
<1>1. now \in Nat /\ sent[k] \in Nat /\ sent[k] <= now /\ Cooldown[k] \in Nat
  BY CooldownAssumption DEF TypeOK, TableInv
<1>2. CooldownOver(k) <=> now - sent[k] >= Cooldown[k]
  BY EvictionInvisible DEF Unforgetting!Due
<1> QED BY <1>1, <1>2 DEF Fire, Suppress

\* An answer keeps what is owed.
LEMMA OwedAnswered ==
    ASSUME ZonesInv, AllFall, TypeOK, TableInv, PendingInv, LevelInv, OwedInv, AnswerNext
    PROVE  OwedInv'
<1>1. PICK x, k, risk, rest : /\ x = Head(pending) /\ k = x.key /\ risk = Risk(x)
                              /\ rest = Tail(pending)
  OBVIOUS
<1>2. /\ x \in Question /\ k \in Keys /\ rest \in Seq(Question)
      /\ \A y \in S!ToSet(rest) : <<x, y>> \in Falls
      /\ S!ToSet(pending) = {x} \cup S!ToSet(rest)
  <2>1. pending \in Seq(Question) /\ pending # << >> /\ Ordered(pending, Falls)
    BY DEF PendingInv, AnswerNext, Answer
  <2>2. /\ x \in Question /\ rest \in Seq(Question)
        /\ \A y \in S!ToSet(rest) : <<x, y>> \in Falls
        /\ S!ToSet(pending) = {x} \cup S!ToSet(rest)
    BY <1>1, <2>1, TailOrdered
  <2> QED BY <1>1, <2>2 DEF Question
<1>3. /\ pending' = rest /\ analysed' = analysed /\ analysed = now /\ zoneOf' = zoneOf
      /\ \/ Fire(k) /\ owed' = IF owed[k] # None /\ owed[k].level <= risk
                               THEN [owed EXCEPT ![k] = None] ELSE owed
         \/ Suppress(k) /\ owed' = IF level[k] < risk /\ owed[k] = None
                                   THEN [owed EXCEPT ![k] = [since |-> now, level |-> risk]]
                                   ELSE owed
  BY <1>1 DEF AnswerNext, Answer, OwedInv
<1>4. /\ now' = now /\ now \in Nat /\ sent[k] \in Nat /\ sent[k] <= now /\ Cooldown[k] \in Nat
      /\ Fire(k) => now - sent[k] >= Cooldown[k] /\ sent' = [sent EXCEPT ![k] = now]
      /\ Suppress(k) => now - sent[k] < Cooldown[k] /\ sent' = sent
  BY <1>2, <1>3, Answered
<1>5. risk \in RiskLevels /\ \A y \in S!ToSet(rest) : Risk(y) \in RiskLevels
  BY <1>1, <1>2, RiskInRange, ListEntries
<1>6. \A y \in S!ToSet(rest) : y.key = k => risk >= Risk(y)
  BY <1>1, <1>2 DEF Falls
<1>7. ASSUME NEW y PROVE Risk(y)' = Risk(y)
  BY <1>3, <1>4 DEF Risk, EffectiveRisk, BestReduction, Reduction, IsActive, InWindow,
                    TimeOfDay, Weekday
<1>8. \A j \in Keys : owed[j] # None => owed[j].level \in RiskLevels /\ owed[j].since \in Nat
  BY DEF LevelInv
<1>9. ASSUME NEW j \in Keys, owed'[j] # None
      PROVE  /\ sent'[j] <= owed'[j].since /\ owed'[j].since <= now
             /\ \/ now - sent'[j] < Cooldown[j]
                \/ \E y \in S!ToSet(rest) : y.key = j /\ Risk(y) >= owed'[j].level
  <2>1. CASE j # k
    <3>1. owed'[j] = owed[j] /\ sent'[j] = sent[j]
      <4>1. DOMAIN owed = Keys /\ DOMAIN sent = Keys
        BY DEF LevelInv, TypeOK
      <4>2. owed'[j] = owed[j]
        BY <1>3, <2>1, <4>1
      <4>3. sent'[j] = sent[j]
        BY <1>3, <1>4, <2>1, <4>1
      <4> QED BY <4>2, <4>3
    <3>2. /\ sent[j] <= owed[j].since /\ owed[j].since <= now
          /\ \/ now - sent[j] < Cooldown[j]
             \/ \E y \in S!ToSet(pending) : y.key = j /\ Risk(y) >= owed[j].level
      BY <1>3, <1>9, <3>1 DEF OwedInv
    <3> QED BY <1>1, <1>2, <2>1, <3>1, <3>2
  <2>2. CASE j = k /\ Fire(k)
    <3>1. now - sent[k] >= Cooldown[k]
      BY <1>4, <2>2
    <3>2. ~Suppress(k)
      BY <2>2 DEF Fire, Suppress
    <3>3. owed[k] # None => owed[k].level <= risk
      <4>1. SUFFICES ASSUME owed[k] # None PROVE owed[k].level <= risk
        OBVIOUS
      <4>2. PICK y \in S!ToSet(pending) : y.key = k /\ Risk(y) >= owed[k].level
        BY <1>2, <1>3, <1>4, <3>1, <4>1 DEF OwedInv
      <4>3. risk >= Risk(y) /\ Risk(y) \in RiskLevels
        BY <1>1, <1>2, <1>5, <1>6, <4>2 DEF RiskLevels, Low, Critical
      <4>4. owed[k].level \in RiskLevels
        BY <1>2, <1>8, <4>1
      <4> QED BY <1>5, <4>2, <4>3, <4>4 DEF RiskLevels, Low, Critical
    <3>4. owed'[k] = None
      BY <1>2, <1>3, <2>2, <3>2, <3>3 DEF LevelInv
    <3> QED BY <1>9, <2>2, <3>4
  <2>3. CASE j = k /\ Suppress(k)
    <3>1. now - sent[k] < Cooldown[k] /\ sent' = sent /\ ~Fire(k)
      BY <1>4, <2>3 DEF Fire, Suppress
    <3>2. CASE owed[k] # None
      <4>1. owed'[k] = owed[k]
        BY <1>3, <3>1, <3>2
      <4> QED BY <1>2, <2>3, <3>1, <3>2, <4>1 DEF OwedInv
    <3>3. CASE owed[k] = None
      <4>1. owed'[k] = [since |-> now, level |-> risk]
        BY <1>2, <1>3, <1>9, <2>3, <3>1, <3>3 DEF LevelInv
      <4>2. owed'[k].since = now
        BY <4>1
      <4> QED BY <1>4, <2>3, <3>1, <4>2
    <3> QED BY <3>2, <3>3
  <2> QED BY <1>3, <2>1, <2>2, <2>3
<1>10. analysed <= now
  BY <1>3, <1>4
<1>11. ASSUME NEW j \in Keys, owed'[j] # None
       PROVE  /\ sent'[j] <= owed'[j].since /\ owed'[j].since <= now'
              /\ \/ now' - sent'[j] < Cooldown[j]
                 \/ \E y \in S!ToSet(pending') : y.key = j /\ Risk(y)' >= owed'[j].level
  BY <1>3, <1>4, <1>7, <1>9, <1>11
<1> QED BY <1>3, <1>4, <1>10, <1>11 DEF OwedInv

\* An analysed frame keeps what it asks for.
LEMMA OwedAnalyzed ==
    ASSUME ClockInv, OwedInv, NEW scene, Analyze(scene), LevelInv
    PROVE  OwedInv'
<1>1. /\ analysed' = now /\ now' = now /\ sent' = sent /\ zoneOf' = zoneOf
      /\ \A k \in Keys : owed'[k] =
            IF owed[k] # None /\ \E i \in DOMAIN pending' : /\ pending'[i].key = k
                                                           /\ Risk(pending'[i]) >= owed[k].level
            THEN owed[k] ELSE None
  BY DEF Analyze, AnalyzeFrame, vars
<1>2. ASSUME NEW y PROVE Risk(y)' = Risk(y)
  BY <1>1 DEF Risk, EffectiveRisk, BestReduction, Reduction, IsActive, InWindow,
              TimeOfDay, Weekday
<1>3. PICK asks : asks = pending'
  OBVIOUS
<1>4. ASSUME NEW k \in Keys, owed'[k] # None
      PROVE  /\ owed'[k] = owed[k] /\ sent[k] <= owed[k].since /\ owed[k].since <= now
             /\ \E x \in S!ToSet(asks) : x.key = k /\ Risk(x) >= owed[k].level
  <2>1. /\ owed[k] # None /\ owed'[k] = owed[k]
        /\ \E i \in DOMAIN asks : asks[i].key = k /\ Risk(asks[i]) >= owed[k].level
    BY <1>1, <1>3, <1>4
  <2>2. sent[k] <= owed[k].since /\ owed[k].since <= now
    BY <2>1 DEF OwedInv
  <2> QED BY <2>1, <2>2 DEF S!ToSet
<1>5. ASSUME NEW k \in Keys, owed'[k] # None
      PROVE  /\ sent'[k] <= owed'[k].since /\ owed'[k].since <= now'
             /\ \E x \in S!ToSet(pending') : x.key = k /\ Risk(x)' >= owed'[k].level
  BY <1>1, <1>2, <1>3, <1>4, <1>5
<1>6. now <= now
  BY DEF ClockInv
<1> QED BY <1>1, <1>5, <1>6 DEF OwedInv

\* Every step keeps what is owed.
LEMMA OwedStep ==
    ASSUME ZonesInv, AllFall, ClockInv, TypeOK, TableInv, PendingInv, LevelInv, OwedInv,
           [PipelineNext]_pipelineVars
    PROVE  OwedInv'
<1>1. zoneOf' = zoneOf
  BY ZonesStep
<1>2. ASSUME now' = now, UNCHANGED <<analysed, pending, owed, sent>> PROVE OwedInv'
  <2>1. ASSUME NEW y PROVE Risk(y)' = Risk(y)
    BY <1>1, <1>2 DEF Risk, EffectiveRisk, BestReduction, Reduction, IsActive, InWindow,
                      TimeOfDay, Weekday
  <2> QED BY <1>2, <2>1 DEF OwedInv
<1>3. ASSUME NEW scene \in setup.scenes, Hold(scene) \/ Lose(scene) PROVE OwedInv'
  <2>1. now' = now /\ UNCHANGED <<analysed, pending, owed, sent>>
    BY <1>3 DEF Hold, Lose, vars, rulesVars
  <2> QED BY <1>2, <2>1
<1>4. ASSUME NEW scene \in setup.scenes, Analyze(scene) PROVE OwedInv'
  BY <1>4, OwedAnalyzed
<1>5. CASE AnswerNext
  BY <1>5, OwedAnswered
<1>6. CASE NextTick
  <2>1. /\ now' = now + 1 /\ UNCHANGED <<analysed, pending, owed, sent>>
        /\ pending = << >> /\ now \in Nat
    BY <1>6 DEF NextTick, Wait, Tick, rulesVars, ClockInv
  <2>2. analysed' # now' /\ (analysed' # None => analysed' <= now')
    BY <2>1, ClockAssumption DEF OwedInv, LevelInv
  <2>3. ASSUME NEW k \in Keys, owed[k] # None PROVE sent[k] <= owed[k].since /\ owed[k].since <= now + 1
    <3>1. sent[k] <= owed[k].since /\ owed[k].since <= now /\ owed[k].since \in Nat
      BY <2>3 DEF OwedInv, LevelInv
    <3> QED BY <2>1, <3>1
  <2> QED BY <2>1, <2>2, <2>3 DEF OwedInv
<1>7. CASE NoFrame \/ Switch \/ UNCHANGED pipelineVars
  <2>1. now' = now /\ UNCHANGED <<analysed, pending, owed, sent>>
    BY <1>7 DEF NoFrame, Switch, pipelineVars, vars, rulesVars
  <2> QED BY <1>2, <2>1
<1> QED BY <1>3, <1>4, <1>5, <1>6, <1>7 DEF PipelineNext

\* Where no rule of a zone hides a riskier one behind it, a level that a schedule has
\* lowered and the deduplicator holds back is owed for less than a cooldown.
THEOREM LevelsReturn == Unhidden => (PipelineSpec => []FullLevelReturns)
<1> SUFFICES ASSUME Unhidden PROVE PipelineSpec => []FullLevelReturns
  OBVIOUS
<1> DEFINE Inv == ZonesInv /\ ClockInv /\ TracksInv /\ PendingInv
           Owing == LevelInv /\ OwedInv
<1>1. PipelineInit => Owing
  <2> SUFFICES ASSUME PipelineInit PROVE Owing
    OBVIOUS
  <2>1. LevelInv
    BY DEF PipelineInit, RulesInit, LevelInv, RiskLevels, Low, Critical
  <2>2. analysed = None /\ pending = << >> /\ owed = [k \in Keys |-> None]
    BY DEF PipelineInit, RulesInit
  <2> QED BY <2>1, <2>2 DEF OwedInv
<1>2. ZonesInv => AllFall
  BY DEF Unhidden, ZonesInv, AllFall
<1>3. Inv /\ TypeOK /\ TableInv /\ Owing /\ [PipelineNext]_pipelineVars => Owing'
  BY <1>2, LevelStep, OwedStep
<1>4. Inv /\ TypeOK /\ TableInv /\ Owing => FullLevelReturns
  <2> SUFFICES ASSUME Inv, TypeOK, TableInv, Owing, pending = << >>, analysed = now,
                      NEW k \in Keys, owed[k] # None
               PROVE  now - owed[k].since < Cooldown[k]
    BY DEF FullLevelReturns
  <2>1. S!ToSet(pending) = {}
    BY DEF S!ToSet
  <2>2. sent[k] <= owed[k].since /\ now - sent[k] < Cooldown[k]
    BY <2>1 DEF OwedInv
  <2>3. owed[k].since \in Nat
    BY DEF LevelInv
  <2>4. now \in Nat /\ sent[k] \in Nat /\ Cooldown[k] \in Nat
    BY CooldownAssumption DEF TypeOK
  <2> QED BY <2>2, <2>3, <2>4
<1> QED BY <1>1, <1>3, <1>4, PipelineHolds, PipelineDedups, DedupTypeCorrect, TableIsHistory, PTL
        DEF PipelineSpec

----------------------------------------------------------------------------
(* The intruders                                                           *)

ConfirmedTrack(t) == t # None /\ t.hits >= MinHits

\* The track is in the list.
Listed(t, list) ==
    \E i \in DOMAIN list : /\ list[i].id = t.id /\ list[i].class = t.sight.class
                           /\ list[i].zones = t.sight.zones /\ list[i].dwell = 0

\* Every confirmed track is in the list of them.
LEMMA ConfirmedIsListed ==
    ASSUME NEW table, NEW next, TrackTable(table, next),
           NEW o \in Objects, ConfirmedTrack(table[o])
    PROVE  Listed(table[o], ConfirmedTracks(table))
<1> DEFINE confirmed == {p \in Objects : table[p] # None /\ table[p].hits >= MinHits}
<1>1. PICK list, ids : list = ConfirmedTracks(table) /\ ids = {table[p].id : p \in confirmed}
  OBVIOUS
<1>2. o \in confirmed /\ table[o].id \in ids
  BY <1>1 DEF ConfirmedTrack
<1>3. ids \in SUBSET (1..MaxTracks)
  <2>1. \A p \in confirmed : table[p] \in TrackType
    BY DEF TrackTable
  <2> QED BY <1>1, <2>1 DEF TrackType
<1>4. ids \in SUBSET Int /\ IsFiniteSet(ids)
  <2>1. IsFiniteSet(1..MaxTracks)
    BY FS_Interval, SurveillanceAssumption
  <2>2. IsFiniteSet(ids)
    BY <1>3, <2>1, FS_Subset
  <2>3. \A id \in 1..MaxTracks : id \in Int
    OBVIOUS
  <2> QED BY <1>3, <2>2, <2>3
<1>5. PICK inOrder : inOrder = Ascending(ids)
  OBVIOUS
<1> DEFINE made(t) == [id |-> t.id, class |-> t.sight.class, zones |-> t.sight.zones,
                       fast |-> t.sight.fast, still |-> FALSE, against |-> t.sight.against,
                       dwell |-> 0]
           of(i) == CHOOSE p \in confirmed : table[p].id = inOrder[i]
<1>6. list = [i \in DOMAIN inOrder |-> made(table[of(i)])]
  BY <1>1, <1>5 DEF ConfirmedTracks
<1>7. PICK i \in DOMAIN inOrder : inOrder[i] = table[o].id
  <2> HIDE DEF confirmed
  <2>1. /\ DOMAIN inOrder = 1..Cardinality(ids)
        /\ Rank(ids, table[o].id) \in 1..Cardinality(ids)
        /\ inOrder[Rank(ids, table[o].id)] = table[o].id
    BY <1>2, <1>4, <1>5, AscendingProperties
  <2> QED BY <2>1
<1>8. of(i) = o
  <2>1. of(i) \in confirmed /\ table[of(i)].id = inOrder[i]
    BY <1>2, <1>7
  <2> QED BY <1>2, <1>7, <2>1 DEF TrackTable
<1>9. i \in DOMAIN list /\ list[i] = made(table[o])
  BY <1>6, <1>8
<1>10. /\ list[i].id = table[o].id /\ list[i].class = table[o].sight.class
       /\ list[i].zones = table[o].sight.zones /\ list[i].dwell = 0
  BY <1>9
<1> QED BY <1>1, <1>9, <1>10 DEF Listed

\* An object that has been in view is not in the background, the gate has seen motion as
\* often, and the frames held back and the tracker's hits account for them all.
SeenInv ==
    \A o \in Objects : seen[o] > 0 =>
      /\ background # None /\ o \notin DOMAIN background
      /\ enabled => consecutive >= MinFrames \/ consecutive >= seen[o]
      /\ \/ ConfirmedTrack(tracks[o])
         \/ seen[o] <= (IF consecutive < MinFrames THEN consecutive ELSE MinFrames - 1)
                       + (IF tracks[o] = None THEN 0 ELSE tracks[o].hits)

\* Who has been in view often enough is a confirmed track.
LEMMA SeenIsConfirmed ==
    ASSUME NEW frames \in 0..MinFrames, NEW t, t = None \/ t.hits \in Nat,
           \/ ConfirmedTrack(t)
           \/ Needed <= (IF frames < MinFrames THEN frames ELSE MinFrames - 1)
                         + (IF t = None THEN 0 ELSE t.hits)
    PROVE  ConfirmedTrack(t)
<1>1. MinFrames \in Nat /\ MinHits \in Nat \ {0} /\ MinFrames >= 1
  BY GateAssumption, SurveillanceAssumption DEF Gate!Config
<1> QED BY <1>1 DEF Needed, ConfirmedTrack

\* An object in view before another background is motion.
LEMMA InViewIsMotion ==
    ASSUME NEW scene, NEW o \in DOMAIN scene, background # None, o \notin DOMAIN background
    PROVE  Gate!RawMotion(scene)
BY DEF Gate!RawMotion

\* What is read of an object that was or is in view.
LEMMA ReadSeen ==
    ASSUME FrameInv, SeenInv, NEW scene, Read(scene), NEW o \in Objects, seen'[o] > 0
    PROVE  /\ o \in DOMAIN scene /\ background # None /\ o \notin DOMAIN background
           /\ background' = background /\ enabled' = enabled
           /\ seen[o] \in Nat /\ seen'[o] \in Nat /\ consecutive \in 0..MinFrames
           /\ seen'[o] = seen[o] \/ (frame' # "lost" /\ seen'[o] = seen[o] + 1)
           /\ enabled => consecutive' = IF consecutive < MinFrames THEN consecutive + 1
                                        ELSE consecutive
           /\ ~enabled => consecutive' = consecutive
           /\ enabled => Gate!Streak(scene) = consecutive'
<1>1. seen'[o] = IF o \notin DOMAIN scene \/ background = None THEN 0
                 ELSE IF o \in DOMAIN background THEN seen[o]
                 ELSE IF seen[o] < Needed /\ frame' # "lost" THEN seen[o] + 1
                 ELSE seen[o]
  BY DEF Read
<1>2. /\ consecutive \in 0..MinFrames /\ MinFrames \in Nat /\ seen[o] \in 0..Needed
      /\ Needed \in Int
  BY GateAssumption, SurveillanceAssumption DEF FrameInv, Gate!TypeOK, Gate!Config, Needed
<1>3. o \in DOMAIN scene /\ background # None
  BY <1>1
<1>4. o \notin DOMAIN background
  BY <1>1, <1>3 DEF SeenInv
<1>5. Gate!RawMotion(scene)
  BY <1>3, <1>4, InViewIsMotion
<1>6. /\ background' = background /\ enabled' = enabled
      /\ enabled => Gate!Streak(scene) = consecutive'
      /\ ~enabled => consecutive' = consecutive
  BY <1>3 DEF Read, Gate!Detect, Gate!vars
<1>7. Gate!Streak(scene) = IF consecutive < MinFrames THEN consecutive + 1 ELSE consecutive
  BY <1>5 DEF Gate!Streak
<1>8. seen'[o] = seen[o] \/ (frame' # "lost" /\ seen'[o] = seen[o] + 1)
  BY <1>1, <1>3, <1>4
<1>9. seen[o] \in Nat /\ seen'[o] \in Nat
  BY <1>2, <1>8
<1> QED BY <1>2, <1>3, <1>4, <1>6, <1>7, <1>8, <1>9

\* A frame of an object in view keeps what is known of it.
LEMMA ReadKeepsSeen ==
    ASSUME ZonesInv, ClockInv, FrameInv, TracksInv, SeenInv,
           NEW scene \in setup.scenes, Hold(scene) \/ Lose(scene) \/ Analyze(scene)
    PROVE  SeenInv'
<1> SUFFICES ASSUME NEW o \in Objects, seen'[o] > 0
             PROVE  /\ background' # None /\ o \notin DOMAIN background'
                    /\ enabled' => consecutive' >= MinFrames \/ consecutive' >= seen'[o]
                    /\ \/ ConfirmedTrack(tracks'[o])
                       \/ seen'[o] <= (IF consecutive' < MinFrames THEN consecutive' ELSE MinFrames - 1)
                                      + (IF tracks'[o] = None THEN 0 ELSE tracks'[o].hits)
  BY DEF SeenInv, ConfirmedTrack
<1>1. Read(scene)
  BY DEF Hold, Lose, Analyze
<1>2. /\ o \in DOMAIN scene /\ background # None /\ o \notin DOMAIN background
      /\ background' = background /\ enabled' = enabled
      /\ seen[o] \in Nat /\ seen'[o] \in Nat /\ consecutive \in 0..MinFrames
      /\ seen'[o] = seen[o] \/ (frame' # "lost" /\ seen'[o] = seen[o] + 1)
      /\ enabled => consecutive' = IF consecutive < MinFrames THEN consecutive + 1
                                   ELSE consecutive
      /\ ~enabled => consecutive' = consecutive
      /\ enabled => Gate!Streak(scene) = consecutive'
  BY <1>1, ReadSeen
<1>3. MinFrames \in Nat /\ MinFrames >= 1 /\ MinHits \in Nat /\ MinHits >= 1
  BY GateAssumption, SurveillanceAssumption DEF Gate!Config
<1>4. PICK s, c, h, u, d : /\ s = seen[o] /\ c = consecutive /\ u = seen'[o] /\ d = consecutive'
                           /\ h = IF tracks[o] = None THEN 0 ELSE tracks[o].hits
  OBVIOUS
<1>5. h \in Nat /\ (ConfirmedTrack(tracks[o]) => h >= MinHits)
  BY <1>4 DEF TracksInv, TrackTable, TrackType, ConfirmedTrack
<1>6. /\ s = 0 \/ ConfirmedTrack(tracks[o])
         \/ s <= (IF c < MinFrames THEN c ELSE MinFrames - 1) + h
      /\ s = 0 \/ (enabled => c >= MinFrames \/ c >= s)
  BY <1>2, <1>4 DEF SeenInv
<1>7. enabled' => d >= MinFrames \/ d >= u
  BY <1>2, <1>3, <1>4, <1>6
<1>8. CASE Hold(scene)
  <2>1. /\ tracks' = tracks /\ enabled /\ Gate!Streak(scene) < MinFrames
    BY <1>2, <1>3, <1>8 DEF Hold, Gate!Sends, Gate!Confirmed
  <2>2. d = c + 1 /\ d < MinFrames
    BY <1>2, <1>3, <1>4, <2>1
  <2>3. ConfirmedTrack(tracks[o]) \/ u <= d + h
    BY <1>2, <1>4, <1>5, <1>6, <2>2
  <2> QED BY <1>2, <1>4, <1>7, <2>1, <2>2, <2>3
<1>9. CASE Lose(scene)
  <2>1. tracks' = tracks /\ frame' = "lost"
    BY <1>9 DEF Lose
  <2>2. u = s /\ d >= c /\ d \in 0..MinFrames /\ s > 0
    BY <1>2, <1>3, <1>4, <2>1
  <2>3. ConfirmedTrack(tracks[o]) \/ u <= (IF d < MinFrames THEN d ELSE MinFrames - 1) + h
    BY <1>2, <1>3, <1>4, <1>5, <1>6, <2>2
  <2> QED BY <1>2, <1>4, <1>7, <2>1, <2>3
<1>10. CASE Analyze(scene)
  <2>1. PICK t, id, new : t = tracks[o] /\ new = tracks'[o]
                          /\ id = nextId + Cardinality({p \in Newcomers(scene) : p < o})
    OBVIOUS
  <2>2. new = Tracked(o, scene, id)
    BY <1>10, <2>1 DEF Analyze, Update
  <2>3. t \in TrackType \cup {None}
    BY <2>1 DEF TracksInv, TrackTable
  <2>4. new # None /\ (new.hits >= MinHits \/ new.hits = h + 1)
    <3>0. None \notin TrackType
      BY TrackIsSome
    <3>1. new \in TrackType /\ (new.hits >= MinHits \/ new.hits = h + 1)
      <4>1. TracksInv'
        BY <1>10, TracksStep DEF PipelineNext
      <4>2. setup' = setup
        BY <1>1 DEF Read
      <4>3. new \in TrackType \cup {None}
        BY <2>1, <4>1, <4>2 DEF TracksInv, TrackTable, TrackType
      <4>4. CASE t = None
        <5>1. new = [id |-> id, hits |-> 1, misses |-> 0, sight |-> scene[o]]
          BY <1>2, <2>1, <2>2, <4>4 DEF Tracked
        <5>2. h = 0 /\ new.hits = 1
          BY <1>4, <2>1, <4>4, <5>1
        <5>3. new # None
          <6>1. Sightings(setup) = UNION {{sc[p] : p \in DOMAIN sc} : sc \in setup.scenes}
            BY DEF Sightings
          <6>2. id \in 1..MaxTracks
            <7>1. o \in Newcomers(scene)
              BY <1>2, <2>1, <4>4 DEF Newcomers
            <7>2. PICK n, e : n = Cardinality(Newcomers(scene)) /\ e = Earlier(scene, o)
              OBVIOUS
            <7>3. n \in Nat /\ e \in 0..(n - 1)
              BY <7>1, <7>2, NewcomersPlaced
            <7>4. nextId \in 1..(MaxTracks + 1) /\ nextId + n <= MaxTracks + 1 /\ id = nextId + e
              BY <1>10, <2>1, <7>2 DEF Analyze, TracksInv, Earlier
            <7> QED BY <7>3, <7>4, SurveillanceAssumption
          <6>3. scene[o] \in Sightings(setup)
            BY <1>2, <6>1
          <6>4. new \in TrackType
            BY <1>3, <5>1, <6>2, <6>3, SurveillanceAssumption DEF TrackType
          <6> QED BY <3>0, <6>4
        <5> QED BY <4>3, <5>2, <5>3
      <4>5. CASE t # None
        <5>1. t \in TrackType /\ h = t.hits
          BY <1>4, <2>1, <2>3, <4>5
        <5>2. PICK hits : hits = IF t.hits < MinHits THEN t.hits + 1 ELSE t.hits
          OBVIOUS
        <5>3. new = [t EXCEPT !.misses = 0, !.sight = scene[o],
                              !.hits = IF @ < MinHits THEN @ + 1 ELSE @]
          BY <1>2, <2>1, <2>2, <4>5 DEF Tracked
        <5>4. new = [id |-> t.id, hits |-> hits, misses |-> 0, sight |-> scene[o]]
          BY <5>1, <5>2, <5>3 DEF TrackType
        <5>5. hits \in 1..MinHits /\ (hits >= MinHits \/ hits = h + 1)
          BY <1>3, <5>1, <5>2 DEF TrackType
        <5>6. scene[o] \in Sightings(setup)
          BY <1>2 DEF Sightings
        <5>7. new \in TrackType
          BY <5>1, <5>4, <5>5, <5>6, SurveillanceAssumption DEF TrackType
        <5> QED BY <5>4, <5>5, <5>7
      <4> QED BY <4>4, <4>5
    <3> QED BY <3>0, <3>1
  <2>5. CASE new.hits >= MinHits
    <3>1. ConfirmedTrack(tracks'[o])
      BY <2>1, <2>4, <2>5 DEF ConfirmedTrack
    <3> QED BY <1>2, <1>4, <1>7, <3>1
  <2>6. CASE new.hits < MinHits /\ new.hits = h + 1
    <3>1. ~ConfirmedTrack(tracks[o])
      BY <1>3, <1>5, <2>6
    <3>2. s <= (IF c < MinFrames THEN c ELSE MinFrames - 1) + h
      BY <1>2, <1>3, <1>4, <1>5, <1>6, <3>1
    <3>3. d >= c /\ d \in 0..MinFrames /\ u <= s + 1
      BY <1>2, <1>3, <1>4
    <3>4. u <= (IF d < MinFrames THEN d ELSE MinFrames - 1) + (h + 1)
      BY <1>2, <1>3, <1>4, <1>5, <3>2, <3>3
    <3> QED BY <1>2, <1>4, <1>7, <2>1, <2>4, <2>6, <3>4
  <2>7. new.hits \in Int
    <3>1. TracksInv' /\ setup' = setup
      BY <1>10, TracksStep, ZonesStep DEF PipelineNext
    <3> QED BY <2>1, <2>4, <3>1 DEF TracksInv, TrackTable, TrackType
  <2> QED BY <1>3, <2>4, <2>5, <2>6, <2>7
<1> QED BY <1>8, <1>9, <1>10

\* Every step keeps what is known of the objects in view.
LEMMA SeenStep ==
    ASSUME ZonesInv, ClockInv, FrameInv, TracksInv, SeenInv, [PipelineNext]_pipelineVars
    PROVE  SeenInv'
<1>1. ASSUME UNCHANGED <<seen, background, enabled, consecutive, tracks>> PROVE SeenInv'
  BY <1>1 DEF SeenInv, ConfirmedTrack
<1>2. ASSUME NEW scene \in setup.scenes, Hold(scene) \/ Lose(scene) \/ Analyze(scene)
      PROVE  SeenInv'
  BY <1>2, ReadKeepsSeen
<1>3. CASE NoFrame \/ AnswerNext \/ NextTick \/ UNCHANGED pipelineVars
  <2>1. UNCHANGED <<seen, background, enabled, consecutive, tracks>>
    BY <1>3 DEF NoFrame, AnswerNext, NextTick, pipelineVars, gateVars, ownVars
  <2> QED BY <1>1, <2>1
<1>4. CASE Switch
  <2>1. /\ UNCHANGED <<background, consecutive, tracks>> /\ enabled' = ~enabled
        /\ seen' = IF enabled THEN seen ELSE [o \in Objects |-> 0]
    BY <1>4 DEF Switch, Gate!SetEnabled
  <2>2. CASE enabled
    BY <2>1, <2>2 DEF SeenInv, ConfirmedTrack
  <2>3. CASE ~enabled
    <3>1. \A o \in Objects : ~(seen'[o] > 0)
      BY <2>1, <2>3
    <3> QED BY <3>1 DEF SeenInv
  <2> QED BY <2>2, <2>3
<1> QED BY <1>2, <1>3, <1>4 DEF PipelineNext

\* The rules' event of somebody in a restricted zone without rules of its own: there has
\* been one within its cooldown, or it is still to be asked for.
RulesReport(t, z) ==
    zoneOf[z].type = "restricted" /\ zoneOf[z].rules = << >> =>
      LET k == <<"intrusion", t.id, z>> IN
      /\ k \in Keys
      /\ \/ sent[k] > 0 /\ (sent[k] = now \/ now - sent[k] < Cooldown[k])
         \/ \E x \in S!ToSet(pending) : x.key = k

\* The smart zone's event of a person in it: there has been one within its cooldown.
ZoneReports(t, z) ==
    t.sight.class = "person" =>
      /\ z \in DOMAIN zoneOf /\ lastEvent[z] # None
      /\ lastEvent[z] = now \/ now - lastEvent[z] < zoneOf[z].cooldown

ZonesOf(t) == {t.sight.zones[i] : i \in DOMAIN t.sight.zones}

Reported(t) == \A z \in ZonesOf(t) : RulesReport(t, z) /\ ZoneReports(t, z)

\* Zones that are always strict, and not safe.
Strict(zone) == zone.timeWindows = {} /\ zone.baseMode = "STRICT" /\ zone.type # "safe_zone"

\* No frame of an intruder is held back, what an analysed one shows of him is reported or
\* about to be, and the events of a strict zone are of MEDIUM at least.
IntruderInv ==
    /\ StartTime <= now
    /\ frame = "held" => \A o \in Objects : seen[o] # Needed
    /\ frame = "analysed" => \A o \in Objects : seen[o] = Needed => Reported(tracks[o])
    /\ \A z \in DOMAIN zoneOf : lastEvent[z] # None /\ Strict(zoneOf[z]) => smartLevel[z] >= Medium

\* The frame of a confirmed track asks for the intrusion of it into each of its restricted
\* zones that has no rules of its own.
LEMMA IntrusionAsked ==
    ASSUME ZonesInv, NEW list, TrackList(list), NEW t, Listed(t, list), NEW z \in ZonesOf(t),
           zoneOf[z].type = "restricted", zoneOf[z].rules = << >>
    PROVE  /\ <<"intrusion", t.id, z>> \in Keys
           /\ \E x \in S!ToSet(Analysis(list)) : x.key = <<"intrusion", t.id, z>>
<1>1. PICK i \in DOMAIN list : /\ list[i].id = t.id /\ list[i].class = t.sight.class
                               /\ list[i].zones = t.sight.zones /\ list[i].dwell = 0
  BY DEF Listed
<1>2. PICK l : l = list[i]
  OBVIOUS
<1>3. Sighted(l)
  BY <1>2 DEF TrackList
<1>4. PICK j \in DOMAIN l.zones : z = l.zones[j]
  BY <1>1, <1>2 DEF ZonesOf
<1>5. z \in DOMAIN zoneOf
  BY <1>3, <1>4, SightedZones
<1>6. PICK rules : rules = EffectiveRules(zoneOf[z])
  OBVIOUS
<1>7. rules = << Rule("*", High, "intrusion") >>
  BY <1>6 DEF EffectiveRules, DefaultZoneRules
<1>8. PICK x : x = Ask("intrusion", l.id, z, High, {z})
  OBVIOUS
<1>9. RuleAsked(x, l, z, rules)
  <2>1. 1 \in DOMAIN rules
    BY <1>7
  <2>2. /\ rules[1].class = "*" /\ rules[1].trigger = 0
        /\ rules[1].type = "intrusion" /\ rules[1].risk = High
    BY <1>7 DEF Rule
  <2>3. FitsClass(rules[1], l.class) /\ l.dwell >= rules[1].trigger
    BY <1>1, <1>2, <2>2 DEF FitsClass
  <2>4. x = Ask(rules[1].type, l.id, z, rules[1].risk, {z})
    BY <1>8, <2>2
  <2> QED BY <2>1, <2>3, <2>4 DEF RuleAsked
<1>10. RuleAsks(l, z) \in Seq(Question) /\ x \in S!ToSet(RuleAsks(l, z))
  BY <1>3, <1>5, <1>6, <1>9, RuleAsksMade
<1>11. x \in Question
  BY <1>10, ListEntries
<1>12. x.key = <<"intrusion", t.id, z>>
  BY <1>1, <1>2, <1>8 DEF Ask
<1>13. x \in S!ToSet(Analysis(list))
  <2>1. ZonesAsked(l, Analysis(list))
    BY <1>2, AnalysisMade
  <2> QED BY <1>4, <1>10, <2>1 DEF ZonesAsked
<1> QED BY <1>11, <1>12, <1>13 DEF Question

\* Somebody in a zone is counted there.
LEMMA IntruderCounted ==
    ASSUME ZonesInv, NEW list, TrackList(list), NEW t, Listed(t, list), NEW z \in ZonesOf(t),
           t.sight.class = "person"
    PROVE  /\ z \in DOMAIN zoneOf
           /\ PeopleOf(list)[z] \in Nat /\ PeopleOf(list)[z] > 0
<1>1. PICK i \in DOMAIN list : /\ list[i].id = t.id /\ list[i].class = t.sight.class
                               /\ list[i].zones = t.sight.zones /\ list[i].dwell = 0
  BY DEF Listed
<1>2. Sighted(list[i])
  BY DEF TrackList
<1>3. PICK j \in DOMAIN list[i].zones : z = list[i].zones[j]
  BY <1>1 DEF ZonesOf
<1>4. list[i].zones \in Seq(DOMAIN zoneOf)
  BY <1>2, SightedZones
<1>5. z \in DOMAIN zoneOf /\ S!Contains(list[i].zones, z)
  BY <1>3, <1>4 DEF S!Contains
<1>6. PICK those : those = {p \in DOMAIN list : /\ list[p].class = "person"
                                               /\ S!Contains(list[p].zones, z)}
  OBVIOUS
<1>7. i \in those
  BY <1>1, <1>5, <1>6
<1>8. IsFiniteSet(those)
  <2>1. PICK n \in Nat : DOMAIN list = 1..n
    BY DEF TrackList
  <2>2. PICK places : places = 1..n
    OBVIOUS
  <2>3. IsFiniteSet(places)
    BY <2>2, FS_Interval
  <2>4. those \in SUBSET places
    BY <1>6, <2>1, <2>2
  <2> QED BY <2>3, <2>4, FS_Subset
<1>9. Cardinality(those) \in Nat /\ Cardinality(those) # 0
  BY <1>7, <1>8, FS_CardinalityType, FS_EmptySet
<1>10. PeopleOf(list)[z] = Cardinality(those)
  BY <1>5, <1>6 DEF PeopleOf
<1> QED BY <1>5, <1>9, <1>10

\* A step of the rules and the zones keeps what is strict.
LEMMA StrictLevel ==
    ASSUME NEW zone, Strict(zone), NEW t, NEW people, NEW s
    PROVE  Smart!EffectiveLevel(zone, Smart!Mode(zone, t), people, s) >= Medium
<1>1. Smart!Mode(zone, t) = "STRICT"
  BY DEF Strict, Smart!Mode
<1>2. PICK a, b : a = Smart!RiskFromScore(s) /\ b = Smart!SmartLevel(zone, "STRICT", people)
  OBVIOUS
<1>3. a \in 0..3
  BY <1>2 DEF Smart!RiskFromScore, Smart!Low, Smart!Medium, Smart!High, Smart!Critical
<1>4. b \in 1..3
  BY <1>2 DEF Smart!SmartLevel, Smart!Low, Smart!Medium, Smart!High
<1>5. Smart!EffectiveLevel(zone, "STRICT", people, s) = IF a >= b THEN a ELSE b
  BY <1>2 DEF Smart!EffectiveLevel, Strict
<1> QED BY <1>1, <1>3, <1>4, <1>5 DEF Medium

\* An analysed frame reports the intruders, or will.
LEMMA IntruderAnalyzed ==
    ASSUME ZonesInv, ClockInv, FrameInv, TracksInv, SeenInv, SmartInv, IntruderInv,
           NEW scene \in setup.scenes, Analyze(scene)
    PROVE  IntruderInv'
<1>1. [PipelineNext]_pipelineVars
  BY DEF PipelineNext
<1>2. ZonesInv' /\ FrameInv' /\ TracksInv' /\ SeenInv'
  BY <1>1, ZonesStep, FrameStep, TracksStep, SeenStep
<1>3. zoneOf' = zoneOf /\ setup' = setup /\ now' = now /\ sent' = sent /\ frame' = "analysed"
  BY <1>1, ZonesStep DEF Analyze, AnalyzeFrame, vars
<1>4. PICK table, next : table = tracks' /\ next = nextId'
  OBVIOUS
<1>5. TrackTable(table, next)
  BY <1>2, <1>3, <1>4 DEF TracksInv, TrackTable, TrackType
<1>6. PICK list : list = ConfirmedTracks(table)
  OBVIOUS
<1>7. TrackList(list)
  BY <1>5, <1>6, ConfirmedAreListed
<1>8. PICK people : people = PeopleOf(list)
  OBVIOUS
<1>9. PICK reporting : reporting = {z \in DOMAIN zoneOf : Smart!Reports(z, zoneOf[z], people[z], now)}
  OBVIOUS
<1>10. /\ pending' = Analysis(list)
       /\ lastEvent' = [z \in Zones |-> IF z \in reporting THEN now ELSE lastEvent[z]]
       /\ smartLevel' = [z \in Zones |->
             IF z \in reporting
             THEN Smart!EffectiveLevel(zoneOf[z], Smart!Mode(zoneOf[z], now), people[z], score'[z])
             ELSE smartLevel[z]]
  BY <1>4, <1>6, <1>8, <1>9 DEF Analyze, AnalyzeFrame, Smart!Analyze
<1>11. /\ DOMAIN zoneOf \subseteq Zones
       /\ \A z \in DOMAIN zoneOf : Smart!Settings(zoneOf[z])
  BY SetupAssumption DEF ZonesInv
<1>12. ASSUME NEW z \in DOMAIN zoneOf, lastEvent'[z] # None, Strict(zoneOf[z])
       PROVE  smartLevel'[z] >= Medium
  <2>1. CASE z \in reporting
    <3>1. PICK s : s = score'[z]
      OBVIOUS
    <3>2. smartLevel'[z] = Smart!EffectiveLevel(zoneOf[z], Smart!Mode(zoneOf[z], now), people[z], s)
      BY <1>10, <1>11, <2>1, <3>1
    <3> QED BY <1>12, <3>2, StrictLevel
  <2>2. CASE z \notin reporting
    <3>1. lastEvent'[z] = lastEvent[z] /\ smartLevel'[z] = smartLevel[z]
      BY <1>10, <1>11, <2>2
    <3> QED BY <1>12, <3>1 DEF IntruderInv
  <2> QED BY <2>1, <2>2
<1>13. ASSUME NEW o \in Objects, seen'[o] = Needed PROVE Reported(tracks[o])'
  <2>1. PICK t : t = table[o]
    OBVIOUS
  <2>2. ConfirmedTrack(t)
    <3>1. PICK frames : frames = consecutive'
      OBVIOUS
    <3>2. frames \in 0..MinFrames
      BY <1>2, <3>1 DEF FrameInv, Gate!TypeOK
    <3>3. t = None \/ t.hits \in Nat
      BY <1>5, <2>1 DEF TrackTable, TrackType
    <3>4. Needed > 0
      BY GateAssumption, SurveillanceAssumption DEF Gate!Config, Needed
    <3>5. \/ ConfirmedTrack(t)
          \/ Needed <= (IF frames < MinFrames THEN frames ELSE MinFrames - 1)
                        + (IF t = None THEN 0 ELSE t.hits)
      BY <1>2, <1>4, <1>13, <2>1, <3>1, <3>4 DEF SeenInv, ConfirmedTrack
    <3> QED BY <3>2, <3>3, <3>5, SeenIsConfirmed
  <2>3. Listed(t, list)
    BY <1>5, <1>6, <2>1, <2>2, ConfirmedIsListed
  <2>4. ASSUME NEW z \in ZonesOf(t), zoneOf[z].type = "restricted", zoneOf[z].rules = << >>
        PROVE  /\ <<"intrusion", t.id, z>> \in Keys
               /\ \E x \in S!ToSet(Analysis(list)) : x.key = <<"intrusion", t.id, z>>
    BY <1>7, <2>3, <2>4, IntrusionAsked
  <2>5. ASSUME NEW z \in ZonesOf(t), t.sight.class = "person"
        PROVE  /\ z \in DOMAIN zoneOf /\ lastEvent'[z] # None
               /\ lastEvent'[z] = now \/ now - lastEvent'[z] < zoneOf[z].cooldown
    <3>1. z \in DOMAIN zoneOf /\ people[z] \in Nat /\ people[z] > 0
      BY <1>7, <1>8, <2>3, <2>5, IntruderCounted
    <3>2. /\ zoneOf[z].cooldown \in Nat /\ now \in Nat /\ lastEvent[z] \in Nat \cup {None}
          /\ None \notin Int
      BY <1>11, <3>1, ClockAssumption DEF Smart!Settings, ClockInv, SmartInv
    <3>3. CASE z \in reporting
      <4>1. lastEvent'[z] = now
        BY <1>10, <1>11, <3>1, <3>3
      <4> QED BY <3>1, <3>2, <4>1
    <3>4. CASE z \notin reporting
      <4>1. ~Smart!Reports(z, zoneOf[z], people[z], now)
        BY <1>9, <3>1, <3>4
      <4>2. lastEvent[z] # None /\ ~(now - lastEvent[z] >= zoneOf[z].cooldown)
        BY <3>1, <4>1 DEF Smart!Reports
      <4>3. lastEvent'[z] = lastEvent[z]
        BY <1>10, <1>11, <3>1, <3>4
      <4> QED BY <3>1, <3>2, <4>2, <4>3
    <3> QED BY <3>3, <3>4
  <2>6. tracks'[o] = t
    BY <1>4, <2>1
  <2>7. ASSUME NEW z \in ZonesOf(t) PROVE RulesReport(t, z)'
    BY <1>3, <1>10, <2>4, <2>7 DEF RulesReport
  <2>8. ASSUME NEW z \in ZonesOf(t) PROVE ZoneReports(t, z)'
    BY <1>3, <2>5, <2>8 DEF ZoneReports
  <2> QED BY <2>6, <2>7, <2>8 DEF Reported, ZonesOf, RulesReport, ZoneReports
<1> QED BY <1>3, <1>12, <1>13 DEF IntruderInv

\* The gate holds back no frame of somebody who has been in view for MinFrames of them.
LEMMA IntruderNotHeld ==
    ASSUME ZonesInv, ClockInv, FrameInv, TracksInv, SeenInv,
           NEW scene \in setup.scenes, Hold(scene), NEW o \in Objects
    PROVE  seen'[o] # Needed
<1>1. SUFFICES ASSUME seen'[o] = Needed PROVE FALSE
  OBVIOUS
<1>2. MinFrames \in Nat /\ MinHits \in Nat \ {0} /\ MinFrames >= 1
  BY GateAssumption, SurveillanceAssumption DEF Gate!Config
<1>3. seen'[o] > 0 /\ seen'[o] >= MinFrames
  BY <1>1, <1>2 DEF Needed
<1>4. /\ consecutive \in 0..MinFrames
      /\ enabled' = enabled
      /\ enabled => consecutive' = IF consecutive < MinFrames THEN consecutive + 1 ELSE consecutive
      /\ enabled => Gate!Streak(scene) = consecutive'
  BY <1>3, ReadSeen DEF Hold
<1>5. enabled /\ ~(Gate!Streak(scene) >= MinFrames)
  BY DEF Hold, Gate!Sends, Gate!Confirmed
<1>6. consecutive' < MinFrames /\ consecutive' \in Nat
  BY <1>2, <1>4, <1>5
<1>7. SeenInv'
  BY ReadKeepsSeen
<1>8. consecutive' >= MinFrames \/ consecutive' >= seen'[o]
  BY <1>3, <1>4, <1>5, <1>7 DEF SeenInv
<1> QED BY <1>1, <1>2, <1>3, <1>6, <1>8 DEF Needed

\* An answer keeps the reports: it is an event, or there has been one within the cooldown.
LEMMA IntruderAnswered ==
    ASSUME LongBooted, ZonesInv, TypeOK, TableInv, PendingInv, IntruderInv, AnswerNext
    PROVE  IntruderInv'
<1>1. PICK x, k, rest : x = Head(pending) /\ k = x.key /\ rest = Tail(pending)
  OBVIOUS
<1>2. k \in Keys /\ pending' = rest /\ S!ToSet(pending) = {x} \cup S!ToSet(rest)
  <2>1. pending \in Seq(Question) /\ pending # << >> /\ Ordered(pending, Question \X Question)
    BY DEF PendingInv, AnswerNext, Answer, Ordered
  <2>2. x \in Question /\ S!ToSet(pending) = {x} \cup S!ToSet(rest)
    BY <1>1, <2>1, TailOrdered
  <2> QED BY <1>1, <2>2 DEF Question, AnswerNext, Answer
<1>3. /\ Fire(k) \/ Suppress(k)
      /\ UNCHANGED <<zoneOf, tracks, frame, seen, lastEvent, smartLevel>>
  BY <1>1 DEF AnswerNext, Answer, smartVars, ownVars
<1>4. /\ now' = now /\ now \in Nat /\ sent[k] \in Nat /\ sent[k] <= now /\ Cooldown[k] \in Nat
      /\ Fire(k) => sent' = [sent EXCEPT ![k] = now]
      /\ Suppress(k) => now - sent[k] < Cooldown[k] /\ sent' = sent
  BY <1>2, <1>3, Answered
<1>5. StartTime > 0 /\ StartTime >= Cooldown[k] /\ StartTime <= now /\ StartTime \in Nat
  BY <1>2, ClockAssumption DEF LongBooted, IntruderInv
<1>6. sent'[k] > 0 /\ (sent'[k] = now \/ now - sent'[k] < Cooldown[k])
  <2>1. CASE Fire(k)
    <3>1. sent'[k] = now
      BY <1>2, <1>4, <2>1 DEF TypeOK
    <3> QED BY <1>4, <1>5, <3>1
  <2>2. CASE Suppress(k)
    BY <1>4, <1>5, <2>2
  <2> QED BY <1>3, <2>1, <2>2
<1>7. \A j \in Keys : j # k => sent'[j] = sent[j]
  BY <1>3, <1>4 DEF TypeOK
<1>8. ASSUME NEW t, NEW z, RulesReport(t, z) PROVE RulesReport(t, z)'
  <2>1. PICK j : j = <<"intrusion", t.id, z>>
    OBVIOUS
  <2>2. SUFFICES ASSUME zoneOf[z].type = "restricted", zoneOf[z].rules = << >>
                 PROVE  /\ j \in Keys
                        /\ \/ sent'[j] > 0 /\ (sent'[j] = now \/ now - sent'[j] < Cooldown[j])
                           \/ \E y \in S!ToSet(rest) : y.key = j
    BY <1>2, <1>3, <1>4, <2>1 DEF RulesReport
  <2>3. /\ j \in Keys
        /\ \/ sent[j] > 0 /\ (sent[j] = now \/ now - sent[j] < Cooldown[j])
           \/ \E y \in S!ToSet(pending) : y.key = j
    BY <1>8, <2>1, <2>2 DEF RulesReport
  <2>4. CASE j = k
    BY <1>2, <1>6, <2>4
  <2>5. CASE j # k
    BY <1>1, <1>2, <1>7, <2>3, <2>5
  <2> QED BY <2>4, <2>5
<1>9. ASSUME NEW t, NEW z, ZoneReports(t, z) PROVE ZoneReports(t, z)'
  BY <1>3, <1>4, <1>9 DEF ZoneReports
<1>10. ASSUME NEW t, Reported(t) PROVE Reported(t)'
  BY <1>8, <1>9, <1>10 DEF Reported
<1>11. ASSUME frame' = "analysed", NEW o \in Objects, seen'[o] = Needed PROVE Reported(tracks[o])'
  <2>1. PICK t : t = tracks[o]
    OBVIOUS
  <2>2. Reported(t)
    BY <1>3, <1>11, <2>1 DEF IntruderInv
  <2>3. Reported(t)' /\ tracks'[o] = t
    BY <1>3, <1>10, <2>1, <2>2
  <2> QED BY <2>3 DEF Reported, RulesReport, ZoneReports
<1>12. StartTime <= now' /\ (frame' = "held" => \A o \in Objects : seen'[o] # Needed)
  BY <1>3, <1>4 DEF IntruderInv
<1>13. \A z \in DOMAIN zoneOf' : lastEvent'[z] # None /\ Strict(zoneOf'[z]) => smartLevel'[z] >= Medium
  BY <1>3 DEF IntruderInv
<1> QED BY <1>11, <1>12, <1>13 DEF IntruderInv

\* Every step keeps the reports.
LEMMA IntruderStep ==
    ASSUME LongBooted, ZonesInv, ClockInv, FrameInv, TracksInv, SeenInv, SmartInv,
           TypeOK, TableInv, PendingInv, IntruderInv, [PipelineNext]_pipelineVars
    PROVE  IntruderInv'
<1>1. zoneOf' = zoneOf
  BY ZonesStep
<1>2. ASSUME StartTime <= now', UNCHANGED <<lastEvent, smartLevel>>, frame' \in {"none", "lost"}
      PROVE  IntruderInv'
  BY <1>1, <1>2 DEF IntruderInv
<1>3. ASSUME NEW scene \in setup.scenes, Hold(scene) PROVE IntruderInv'
  <2>1. UNCHANGED <<lastEvent, smartLevel>> /\ now' = now /\ frame' = "held"
    BY <1>3 DEF Hold, smartVars, vars
  <2>2. \A o \in Objects : seen'[o] # Needed
    BY <1>3, IntruderNotHeld
  <2> QED BY <1>1, <2>1, <2>2 DEF IntruderInv
<1>4. ASSUME NEW scene \in setup.scenes, Lose(scene) PROVE IntruderInv'
  <2>1. UNCHANGED <<lastEvent, smartLevel>> /\ now' = now /\ frame' = "lost"
    BY <1>4 DEF Lose, smartVars, vars
  <2> QED BY <1>2, <2>1 DEF IntruderInv
<1>5. ASSUME NEW scene \in setup.scenes, Analyze(scene) PROVE IntruderInv'
  BY <1>5, IntruderAnalyzed
<1>6. CASE AnswerNext
  BY <1>6, IntruderAnswered
<1>7. CASE NoFrame
  <2>1. UNCHANGED <<lastEvent, smartLevel>> /\ now' = now /\ frame' = "lost"
    BY <1>7 DEF NoFrame, smartVars, vars
  <2> QED BY <1>2, <2>1 DEF IntruderInv
<1>8. CASE Switch
  <2>1. UNCHANGED <<lastEvent, smartLevel>> /\ now' = now /\ frame' = "none"
    BY <1>8 DEF Switch, smartVars, vars
  <2> QED BY <1>2, <2>1 DEF IntruderInv
<1>9. CASE NextTick
  <2>1. UNCHANGED <<lastEvent, smartLevel>> /\ now' = now + 1 /\ frame' = "none"
    BY <1>9 DEF NextTick, Wait, Tick, smartVars
  <2>2. StartTime <= now'
    BY <2>1, ClockAssumption DEF IntruderInv, ClockInv
  <2> QED BY <1>2, <2>1, <2>2
<1>10. CASE UNCHANGED pipelineVars
  <2>1. /\ UNCHANGED <<now, sent, pending, zoneOf, tracks, frame, seen, lastEvent, smartLevel>>
    BY <1>10 DEF pipelineVars, vars, rulesVars, smartVars, ownVars
  <2> QED BY <2>1 DEF IntruderInv, Reported, RulesReport, ZoneReports
<1> QED BY <1>3, <1>4, <1>5, <1>6, <1>7, <1>8, <1>9, <1>10 DEF PipelineNext

\* Whoever has been in view for the frames the gate and the tracker need, since the gate
\* was last switched on, is reported, for every number of switches and of frames lost
\* (detect, CameraTracker.update, should_fire, _analyze_zone).
THEOREM IntrudersReported == LongBooted => (PipelineSpec => []IntruderReported)
<1> SUFFICES ASSUME LongBooted PROVE PipelineSpec => []IntruderReported
  OBVIOUS
<1> DEFINE Inv == ZonesInv /\ ClockInv /\ TracksInv /\ PendingInv
           Seeing == FrameInv /\ SmartInv /\ SeenInv /\ IntruderInv
<1>1. PipelineInit => Seeing
  <2> SUFFICES ASSUME PipelineInit PROVE Seeing
    OBVIOUS
  <2>1. FrameInv /\ SmartInv
    BY FramesInit
  <2>2. \A o \in Objects : seen[o] = 0
    BY DEF PipelineInit
  <2>3. SeenInv
    BY <2>2 DEF SeenInv
  <2>4. StartTime <= now /\ frame = "none"
    BY ClockAssumption DEF PipelineInit, RulesInit, Init
  <2>5. DOMAIN zoneOf \subseteq Zones
    BY ZonesInit, SetupAssumption DEF ZonesInv
  <2>6. \A z \in DOMAIN zoneOf : lastEvent[z] = None
    BY <2>5 DEF PipelineInit, Smart!Init
  <2>7. IntruderInv
    BY <2>4, <2>6 DEF IntruderInv
  <2> QED BY <2>1, <2>3, <2>7
<1>2. Inv /\ TypeOK /\ TableInv /\ Seeing /\ [PipelineNext]_pipelineVars => Seeing'
  BY FrameStep, SmartStep, SeenStep, IntruderStep
<1>3. Inv /\ TypeOK /\ TableInv /\ Seeing => IntruderReported
  <2> SUFFICES ASSUME Inv, TypeOK, TableInv, Seeing, pending = << >>,
                      frame \in {"held", "analysed"}, NEW o \in Objects, seen[o] = Needed
               PROVE  /\ frame = "analysed" /\ tracks[o] # None
                      /\ \A z \in ZonesOf(tracks[o]) :
                           LET k == <<"intrusion", tracks[o].id, z>> IN
                           /\ zoneOf[z].type = "restricted" /\ zoneOf[z].rules = << >> =>
                                sent[k] > 0 /\ (sent[k] = now \/ now - sent[k] < Cooldown[k])
                           /\ tracks[o].sight.class = "person" =>
                                /\ lastEvent[z] # None
                                /\ lastEvent[z] = now \/ now - lastEvent[z] < zoneOf[z].cooldown
                                /\ Strict(zoneOf[z]) => smartLevel[z] >= Medium
    BY DEF IntruderReported, ZonesOf, Strict
  <2>1. frame = "analysed" /\ Reported(tracks[o])
    BY DEF IntruderInv
  <2>2. tracks[o] # None
    <3>1. consecutive \in 0..MinFrames
      BY DEF FrameInv, Gate!TypeOK
    <3>2. tracks[o] = None \/ tracks[o].hits \in Nat
      BY DEF TracksInv, TrackTable, TrackType
    <3>3. Needed > 0
      BY GateAssumption, SurveillanceAssumption DEF Gate!Config, Needed
    <3>4. ConfirmedTrack(tracks[o])
      BY <3>1, <3>2, <3>3, SeenIsConfirmed DEF SeenInv
    <3> QED BY <3>4 DEF ConfirmedTrack
  <2>3. S!ToSet(pending) = {}
    BY DEF S!ToSet
  <2>4. PICK t : t = tracks[o]
    OBVIOUS
  <2>5. ASSUME NEW z \in ZonesOf(t)
        PROVE  LET k == <<"intrusion", t.id, z>> IN
               /\ zoneOf[z].type = "restricted" /\ zoneOf[z].rules = << >> =>
                    sent[k] > 0 /\ (sent[k] = now \/ now - sent[k] < Cooldown[k])
               /\ t.sight.class = "person" =>
                    /\ lastEvent[z] # None
                    /\ lastEvent[z] = now \/ now - lastEvent[z] < zoneOf[z].cooldown
                    /\ Strict(zoneOf[z]) => smartLevel[z] >= Medium
    <3>1. RulesReport(t, z) /\ ZoneReports(t, z)
      BY <2>1, <2>4, <2>5 DEF Reported
    <3> QED BY <2>3, <3>1 DEF RulesReport, ZoneReports, IntruderInv
  <2> QED BY <2>1, <2>2, <2>4, <2>5
<1> QED BY <1>1, <1>2, <1>3, PipelineHolds, PipelineDedups, DedupTypeCorrect, TableIsHistory, PTL
        DEF PipelineSpec
=============================================================================
