------------------------- MODULE BackpressureProofs -------------------------
(***************************************************************************)
(* Theorems about Backpressure, for every set of requests and every limit. *)
(***************************************************************************)
EXTENDS Backpressure, FiniteSetTheorems, SequenceTheorems, TLAPS

-----------------------------------------------------------------------------
\* What a request has left to do, and what it holds

Steps == [op : {"acquire", "upstream", "release"}, lane : Lanes]

\* Each lane is acquired at most once and given back afterwards; nothing is
\* acquired that is held, and nothing released that is not.
Fits(todo, held) ==
    /\ \A i, j \in DOMAIN todo : i < j /\ todo[i].op # "upstream" => todo[i] # todo[j]
    /\ \A i \in DOMAIN todo : todo[i].op = "acquire" =>
          /\ todo[i].lane \notin held
          /\ \E j \in DOMAIN todo : i < j /\ todo[j] = Release(todo[i].lane)
    /\ \A i \in DOMAIN todo : todo[i].op = "release" =>
          \/ todo[i].lane \in held
          \/ \E j \in DOMAIN todo : j < i /\ todo[j] = Acquire(todo[i].lane)
    /\ \A l \in held : \E i \in DOMAIN todo : todo[i] = Release(l)

\* Steps are told apart by what they do and by their lanes.
LEMMA StepFacts ==
    ASSUME NEW l \in Lanes
    PROVE  /\ Acquire(l) \in Steps /\ Upstream(l) \in Steps /\ Release(l) \in Steps
           /\ Acquire(l).op = "acquire" /\ Acquire(l).lane = l
           /\ Upstream(l).op = "upstream" /\ Upstream(l).lane = l
           /\ Release(l).op = "release" /\ Release(l).lane = l
           /\ \A s \in Steps : /\ s.op = "acquire" /\ s.lane = l => s = Acquire(l)
                               /\ s.op = "release" /\ s.lane = l => s = Release(l)
  BY DEF Steps, Acquire, Upstream, Release

\* A request with nothing left to do holds nothing.
LEMMA FitsNothing ==
    ASSUME NEW held, Fits(<<>>, held)
    PROVE  held = {}
  BY DEF Fits

\* The step at the head is carried out.
LEMMA FitsAdvanced ==
    ASSUME NEW todo \in Seq(Steps), NEW held \in SUBSET Lanes, todo # <<>>, Fits(todo, held)
    PROVE  LET l == Head(todo).lane
               op == Head(todo).op
           IN  /\ l \in Lanes
               /\ op = "acquire" => l \notin held /\ Fits(Tail(todo), held \cup {l})
               /\ op = "upstream" => Fits(Tail(todo), held)
               /\ op = "release" => l \in held /\ Fits(Tail(todo), held \ {l})
<1> DEFINE l == Head(todo).lane
           op == Head(todo).op
           rest == Tail(todo)
<1>0. /\ DOMAIN todo = 1 .. Len(todo) /\ DOMAIN rest = 1 .. Len(rest)
      /\ Len(todo) \in Nat /\ Len(todo) >= 1 /\ Len(rest) = Len(todo) - 1
      /\ \A i \in 1 .. Len(rest) : rest[i] = todo[i + 1]
      /\ Head(todo) = todo[1] /\ todo[1] \in Steps /\ rest \in Seq(Steps)
  OBVIOUS
<1>a. l \in Lanes /\ 1 \in DOMAIN todo
  BY <1>0 DEF Steps
<1>b. \A i \in DOMAIN rest :
         i \in Nat /\ i >= 1 /\ i + 1 \in DOMAIN todo /\ rest[i] = todo[i + 1] /\ rest[i] \in Steps
  BY <1>0
<1>c. \A i \in DOMAIN todo :
         /\ i \in Nat /\ i >= 1
         /\ i = 1 \/ (i - 1 \in DOMAIN rest /\ rest[i - 1] = todo[i])
  <2> SUFFICES ASSUME NEW i \in DOMAIN todo, i # 1
               PROVE  i - 1 \in DOMAIN rest /\ rest[i - 1] = todo[i]
    BY <1>0
  <2>1. i - 1 \in 1 .. Len(rest) /\ (i - 1) + 1 = i
    BY <1>0
  <2> QED
    BY <1>0, <2>1
<1>1. Head(todo) = todo[1] /\ todo[1] \in Steps /\ l \in Lanes /\ 1 \in DOMAIN todo
  BY <1>0, <1>a
<1>2. \A i, j \in DOMAIN rest : i < j /\ rest[i].op # "upstream" => rest[i] # rest[j]
  BY <1>b DEF Fits
<1>3. \A i \in DOMAIN rest : rest[i].op = "acquire" =>
         \E j \in DOMAIN rest : i < j /\ rest[j] = Release(rest[i].lane)
  <2> SUFFICES ASSUME NEW i \in DOMAIN rest, rest[i].op = "acquire"
               PROVE  \E j \in DOMAIN rest : i < j /\ rest[j] = Release(rest[i].lane)
    OBVIOUS
  <2>1. PICK j \in DOMAIN todo : i + 1 < j /\ todo[j] = Release(rest[i].lane)
    BY <1>b DEF Fits
  <2>2. j - 1 \in DOMAIN rest /\ rest[j - 1] = todo[j] /\ i < j - 1
    BY <1>b, <1>c, <2>1
  <2> QED
    BY <2>1, <2>2
<1>4. \A i \in DOMAIN rest : rest[i].op = "acquire" => rest[i].lane \notin held
  BY <1>b DEF Fits
<1>5. \A i \in DOMAIN rest : rest[i].op = "release" =>
         \/ rest[i].lane \in held
         \/ todo[1] = Acquire(rest[i].lane)
         \/ \E j \in DOMAIN rest : j < i /\ rest[j] = Acquire(rest[i].lane)
  <2> SUFFICES ASSUME NEW i \in DOMAIN rest, rest[i].op = "release", rest[i].lane \notin held
               PROVE  \/ todo[1] = Acquire(rest[i].lane)
                      \/ \E j \in DOMAIN rest : j < i /\ rest[j] = Acquire(rest[i].lane)
    OBVIOUS
  <2>1. PICK j \in DOMAIN todo : j < i + 1 /\ todo[j] = Acquire(rest[i].lane)
    BY <1>b DEF Fits
  <2>2. j = 1 \/ (j - 1 \in DOMAIN rest /\ rest[j - 1] = todo[j] /\ j - 1 < i)
    BY <1>b, <1>c, <2>1
  <2> QED
    BY <2>1, <2>2
<1>6. \A m \in held : todo[1] = Release(m) \/ \E i \in DOMAIN rest : rest[i] = Release(m)
  BY <1>c DEF Fits
<1>7. ASSUME op = "acquire" PROVE l \notin held /\ Fits(rest, held \cup {l})
  <2>1. todo[1] = Acquire(l) /\ l \notin held
    BY <1>1, <1>7, StepFacts DEF Fits
  <2>2. \A i \in DOMAIN rest : rest[i].op = "acquire" => rest[i].lane # l
    <3> SUFFICES ASSUME NEW i \in DOMAIN rest, rest[i].op = "acquire", rest[i].lane = l PROVE FALSE
      OBVIOUS
    <3>1. todo[i + 1] = todo[1] /\ i + 1 \in DOMAIN todo /\ 1 < i + 1
      BY <1>b, <1>1, <2>1, StepFacts
    <3> QED
      BY <3>1, <1>1, <1>7 DEF Fits
  <2>3. \E i \in DOMAIN rest : rest[i] = Release(l)
    <3>1. PICK i \in DOMAIN todo : 1 < i /\ todo[i] = Release(l)
      BY <1>1, <1>7 DEF Fits
    <3> QED
      BY <3>1, <1>c
  <2>4. \A m \in held : \E i \in DOMAIN rest : rest[i] = Release(m)
    BY <1>6, <2>1, <1>1, StepFacts
  <2>5. \A i \in DOMAIN rest : todo[1] = Acquire(rest[i].lane) => rest[i].lane = l
    BY <1>1, <2>1 DEF Acquire
  <2> QED
    BY <1>2, <1>3, <1>4, <1>5, <2>1, <2>2, <2>3, <2>4, <2>5 DEF Fits
<1>8. ASSUME op = "upstream" PROVE Fits(rest, held)
  <2>1. \A m : todo[1] # Acquire(m) /\ todo[1] # Release(m)
    BY <1>1, <1>8 DEF Acquire, Release
  <2> QED
    BY <1>2, <1>3, <1>4, <1>5, <1>6, <2>1 DEF Fits
<1>9. ASSUME op = "release" PROVE l \in held /\ Fits(rest, held \ {l})
  <2>1. todo[1] = Release(l) /\ l \in held /\ \A m : todo[1] # Acquire(m)
    <3>1. todo[1] = Release(l)
      BY <1>1, <1>9, StepFacts
    <3>2. \A j \in DOMAIN todo : ~(j < 1)
      BY <1>c
    <3> QED
      BY <1>1, <1>9, <3>1, <3>2 DEF Fits, Acquire
  <2>2. \A i \in DOMAIN rest : rest[i].op = "release" => rest[i].lane # l
    <3> SUFFICES ASSUME NEW i \in DOMAIN rest, rest[i].op = "release", rest[i].lane = l PROVE FALSE
      OBVIOUS
    <3>1. todo[i + 1] = todo[1] /\ i + 1 \in DOMAIN todo /\ 1 < i + 1
      BY <1>b, <1>1, <2>1, StepFacts
    <3> QED
      BY <3>1, <1>1, <1>9 DEF Fits
  <2>3. \A m \in held \ {l} : \E i \in DOMAIN rest : rest[i] = Release(m)
    BY <1>6, <2>1, <1>1, StepFacts
  <2> QED
    BY <1>2, <1>3, <1>4, <1>5, <2>1, <2>2, <2>3 DEF Fits
<1> QED
  BY <1>1, <1>7, <1>8, <1>9

\* Two pieces of work over different lanes, one after the other.
Uses(todo, L) == \A i \in DOMAIN todo : todo[i].lane \in L

LEMMA FitsBoth ==
    ASSUME NEW u \in Seq(Steps), NEW w \in Seq(Steps), NEW L, NEW M, NEW A, NEW B,
           Fits(u, A), Fits(w, B), Uses(u, L), Uses(w, M), L \cap M = {}
    PROVE  u \o w \in Seq(Steps) /\ Fits(u \o w, A \cup B) /\ Uses(u \o w, L \cup M)
<1> DEFINE both == u \o w
           m == Len(u)
<1>1. /\ both \in Seq(Steps) /\ m \in Nat /\ Len(w) \in Nat
      /\ DOMAIN u = 1 .. m /\ DOMAIN w = 1 .. Len(w) /\ DOMAIN both = 1 .. m + Len(w)
      /\ \A i \in 1 .. m : both[i] = u[i]
      /\ \A i \in 1 .. Len(w) : both[m + i] = w[i]
  OBVIOUS
<1>2. \A i \in DOMAIN both :
         \/ i \in DOMAIN u /\ both[i] = u[i]
         \/ i > m /\ i - m \in DOMAIN w /\ both[i] = w[i - m]
  <2> SUFFICES ASSUME NEW i \in DOMAIN both, ~(i \in DOMAIN u)
               PROVE  i > m /\ i - m \in DOMAIN w /\ both[i] = w[i - m]
    BY <1>1
  <2>1. i - m \in 1 .. Len(w) /\ m + (i - m) = i
    BY <1>1
  <2> QED
    BY <1>1, <2>1
<1>3. /\ \A i \in DOMAIN u : i \in DOMAIN both /\ both[i] = u[i] /\ i <= m /\ i \in Nat
      /\ \A i \in DOMAIN w : m + i \in DOMAIN both /\ both[m + i] = w[i] /\ m + i > m /\ i \in Nat
  BY <1>1
<1>h. A \subseteq L /\ B \subseteq M
  BY DEF Fits, Uses, Release
<1>4. ASSUME NEW i \in DOMAIN both, NEW j \in DOMAIN both, i < j, both[i].op # "upstream"
      PROVE  both[i] # both[j]
  <2>1. CASE j \in DOMAIN u /\ both[j] = u[j]
    BY <1>1, <1>2, <1>4, <2>1 DEF Fits
  <2>2. CASE i \in DOMAIN u /\ both[i] = u[i] /\ j > m /\ j - m \in DOMAIN w /\ both[j] = w[j - m]
    BY <2>2 DEF Uses
  <2>3. CASE i > m /\ i - m \in DOMAIN w /\ both[i] = w[i - m] /\ j > m /\ j - m \in DOMAIN w /\ both[j] = w[j - m]
    <3>1. i - m < j - m
      BY <1>1, <1>4
    <3> QED
      BY <2>3, <3>1, <1>4 DEF Fits
  <2> QED
    BY <1>1, <1>2, <1>4, <2>1, <2>2, <2>3
<1>5. ASSUME NEW i \in DOMAIN both, both[i].op = "acquire"
      PROVE  /\ both[i].lane \notin A \cup B
             /\ \E j \in DOMAIN both : i < j /\ both[j] = Release(both[i].lane)
  <2>1. CASE i \in DOMAIN u /\ both[i] = u[i]
    <3>1. PICK j \in DOMAIN u : i < j /\ u[j] = Release(u[i].lane)
      BY <2>1, <1>5 DEF Fits
    <3>2. both[i].lane \notin A \cup B
      BY <2>1, <1>5, <1>h DEF Fits, Uses
    <3> QED
      BY <3>1, <3>2, <2>1, <1>3
  <2>2. CASE i > m /\ i - m \in DOMAIN w /\ both[i] = w[i - m]
    <3>1. PICK j \in DOMAIN w : i - m < j /\ w[j] = Release(w[i - m].lane)
      BY <2>2, <1>5 DEF Fits
    <3>2. i < m + j
      BY <3>1, <1>1
    <3>3. both[i].lane \notin A \cup B
      BY <2>2, <1>5, <1>h DEF Fits, Uses
    <3> QED
      BY <3>1, <3>2, <3>3, <2>2, <1>3
  <2> QED
    BY <1>2, <2>1, <2>2
<1>6. ASSUME NEW i \in DOMAIN both, both[i].op = "release", both[i].lane \notin A \cup B
      PROVE  \E j \in DOMAIN both : j < i /\ both[j] = Acquire(both[i].lane)
  <2>1. CASE i \in DOMAIN u /\ both[i] = u[i]
    <3>1. PICK j \in DOMAIN u : j < i /\ u[j] = Acquire(u[i].lane)
      BY <2>1, <1>6 DEF Fits
    <3> QED
      BY <3>1, <2>1, <1>3
  <2>2. CASE i > m /\ i - m \in DOMAIN w /\ both[i] = w[i - m]
    <3>1. PICK j \in DOMAIN w : j < i - m /\ w[j] = Acquire(w[i - m].lane)
      BY <2>2, <1>6 DEF Fits
    <3>2. m + j < i
      BY <3>1, <1>1
    <3> QED
      BY <3>1, <3>2, <2>2, <1>3
  <2> QED
    BY <1>2, <2>1, <2>2
<1>7. Uses(both, L \cup M)
  BY <1>2 DEF Uses
<1>8. ASSUME NEW l \in A \cup B
      PROVE  \E i \in DOMAIN both : both[i] = Release(l)
  <2>1. CASE l \in A
    BY <2>1, <1>3 DEF Fits
  <2>2. CASE l \in B
    BY <2>2, <1>3 DEF Fits
  <2> QED
    BY <2>1, <2>2
<1> QED
  BY <1>1, <1>4, <1>5, <1>6, <1>7, <1>8 DEF Fits

\* What a request that gives up has left: it gives back what it holds.
LEMMA FitsHeld ==
    ASSUME NEW held, NEW l \in Lanes
    PROVE  /\ Held(held, l) \in Seq(Steps)
           /\ Fits(Held(held, l), held \cap {l})
           /\ Uses(Held(held, l), {l})
<1>1. CASE l \in held
  BY <1>1, StepFacts DEF Held, Fits, Uses
<1>2. CASE l \notin held
  BY <1>2 DEF Held, Fits, Uses
<1> QED
  BY <1>1, <1>2

LEMMA FitsUnwind ==
    ASSUME NEW held \in SUBSET Lanes
    PROVE  Unwind(held) \in Seq(Steps) /\ Fits(Unwind(held), held)
<1> DEFINE H(l) == Held(held, l)
           inner == {"public"} \cup {"shared"}
           all == inner \cup {"contact"}
<1>1. /\ "public" \in Lanes /\ "shared" \in Lanes /\ "contact" \in Lanes /\ "http" \in Lanes
  BY DEF Lanes
<1>2. \A l \in Lanes : H(l) \in Seq(Steps) /\ Fits(H(l), held \cap {l}) /\ Uses(H(l), {l})
  BY FitsHeld
<1> HIDE DEF H
<1>3. LET both == H("public") \o H("shared")
      IN  both \in Seq(Steps) /\ Fits(both, (held \cap {"public"}) \cup (held \cap {"shared"}))
          /\ Uses(both, inner)
  BY <1>1, <1>2, FitsBoth, {"public"} \cap {"shared"} = {}
<1>4. LET three == (H("public") \o H("shared")) \o H("contact")
      IN  three \in Seq(Steps)
          /\ Fits(three, (held \cap {"public"}) \cup (held \cap {"shared"}) \cup (held \cap {"contact"}))
          /\ Uses(three, all)
  BY <1>1, <1>2, <1>3, FitsBoth, inner \cap {"contact"} = {}
<1>5. LET four == ((H("public") \o H("shared")) \o H("contact")) \o H("http")
      IN  four \in Seq(Steps)
          /\ Fits(four, (held \cap {"public"}) \cup (held \cap {"shared"}) \cup (held \cap {"contact"})
                         \cup (held \cap {"http"}))
  BY <1>1, <1>2, <1>4, FitsBoth, all \cap {"http"} = {}
<1>6. held = (held \cap {"public"}) \cup (held \cap {"shared"}) \cup (held \cap {"contact"})
             \cup (held \cap {"http"})
  BY DEF Lanes
<1>7. Unwind(held) = ((H("public") \o H("shared")) \o H("contact")) \o H("http")
  BY DEF Unwind, H
<1> QED
  BY <1>5, <1>6, <1>7

\* Work in the HTTP lane.
LEMMA FitsEnclosed ==
    ASSUME NEW w \in Seq(Steps), NEW L, Fits(w, {}), Uses(w, L), NEW l \in Lanes \ L
    PROVE  LET all == <<Acquire(l)>> \o w \o <<Release(l)>>
           IN  all \in Seq(Steps) /\ Fits(all, {})
<1> DEFINE all == <<Acquire(l)>> \o w \o <<Release(l)>>
           n == Len(w)
<1>1. /\ Acquire(l) \in Steps /\ Release(l) \in Steps
      /\ <<Acquire(l)>> \in Seq(Steps) /\ <<Release(l)>> \in Seq(Steps)
  BY StepFacts
<1>2. /\ all \in Seq(Steps) /\ n \in Nat
      /\ DOMAIN w = 1 .. n /\ DOMAIN all = 1 .. n + 2
      /\ all[1] = Acquire(l) /\ all[n + 2] = Release(l)
      /\ \A i \in 1 .. n : all[i + 1] = w[i]
  BY <1>1
<1>3. \A i \in DOMAIN all :
         \/ i = 1 /\ all[i] = Acquire(l)
         \/ i = n + 2 /\ all[i] = Release(l)
         \/ i > 1 /\ i < n + 2 /\ i - 1 \in DOMAIN w /\ all[i] = w[i - 1] /\ all[i].lane # l
  <2> SUFFICES ASSUME NEW i \in DOMAIN all, i # 1, i # n + 2
               PROVE  i > 1 /\ i < n + 2 /\ i - 1 \in DOMAIN w /\ all[i] = w[i - 1] /\ all[i].lane # l
    BY <1>2
  <2>1. i - 1 \in 1 .. n /\ (i - 1) + 1 = i
    BY <1>2
  <2> QED
    BY <1>2, <2>1 DEF Uses
<1> HIDE DEF all
<1>4. ASSUME NEW i \in DOMAIN all, NEW j \in DOMAIN all, i < j, all[i].op # "upstream"
      PROVE  all[i] # all[j]
  <2>1. CASE i > 1 /\ i - 1 \in DOMAIN w /\ all[i] = w[i - 1] /\ j - 1 \in DOMAIN w /\ all[j] = w[j - 1]
    <3>1. i - 1 < j - 1
      BY <1>2, <1>4
    <3> QED
      BY <2>1, <3>1, <1>4 DEF Fits
  <2> QED
    BY <1>2, <1>3, <1>4, <2>1, StepFacts
<1>5. ASSUME NEW i \in DOMAIN all, all[i].op = "acquire"
      PROVE  \E j \in DOMAIN all : i < j /\ all[j] = Release(all[i].lane)
  <2>1. CASE i = 1
    BY <1>2, <2>1, StepFacts
  <2>2. CASE i > 1 /\ i - 1 \in DOMAIN w /\ all[i] = w[i - 1]
    <3>1. PICK j \in DOMAIN w : i - 1 < j /\ w[j] = Release(w[i - 1].lane)
      BY <2>2, <1>5 DEF Fits
    <3>2. j + 1 \in DOMAIN all /\ all[j + 1] = w[j] /\ i < j + 1
      BY <3>1, <1>2
    <3> QED
      BY <3>1, <3>2, <2>2
  <2> QED
    BY <1>3, <1>5, <2>1, <2>2, StepFacts
<1>6. ASSUME NEW i \in DOMAIN all, all[i].op = "release"
      PROVE  \E j \in DOMAIN all : j < i /\ all[j] = Acquire(all[i].lane)
  <2>1. CASE i = n + 2
    BY <1>2, <2>1, StepFacts
  <2>2. CASE i > 1 /\ i - 1 \in DOMAIN w /\ all[i] = w[i - 1]
    <3>1. PICK j \in DOMAIN w : j < i - 1 /\ w[j] = Acquire(w[i - 1].lane)
      BY <2>2, <1>6 DEF Fits
    <3>2. j + 1 \in DOMAIN all /\ all[j + 1] = w[j] /\ j + 1 < i
      BY <3>1, <1>2
    <3> QED
      BY <3>1, <3>2, <2>2
  <2> QED
    BY <1>3, <1>6, <2>1, <2>2, StepFacts
<1> QED
  BY <1>2, <1>4, <1>5, <1>6 DEF Fits, all

\* Every request gives back each permit it takes.
LEMMA FitsRequests ==
    ASSUME NEW t \in Tasks, NEW todo \in Requests(t)
    PROVE  todo \in Seq(Steps) /\ Fits(todo, {})
<1> DEFINE lookups == {"public", "shared"}
           contacts == {"contact"}
           work == lookups \cup contacts
<1>1. "public" \in Lanes /\ "shared" \in Lanes /\ "contact" \in Lanes /\ "http" \in Lanes
  BY DEF Lanes
<1>2. Lookup(t) \in Seq(Steps) /\ Fits(Lookup(t), {}) /\ Uses(Lookup(t), lookups)
  <2>1. CASE t \in Public
    <3>1. Lookup(t) = <<Acquire("public"), Acquire("shared"), Upstream("shared"),
                        Release("public"), Release("shared")>>
      BY <2>1 DEF Lookup
    <3> QED
      BY <3>1, <1>1, StepFacts DEF Fits, Uses, Acquire, Release, Upstream, Steps
  <2>2. CASE t \notin Public
    <3>1. Lookup(t) = <<Acquire("shared"), Upstream("shared"), Release("shared")>>
      BY <2>2 DEF Lookup
    <3> QED
      BY <3>1, <1>1, StepFacts DEF Fits, Uses, Acquire, Release, Upstream, Steps
  <2> QED
    BY <2>1, <2>2
<1>3. Enrichment \in Seq(Steps) /\ Fits(Enrichment, {}) /\ Uses(Enrichment, contacts)
  BY <1>1, StepFacts DEF Enrichment, Fits, Uses, Acquire, Release, Upstream, Steps
<1>4. LET both == Lookup(t) \o Enrichment
      IN  both \in Seq(Steps) /\ Fits(both, {}) /\ Uses(both, work)
  <2>1. LET both == Lookup(t) \o Enrichment
        IN  both \in Seq(Steps) /\ Fits(both, {} \cup {}) /\ Uses(both, work)
    BY <1>2, <1>3, FitsBoth, lookups \cap contacts = {}
  <2> QED
    BY <2>1, {} \cup {} = {}
<1>5. \A w \in {Lookup(t), Enrichment, Lookup(t) \o Enrichment} :
         w \in Seq(Steps) /\ Fits(w, {}) /\ Uses(w, work)
  BY <1>2, <1>3, <1>4 DEF Uses
<1>6. "http" \in Lanes \ work
  BY <1>1
<1>7. CASE t \in Public
  <2>1. PICK w \in {Lookup(t), Enrichment, Lookup(t) \o Enrichment} :
           todo = <<Acquire("http")>> \o w \o <<Release("http")>>
    BY <1>7 DEF Requests
  <2> QED
    BY <1>5, <1>6, <2>1, FitsEnclosed
<1>8. CASE t \notin Public
  BY <1>5, <1>8 DEF Requests
<1> QED
  BY <1>7, <1>8

-----------------------------------------------------------------------------
\* The invariant

Queueing == {"count", "enter", "wait", "granted", "leave"}
Records == [pc : {"idle", "run"} \cup Queueing, todo : Seq(Steps), held : SUBSET Lanes]

\* One request: what it has left fits what it holds; a request in a queue is
\* about to acquire, and one that leaves it may have been given its permit.
Granting(r) == r.pc = "leave" /\ Head(r.todo).lane \in r.held
Sound(r) ==
    /\ r \in Records
    /\ r.pc = "idle" => r.todo = <<>>
    /\ r.pc \in Queueing => r.todo # <<>> /\ Head(r.todo).op = "acquire"
    /\ Fits(IF Granting(r) THEN Tail(r.todo) ELSE r.todo, r.held)

\* Who stands in a line waits for its lane, at one place.
Lined(queue, f) ==
    \A l \in Lanes :
        /\ \A i \in DOMAIN queue[l] :
              f[queue[l][i]].pc = "wait" /\ Head(f[queue[l][i]].todo).lane = l
        /\ \A i, j \in DOMAIN queue[l] : i # j => queue[l][i] # queue[l][j]

TypeOK ==
    /\ free \in [Lanes -> Nat] /\ waiters \in [Lanes -> Nat]
    /\ line \in [Lanes -> Seq(Tasks)]
    /\ task \in [Tasks -> Records]

Inv ==
    /\ TypeOK
    /\ \A t \in Tasks : Sound(task[t])
    /\ Lined(line, task)
    /\ PermitsConserved

\* A request that goes on is sound.
LEMMA ReadySound ==
    ASSUME NEW todo \in Seq(Steps), NEW held \in SUBSET Lanes, Fits(todo, held)
    PROVE  Sound(Ready(todo, held)) /\ Ready(todo, held).pc \in {"idle", "run"}
  BY DEF Ready, Sound, Records, Queueing, Granting

\* The lane of a request that is about to do something.
LEMMA NextStep ==
    ASSUME Inv, NEW t \in Tasks, task[t].todo # <<>>
    PROVE  /\ Lane(t) \in Lanes /\ task[t].todo \in Seq(Steps) /\ task[t].held \in SUBSET Lanes
           /\ task[t] \in Records /\ Tail(task[t].todo) \in Seq(Steps)
<1>1. task[t] \in Records
  BY DEF Inv, TypeOK
<1>2. task[t].todo \in Seq(Steps) /\ Head(task[t].todo) \in Steps /\ Tail(task[t].todo) \in Seq(Steps)
  BY <1>1 DEF Records
<1> QED
  BY <1>1, <1>2 DEF Records, Steps, Lane

-----------------------------------------------------------------------------
\* Counting

HoldersIn(f, l) == {t \in Tasks : l \in f[t].held}
GrantedIn(f, l) == {t \in Tasks : f[t].pc = "granted" /\ Head(f[t].todo).lane = l}
QueueIn(f, l) == {t \in Tasks : f[t].pc \in {"enter", "wait", "granted", "leave"}
                                  /\ Head(f[t].todo).lane = l}

\* What one request, or one member, contributes to them.
Member(t, S) == IF t \in S THEN 1 ELSE 0
Holds(r, l) == IF l \in r.held THEN 1 ELSE 0
IsGranted(r, l) == IF r.pc = "granted" /\ Head(r.todo).lane = l THEN 1 ELSE 0
IsQueued(r, l) ==
    IF r.pc \in {"enter", "wait", "granted", "leave"} /\ Head(r.todo).lane = l THEN 1 ELSE 0

LEMMA SameSets ==
    ASSUME NEW l
    PROVE  /\ Holders(l) = HoldersIn(task, l) /\ Holders(l)' = HoldersIn(task', l)
           /\ Granted(l) = GrantedIn(task, l) /\ Granted(l)' = GrantedIn(task', l)
           /\ InQueue(l) = QueueIn(task, l) /\ InQueue(l)' = QueueIn(task', l)
  BY DEF Holders, HoldersIn, Granted, GrantedIn, InQueue, QueueIn, At, Lane

\* A set of requests when one of them enters it, leaves it, or does neither.
LEMMA SizeChange ==
    ASSUME NEW S \in SUBSET Tasks, NEW T \in SUBSET Tasks, NEW t \in Tasks,
           \A u \in Tasks \ {t} : u \in S <=> u \in T
    PROVE  /\ Cardinality(S) \in Nat /\ Cardinality(T) \in Nat
           /\ Cardinality(T) = Cardinality(S) + Member(t, T) - Member(t, S)
<1>1. IsFiniteSet(S) /\ IsFiniteSet(T)
  BY TasksAssumption, FS_Subset
<1>2. Cardinality(S) \in Nat /\ Cardinality(T) \in Nat
  BY <1>1, FS_CardinalityType
<1>3. CASE t \in S <=> t \in T
  <2>1. S = T
    BY <1>3
  <2> QED
    BY <1>2, <2>1, <1>3 DEF Member
<1>4. CASE t \in T /\ t \notin S
  <2>1. T = S \cup {t}
    BY <1>4
  <2>2. Cardinality(T) = Cardinality(S) + 1
    BY <1>1, <1>4, <2>1, FS_AddElement
  <2> QED
    BY <1>2, <1>4, <2>2 DEF Member
<1>5. CASE t \in S /\ t \notin T
  <2>1. T = S \ {t}
    BY <1>5
  <2>2. Cardinality(T) = Cardinality(S) - 1
    BY <1>1, <1>5, <2>1, FS_RemoveElement
  <2> QED
    BY <1>2, <1>5, <2>2 DEF Member
<1> QED
  BY <1>3, <1>4, <1>5

\* What the counts of a lane become when one request changes.
Tallied(f, g, t, l) ==
    /\ Cardinality(HoldersIn(f, l)) \in Nat /\ Cardinality(HoldersIn(g, l)) \in Nat
    /\ Cardinality(GrantedIn(f, l)) \in Nat /\ Cardinality(GrantedIn(g, l)) \in Nat
    /\ Cardinality(QueueIn(f, l)) \in Nat /\ Cardinality(QueueIn(g, l)) \in Nat
    /\ Cardinality(HoldersIn(g, l)) =
          Cardinality(HoldersIn(f, l)) + Holds(g[t], l) - Holds(f[t], l)
    /\ Cardinality(GrantedIn(g, l)) =
          Cardinality(GrantedIn(f, l)) + IsGranted(g[t], l) - IsGranted(f[t], l)
    /\ Cardinality(QueueIn(g, l)) =
          Cardinality(QueueIn(f, l)) + IsQueued(g[t], l) - IsQueued(f[t], l)

LEMMA Tally ==
    ASSUME NEW f, NEW g, NEW t \in Tasks, \A u \in Tasks \ {t} : g[u] = f[u], NEW l
    PROVE  Tallied(f, g, t, l)
<1>1. /\ HoldersIn(f, l) \in SUBSET Tasks /\ HoldersIn(g, l) \in SUBSET Tasks
      /\ GrantedIn(f, l) \in SUBSET Tasks /\ GrantedIn(g, l) \in SUBSET Tasks
      /\ QueueIn(f, l) \in SUBSET Tasks /\ QueueIn(g, l) \in SUBSET Tasks
  BY DEF HoldersIn, GrantedIn, QueueIn
<1>2. /\ Member(t, HoldersIn(f, l)) = Holds(f[t], l)
      /\ Member(t, HoldersIn(g, l)) = Holds(g[t], l)
      /\ Member(t, GrantedIn(f, l)) = IsGranted(f[t], l)
      /\ Member(t, GrantedIn(g, l)) = IsGranted(g[t], l)
      /\ Member(t, QueueIn(f, l)) = IsQueued(f[t], l)
      /\ Member(t, QueueIn(g, l)) = IsQueued(g[t], l)
  BY DEF HoldersIn, GrantedIn, QueueIn, Holds, IsGranted, IsQueued, Member
<1>3. \A u \in Tasks \ {t} : u \in HoldersIn(f, l) <=> u \in HoldersIn(g, l)
  BY DEF HoldersIn
<1>4. \A u \in Tasks \ {t} : u \in GrantedIn(f, l) <=> u \in GrantedIn(g, l)
  BY DEF GrantedIn
<1>5. \A u \in Tasks \ {t} : u \in QueueIn(f, l) <=> u \in QueueIn(g, l)
  BY DEF QueueIn
<1>6. \A S, T \in SUBSET Tasks :
         (\A u \in Tasks \ {t} : u \in S <=> u \in T) =>
            /\ Cardinality(S) \in Nat /\ Cardinality(T) \in Nat
            /\ Cardinality(T) = Cardinality(S) + Member(t, T) - Member(t, S)
  BY SizeChange
<1>7. /\ Cardinality(HoldersIn(f, l)) \in Nat /\ Cardinality(HoldersIn(g, l)) \in Nat
      /\ Cardinality(HoldersIn(g, l)) =
            Cardinality(HoldersIn(f, l)) + Member(t, HoldersIn(g, l)) - Member(t, HoldersIn(f, l))
  BY <1>1, <1>3, <1>6
<1>8. /\ Cardinality(GrantedIn(f, l)) \in Nat /\ Cardinality(GrantedIn(g, l)) \in Nat
      /\ Cardinality(GrantedIn(g, l)) =
            Cardinality(GrantedIn(f, l)) + Member(t, GrantedIn(g, l)) - Member(t, GrantedIn(f, l))
  BY <1>1, <1>4, <1>6
<1>9. /\ Cardinality(QueueIn(f, l)) \in Nat /\ Cardinality(QueueIn(g, l)) \in Nat
      /\ Cardinality(QueueIn(g, l)) =
            Cardinality(QueueIn(f, l)) + Member(t, QueueIn(g, l)) - Member(t, QueueIn(f, l))
  BY <1>1, <1>5, <1>6
<1> QED
  BY <1>2, <1>7, <1>8, <1>9 DEF Tallied

-----------------------------------------------------------------------------
\* One request changes

\* A step that changes one request, and what the lanes have, keeps the invariant
\* if it moves as many permits and places as it takes.
LEMMA OneChanges ==
    ASSUME Inv, NEW t \in Tasks, NEW r, Sound(r), task' = [task EXCEPT ![t] = r],
           free' \in [Lanes -> Nat], waiters' \in [Lanes -> Nat],
           line' \in [Lanes -> Seq(Tasks)], Lined(line', task'),
           \A l \in Lanes :
             /\ free'[l] + IsGranted(r, l) + Holds(r, l) =
                   free[l] + IsGranted(task[t], l) + Holds(task[t], l)
             /\ waiters'[l] - IsQueued(r, l) = waiters[l] - IsQueued(task[t], l)
             /\ line'[l] # <<>> => free'[l] = 0
             /\ waiters'[l] <= MaxQueued[l]
    PROVE  Inv'
<1>1. task \in [Tasks -> Records] /\ r \in Records
  BY DEF Inv, TypeOK, Sound
<1>2. task' \in [Tasks -> Records] /\ task'[t] = r /\ \A u \in Tasks \ {t} : task'[u] = task[u]
  BY <1>1
<1>3. TypeOK'
  BY <1>2 DEF TypeOK
<1>4. \A u \in Tasks : Sound(task'[u])
  BY <1>2 DEF Inv
<1>5. ASSUME NEW l \in Lanes
      PROVE  /\ free'[l] + Cardinality(Granted(l)') + Cardinality(Holders(l)') = Limit[l]
             /\ waiters'[l] = Cardinality(InQueue(l)')
  <2>1. /\ free[l] + Cardinality(GrantedIn(task, l)) + Cardinality(HoldersIn(task, l)) = Limit[l]
        /\ waiters[l] = Cardinality(QueueIn(task, l))
    BY SameSets DEF Inv, PermitsConserved
  <2>2. Tallied(task, task', t, l) /\ task'[t] = r
    BY <1>2, Tally
  <2>3. /\ free[l] \in Nat /\ waiters[l] \in Nat /\ free'[l] \in Nat /\ waiters'[l] \in Nat
        /\ Limit[l] \in Nat
    BY LimitAssumption DEF Inv, TypeOK
  <2>4. /\ Holds(r, l) \in Nat /\ IsGranted(r, l) \in Nat /\ IsQueued(r, l) \in Nat
        /\ Holds(task[t], l) \in Nat /\ IsGranted(task[t], l) \in Nat /\ IsQueued(task[t], l) \in Nat
    BY DEF Holds, IsGranted, IsQueued
  <2>5. /\ Granted(l)' = GrantedIn(task', l) /\ Holders(l)' = HoldersIn(task', l)
        /\ InQueue(l)' = QueueIn(task', l)
    BY SameSets
  <2>6. /\ free'[l] + IsGranted(r, l) + Holds(r, l) =
              free[l] + IsGranted(task[t], l) + Holds(task[t], l)
        /\ waiters'[l] - IsQueued(r, l) = waiters[l] - IsQueued(task[t], l)
    OBVIOUS
  <2> DEFINE h == Cardinality(HoldersIn(task, l))  h1 == Cardinality(HoldersIn(task', l))
             g == Cardinality(GrantedIn(task, l))  g1 == Cardinality(GrantedIn(task', l))
             q == Cardinality(QueueIn(task, l))    q1 == Cardinality(QueueIn(task', l))
  <2>7. /\ h1 = h + Holds(r, l) - Holds(task[t], l)
        /\ g1 = g + IsGranted(r, l) - IsGranted(task[t], l)
        /\ q1 = q + IsQueued(r, l) - IsQueued(task[t], l)
        /\ h \in Nat /\ g \in Nat /\ q \in Nat
    BY <2>2 DEF Tallied
  <2>8. free[l] + g + h = Limit[l] /\ waiters[l] = q
    BY <2>1
  <2> DEFINE x == Holds(r, l)     x0 == Holds(task[t], l)
             y == IsGranted(r, l) y0 == IsGranted(task[t], l)
             z == IsQueued(r, l)  z0 == IsQueued(task[t], l)
             a == free[l]  a1 == free'[l]  w == waiters[l]  w1 == waiters'[l]
             n == Limit[l]
  <2>9. /\ a \in Nat /\ a1 \in Nat /\ w \in Nat /\ w1 \in Nat /\ n \in Nat
        /\ x \in Nat /\ x0 \in Nat /\ y \in Nat /\ y0 \in Nat /\ z \in Nat /\ z0 \in Nat
        /\ a1 + y + x = a + y0 + x0 /\ w1 - z = w - z0
        /\ a + g + h = n /\ w = q
        /\ h1 = h + x - x0 /\ g1 = g + y - y0 /\ q1 = q + z - z0
        /\ h \in Nat /\ g \in Nat /\ q \in Nat
    BY <2>3, <2>4, <2>6, <2>7, <2>8
  <2> HIDE DEF h, g, q, h1, g1, q1, x, x0, y, y0, z, z0, a, a1, w, w1, n
  <2>10. a1 + g1 + h1 = n
    <3>1. h1 \in Int /\ g1 \in Int
      BY <2>9
    <3> QED
      BY <2>9, <3>1
  <2>11. w1 = q1
    BY <2>9
  <2> QED
    BY <2>5, <2>10, <2>11 DEF h1, g1, q1, a1, w1, n
<1>6. PermitsConserved'
  BY <1>5 DEF PermitsConserved
<1> QED
  BY <1>3, <1>4, <1>6 DEF Inv

\* The lines stay as they are when a request changes that is in none.
LEMMA SameLines ==
    ASSUME Inv, NEW t \in Tasks, task[t].pc # "wait", NEW r, task' = [task EXCEPT ![t] = r],
           NEW queue \in [Lanes -> Seq(Tasks)], Lined(queue, task)
    PROVE  Lined(queue, task')
<1>1. \A l \in Lanes : \A i \in DOMAIN queue[l] : queue[l][i] \in Tasks /\ queue[l][i] # t
  BY DEF Lined
<1> QED
  BY <1>1 DEF Lined, Inv, TypeOK

-----------------------------------------------------------------------------
\* Each step keeps the invariant

LEMMA InitInv == Init => Inv
<1> SUFFICES ASSUME Init PROVE Inv
  OBVIOUS
<1>1. Sound(Idle) /\ Idle \in Records
  BY DEF Idle, Sound, Records, Fits, Queueing, Granting
<1>2. TypeOK /\ \A t \in Tasks : Sound(task[t])
  BY <1>1, LimitAssumption DEF Init, TypeOK
<1>3. Lined(line, task)
  BY DEF Init, Lined
<1>4. ASSUME NEW l \in Lanes
      PROVE  /\ free[l] + Cardinality(Granted(l)) + Cardinality(Holders(l)) = Limit[l]
             /\ line[l] # <<>> => free[l] = 0
             /\ waiters[l] = Cardinality(InQueue(l))
             /\ waiters[l] <= MaxQueued[l]
  <2>1. Granted(l) = {} /\ Holders(l) = {} /\ InQueue(l) = {}
    BY DEF Init, Idle, Granted, Holders, InQueue, At
  <2>2. Limit[l] \in Nat /\ MaxQueued[l] \in Nat
    BY LimitAssumption
  <2> QED
    BY <2>1, <2>2, FS_EmptySet DEF Init
<1> QED
  BY <1>2, <1>3, <1>4 DEF Inv, PermitsConserved

\* A step after which one request is ready, and which moves no permit.
LEMMA BecomesReady ==
    ASSUME Inv, NEW t \in Tasks, task[t].pc \in {"idle", "run", "count"},
           NEW todo \in Seq(Steps), Fits(todo, task[t].held),
           task' = [task EXCEPT ![t] = Ready(todo, task[t].held)], UNCHANGED <<free, line, waiters>>
    PROVE  Inv'
<1> DEFINE r == Ready(todo, task[t].held)
<1>1. task' = [task EXCEPT ![t] = r]
  OBVIOUS
<1>2. task[t].held \in SUBSET Lanes
  BY DEF Inv, TypeOK, Records
<1>3. Sound(r) /\ r.pc \in {"idle", "run"} /\ r.held = task[t].held
  BY <1>2, ReadySound DEF Ready
<1>4. Lined(line', task')
  BY <1>1, SameLines DEF Inv, TypeOK
<1>5. \A l : /\ IsGranted(r, l) = 0 /\ IsGranted(task[t], l) = 0
             /\ IsQueued(r, l) = 0 /\ IsQueued(task[t], l) = 0
             /\ Holds(r, l) = Holds(task[t], l)
  BY <1>3 DEF IsGranted, IsQueued, Holds
<1> HIDE DEF r
<1>6. \A l \in Lanes :
         /\ free'[l] + IsGranted(r, l) + Holds(r, l) =
               free[l] + IsGranted(task[t], l) + Holds(task[t], l)
         /\ waiters'[l] - IsQueued(r, l) = waiters[l] - IsQueued(task[t], l)
  BY <1>5
<1> QED
  BY <1>1, <1>3, <1>4, <1>6, OneChanges DEF Inv, TypeOK, PermitsConserved

LEMMA ArriveStep ==
    ASSUME Inv, NEW t \in Tasks, Arrive(t)
    PROVE  Inv'
<1>1. task[t].held = {} /\ task[t].pc = "idle"
  BY FitsNothing DEF Arrive, At, Inv, Sound, Granting
<1>2. PICK todo \in Requests(t) : task' = [task EXCEPT ![t] = Ready(todo, task[t].held)]
  BY DEF Arrive
<1> QED
  BY <1>1, <1>2, FitsRequests, BecomesReady DEF Arrive

LEMMA UpstreamStep ==
    ASSUME Inv, NEW t \in Tasks, UpstreamEnds(t) \/ DropUpstream(t)
    PROVE  Inv'
<1>1. /\ task[t].pc = "run" /\ task[t].todo # <<>> /\ Head(task[t].todo).op = "upstream"
      /\ UNCHANGED <<free, line, waiters>>
  BY DEF UpstreamEnds, DropUpstream, At, Doing
<1>2. Fits(task[t].todo, task[t].held)
  BY <1>1 DEF Inv, Sound, Granting
<1>3. CASE UpstreamEnds(t)
  <2>1. Fits(Tail(task[t].todo), task[t].held)
    BY <1>1, <1>2, NextStep, FitsAdvanced
  <2> QED
    BY <1>1, <1>3, <2>1, NextStep, BecomesReady DEF UpstreamEnds, Advanced
<1>4. CASE DropUpstream(t)
  BY <1>1, <1>4, NextStep, FitsUnwind, BecomesReady DEF DropUpstream, Failed
<1> QED
  BY <1>3, <1>4

\* A request in a queue is about to acquire a lane it does not hold.
LEMMA Acquiring ==
    ASSUME Inv, NEW t \in Tasks, task[t].todo # <<>>, Head(task[t].todo).op = "acquire",
           task[t].pc # "leave"
    PROVE  /\ Lane(t) \in Lanes /\ Lane(t) \notin task[t].held
           /\ Fits(task[t].todo, task[t].held)
           /\ Fits(Tail(task[t].todo), task[t].held \cup {Lane(t)})
           /\ task[t].held \cup {Lane(t)} \in SUBSET Lanes
<1>1. Fits(task[t].todo, task[t].held)
  BY DEF Inv, Sound, Granting
<1> QED
  BY <1>1, NextStep, FitsAdvanced DEF Lane

\* ... and stays sound while it moves through the queue, without the permit
\* or with it.
LEMMA MovesSound ==
    ASSUME Inv, NEW t \in Tasks, task[t].todo # <<>>, Head(task[t].todo).op = "acquire",
           task[t].pc # "leave", NEW p \in Queueing
    PROVE  LET r == [task[t] EXCEPT !.pc = p]
           IN  Sound(r) /\ r.pc = p /\ r.todo = task[t].todo /\ r.held = task[t].held
<1> DEFINE r == [task[t] EXCEPT !.pc = p]
<1>1. task[t] \in Records
  BY DEF Inv, TypeOK
<1>2. r \in Records /\ r.pc = p /\ r.todo = task[t].todo /\ r.held = task[t].held
  BY <1>1 DEF Records
<1> HIDE DEF r
<1>3. ~Granting(r) /\ Fits(r.todo, r.held) /\ r.pc # "idle"
  BY <1>2, Acquiring DEF Granting, Lane, Queueing
<1>4. Sound(r)
  BY <1>2, <1>3 DEF Sound
<1> QED
  BY <1>2, <1>4 DEF r

LEMMA PermittedSound ==
    ASSUME Inv, NEW t \in Tasks, task[t].todo # <<>>, Head(task[t].todo).op = "acquire",
           task[t].pc # "leave"
    PROVE  LET r == [task[t] EXCEPT !.pc = "leave", !.held = @ \cup {Lane(t)}]
           IN  /\ Sound(r) /\ r.pc = "leave" /\ r.todo = task[t].todo
               /\ r.held = task[t].held \cup {Lane(t)}
<1> DEFINE r == [task[t] EXCEPT !.pc = "leave", !.held = @ \cup {Lane(t)}]
<1>1. task[t] \in Records /\ task[t].held \cup {Lane(t)} \in SUBSET Lanes
  BY Acquiring DEF Inv, TypeOK
<1>2. r \in Records /\ r.pc = "leave" /\ r.todo = task[t].todo /\ r.held = task[t].held \cup {Lane(t)}
  BY <1>1 DEF Records, Queueing
<1> HIDE DEF r
<1>3. Granting(r) /\ Fits(Tail(r.todo), r.held)
  BY <1>2, Acquiring DEF Granting, Lane
<1>4. Sound(r)
  BY <1>2, <1>3 DEF Sound
<1> QED
  BY <1>2, <1>4 DEF r

LEMMA TryAcquireStep ==
    ASSUME Inv, NEW t \in Tasks, TryAcquire(t)
    PROVE  Inv'
<1> DEFINE l == Lane(t)
<1>1. /\ task[t].pc = "run" /\ task[t].todo # <<>> /\ Head(task[t].todo).op = "acquire"
      /\ line' = line /\ waiters' = waiters
  BY DEF TryAcquire, At, Doing
<1>2. /\ l \in Lanes /\ l \notin task[t].held /\ task[t].held \cup {l} \in SUBSET Lanes
      /\ Fits(Tail(task[t].todo), task[t].held \cup {l})
      /\ Tail(task[t].todo) \in Seq(Steps)
  BY <1>1, Acquiring, NextStep
<1>3. CASE free[l] > 0
  <2> DEFINE r == Ready(Tail(task[t].todo), task[t].held \cup {l})
  <2>1. task' = [task EXCEPT ![t] = r] /\ free' = [free EXCEPT ![l] = @ - 1]
    BY <1>3 DEF TryAcquire, Advanced
  <2>2. Sound(r) /\ r.pc \in {"idle", "run"} /\ r.held = task[t].held \cup {l}
    BY <1>2, ReadySound DEF Ready
  <2>3. \A m : /\ IsGranted(r, m) = 0 /\ IsGranted(task[t], m) = 0
               /\ IsQueued(r, m) = 0 /\ IsQueued(task[t], m) = 0
               /\ m # l => Holds(r, m) = Holds(task[t], m)
               /\ Holds(r, l) = 1 /\ Holds(task[t], l) = 0
    BY <1>1, <1>2, <2>2 DEF IsGranted, IsQueued, Holds
  <2> HIDE DEF r
  <2>4. Lined(line', task')
    BY <1>1, <2>1, SameLines DEF Inv, TypeOK
  <2>5. free' \in [Lanes -> Nat] /\ line[l] = <<>>
    BY <1>2, <1>3, <2>1 DEF Inv, TypeOK, PermitsConserved
  <2>6. \A m \in Lanes : /\ free'[m] = (IF m = l THEN free[m] - 1 ELSE free[m])
                         /\ free[m] \in Nat /\ Holds(task[t], m) \in Nat
    BY <2>1 DEF Inv, TypeOK, Holds
  <2>7. \A m \in Lanes :
           /\ free'[m] + IsGranted(r, m) + Holds(r, m) =
                 free[m] + IsGranted(task[t], m) + Holds(task[t], m)
           /\ waiters'[m] - IsQueued(r, m) = waiters[m] - IsQueued(task[t], m)
    BY <1>1, <2>3, <2>6
  <2>8. \A m \in Lanes : (line'[m] # <<>> => free'[m] = 0) /\ waiters'[m] <= MaxQueued[m]
    BY <1>1, <2>5, <2>6 DEF Inv, PermitsConserved
  <2> QED
    BY <1>1, <2>1, <2>2, <2>4, <2>5, <2>7, <2>8, OneChanges DEF Inv, TypeOK
<1>4. CASE ~(free[l] > 0)
  <2> DEFINE r == [task[t] EXCEPT !.pc = "count"]
  <2>1. task' = [task EXCEPT ![t] = r] /\ free' = free
    BY <1>4 DEF TryAcquire
  <2>2. Sound(r) /\ r.pc = "count" /\ r.todo = task[t].todo /\ r.held = task[t].held
    BY <1>1, MovesSound DEF Queueing
  <2> HIDE DEF r
  <2>3. \A m : /\ IsGranted(r, m) = 0 /\ IsGranted(task[t], m) = 0
               /\ IsQueued(r, m) = 0 /\ IsQueued(task[t], m) = 0
               /\ Holds(r, m) = Holds(task[t], m)
    BY <1>1, <2>2 DEF IsGranted, IsQueued, Holds
  <2>4. Lined(line', task')
    BY <1>1, <2>1, SameLines DEF Inv, TypeOK
  <2>5. \A m \in Lanes :
           /\ free'[m] + IsGranted(r, m) + Holds(r, m) =
                 free[m] + IsGranted(task[t], m) + Holds(task[t], m)
           /\ waiters'[m] - IsQueued(r, m) = waiters[m] - IsQueued(task[t], m)
    BY <1>1, <2>1, <2>3
  <2>6. \A m \in Lanes : (line'[m] # <<>> => free'[m] = 0) /\ waiters'[m] <= MaxQueued[m]
    BY <1>1, <2>1 DEF Inv, PermitsConserved
  <2> QED
    BY <1>1, <2>1, <2>2, <2>4, <2>5, <2>6, OneChanges DEF Inv, TypeOK
<1> QED
  BY <1>3, <1>4

LEMMA IncrementWaiterStep ==
    ASSUME Inv, NEW t \in Tasks, IncrementWaiter(t)
    PROVE  Inv'
<1> DEFINE l == Lane(t)
<1>1. /\ task[t].pc = "count" /\ task[t].todo # <<>> /\ Head(task[t].todo).op = "acquire"
      /\ line' = line /\ free' = free
  BY DEF IncrementWaiter, At, Inv, Sound, Queueing
<1>2. l \in Lanes /\ task[t].held \in SUBSET Lanes
  BY <1>1, NextStep
<1>3. CASE Counted(t)
  <2> DEFINE r == [task[t] EXCEPT !.pc = "enter"]
  <2>1. task' = [task EXCEPT ![t] = r] /\ waiters' = [waiters EXCEPT ![l] = @ + 1]
    BY <1>3 DEF IncrementWaiter
  <2>2. Sound(r) /\ r.pc = "enter" /\ r.todo = task[t].todo /\ r.held = task[t].held
    BY <1>1, MovesSound DEF Queueing
  <2> HIDE DEF r
  <2>3. \A m : /\ IsGranted(r, m) = 0 /\ IsGranted(task[t], m) = 0
               /\ IsQueued(r, m) = (IF m = l THEN 1 ELSE 0) /\ IsQueued(task[t], m) = 0
               /\ Holds(r, m) = Holds(task[t], m)
    BY <1>1, <2>2 DEF IsGranted, IsQueued, Holds, Lane
  <2>4. Lined(line', task')
    BY <1>1, <2>1, SameLines DEF Inv, TypeOK
  <2>5. waiters' \in [Lanes -> Nat]
    BY <1>2, <2>1 DEF Inv, TypeOK
  <2>6. \A m \in Lanes : /\ waiters'[m] = (IF m = l THEN waiters[m] + 1 ELSE waiters[m])
                         /\ waiters[m] \in Nat /\ MaxQueued[m] \in Nat
    BY <2>1, LimitAssumption DEF Inv, TypeOK
  <2>7. \A m \in Lanes :
           /\ free'[m] + IsGranted(r, m) + Holds(r, m) =
                 free[m] + IsGranted(task[t], m) + Holds(task[t], m)
           /\ waiters'[m] - IsQueued(r, m) = waiters[m] - IsQueued(task[t], m)
    BY <1>1, <2>3, <2>6
  <2>8. \A m \in Lanes : (line'[m] # <<>> => free'[m] = 0) /\ waiters'[m] <= MaxQueued[m]
    BY <1>1, <1>3, <2>6 DEF Inv, PermitsConserved, Counted
  <2> QED
    BY <1>1, <2>1, <2>2, <2>4, <2>5, <2>7, <2>8, OneChanges DEF Inv, TypeOK
<1>4. CASE ~Counted(t)
  BY <1>1, <1>2, <1>4, FitsUnwind, BecomesReady DEF IncrementWaiter, Failed
<1> QED
  BY <1>3, <1>4

LEMMA EnterLineStep ==
    ASSUME Inv, NEW t \in Tasks, EnterLine(t)
    PROVE  Inv'
<1> DEFINE l == Lane(t)
<1>1. /\ task[t].pc = "enter" /\ task[t].todo # <<>> /\ Head(task[t].todo).op = "acquire"
      /\ waiters' = waiters
  BY DEF EnterLine, At, Inv, Sound, Queueing
<1>2. l \in Lanes /\ l \notin task[t].held
  BY <1>1, Acquiring
<1>3. CASE free[l] > 0
  <2> DEFINE r == [task[t] EXCEPT !.pc = "leave", !.held = @ \cup {l}]
  <2>1. task' = [task EXCEPT ![t] = r] /\ free' = [free EXCEPT ![l] = @ - 1] /\ line' = line
    BY <1>3 DEF EnterLine, Inv, TypeOK
  <2>2. Sound(r) /\ r.pc = "leave" /\ r.todo = task[t].todo /\ r.held = task[t].held \cup {l}
    BY <1>1, PermittedSound
  <2> HIDE DEF r
  <2>3. \A m : IsGranted(r, m) = 0 /\ IsGranted(task[t], m) = 0
               /\ IsQueued(r, m) = IsQueued(task[t], m)
               /\ (m # l => Holds(r, m) = Holds(task[t], m))
               /\ Holds(r, l) = 1 /\ Holds(task[t], l) = 0
    BY <1>1, <1>2, <2>2 DEF IsGranted, IsQueued, Holds
  <2>4. Lined(line', task')
    BY <1>1, <2>1, SameLines DEF Inv, TypeOK
  <2>5. free' \in [Lanes -> Nat] /\ line[l] = <<>>
    BY <1>2, <1>3, <2>1 DEF Inv, TypeOK, PermitsConserved
  <2>6. \A m \in Lanes : free'[m] = (IF m = l THEN free[m] - 1 ELSE free[m])
                          /\ free[m] \in Nat /\ Holds(task[t], m) \in Nat
    BY <2>1 DEF Inv, TypeOK, Holds
  <2>7. \A m \in Lanes :
           /\ free'[m] + IsGranted(r, m) + Holds(r, m) =
                 free[m] + IsGranted(task[t], m) + Holds(task[t], m)
           /\ waiters'[m] - IsQueued(r, m) = waiters[m] - IsQueued(task[t], m)
    BY <1>1, <2>3, <2>6
  <2>8. \A m \in Lanes : (line'[m] # <<>> => free'[m] = 0) /\ waiters'[m] <= MaxQueued[m]
    BY <1>1, <2>1, <2>5, <2>6 DEF Inv, PermitsConserved
  <2> QED
    BY <1>1, <2>1, <2>2, <2>4, <2>5, <2>7, <2>8, OneChanges DEF Inv, TypeOK
<1>4. CASE ~(free[l] > 0)
  <2> DEFINE r == [task[t] EXCEPT !.pc = "wait"]
  <2>1. /\ task' = [task EXCEPT ![t] = r] /\ free' = free
        /\ line' = [line EXCEPT ![l] = Append(@, t)]
    BY <1>4 DEF EnterLine
  <2>2. Sound(r) /\ r.pc = "wait" /\ r.todo = task[t].todo /\ r.held = task[t].held
    BY <1>1, MovesSound DEF Queueing
  <2> HIDE DEF r
  <2>3. \A m : IsGranted(r, m) = 0 /\ IsGranted(task[t], m) = 0
               /\ IsQueued(r, m) = IsQueued(task[t], m) /\ Holds(r, m) = Holds(task[t], m)
    BY <1>1, <2>2 DEF IsGranted, IsQueued, Holds
  <2>4. line' \in [Lanes -> Seq(Tasks)] /\ free[l] = 0 /\ Lined(line, task')
    <3>1. Append(line[l], t) \in Seq(Tasks)
      BY <1>2 DEF Inv, TypeOK
    <3>2. line' \in [Lanes -> Seq(Tasks)]
      BY <2>1, <3>1 DEF Inv, TypeOK
    <3>3. free[l] = 0
      BY <1>2, <1>4 DEF Inv, TypeOK
    <3>4. Lined(line, task')
      BY <1>1, <2>1, SameLines DEF Inv, TypeOK
    <3> QED
      BY <3>2, <3>3, <3>4
  <2>5. Lined(line', task')
    <3>1. task'[t] = r /\ Head(r.todo).lane = l
      BY <2>1, <2>2 DEF Inv, TypeOK, Lane
    <3>2. \A m \in Lanes : m # l => line'[m] = line[m]
      BY <2>1 DEF Inv, TypeOK
    <3>3. /\ line[l] \in Seq(Tasks) /\ line'[l] = Append(line[l], t)
          /\ DOMAIN line'[l] = 1 .. Len(line[l]) + 1 /\ Len(line[l]) \in Nat
          /\ DOMAIN line[l] = 1 .. Len(line[l])
          /\ line'[l][Len(line[l]) + 1] = t
          /\ \A i \in DOMAIN line[l] : line'[l][i] = line[l][i] /\ line[l][i] # t
      BY <1>1, <1>2, <2>1 DEF Inv, TypeOK, Lined
    <3>4. \A i \in DOMAIN line'[l] :
             task'[line'[l][i]].pc = "wait" /\ Head(task'[line'[l][i]].todo).lane = l
      BY <1>2, <2>2, <2>4, <3>1, <3>3 DEF Lined
    <3>5. \A i, j \in DOMAIN line'[l] : i # j => line'[l][i] # line'[l][j]
      BY <1>2, <2>4, <3>3 DEF Lined
    <3> QED
      BY <2>4, <3>2, <3>4, <3>5 DEF Lined
  <2>6. \A m \in Lanes :
           /\ free'[m] + IsGranted(r, m) + Holds(r, m) =
                 free[m] + IsGranted(task[t], m) + Holds(task[t], m)
           /\ waiters'[m] - IsQueued(r, m) = waiters[m] - IsQueued(task[t], m)
    BY <1>1, <2>1, <2>3
  <2>7. \A m \in Lanes : m # l => line'[m] = line[m]
    BY <2>1 DEF Inv, TypeOK
  <2>8. \A m \in Lanes : (line'[m] # <<>> => free'[m] = 0) /\ waiters'[m] <= MaxQueued[m]
    BY <1>1, <2>1, <2>4, <2>7 DEF Inv, PermitsConserved
  <2> QED
    BY <1>1, <2>1, <2>2, <2>4, <2>5, <2>6, <2>8, OneChanges DEF Inv, TypeOK
<1> QED
  BY <1>3, <1>4

LEMMA WakeStep ==
    ASSUME Inv, NEW t \in Tasks, Wake(t)
    PROVE  Inv'
<1> DEFINE l == Lane(t)
           r == [task[t] EXCEPT !.pc = "leave", !.held = @ \cup {l}]
<1>1. /\ task[t].pc = "granted" /\ task[t].todo # <<>> /\ Head(task[t].todo).op = "acquire"
      /\ UNCHANGED <<free, line, waiters>>
  BY DEF Wake, At, Inv, Sound, Queueing
<1>2. l \in Lanes /\ l \notin task[t].held
  BY <1>1, Acquiring
<1>3. task' = [task EXCEPT ![t] = r]
  BY DEF Wake, Inv, TypeOK
<1>4. Sound(r) /\ r.pc = "leave" /\ r.todo = task[t].todo /\ r.held = task[t].held \cup {l}
  BY <1>1, PermittedSound
<1> HIDE DEF r
<1>5. \A m : IsQueued(r, m) = IsQueued(task[t], m)
             /\ IsGranted(r, m) = 0 /\ IsGranted(task[t], m) = (IF m = l THEN 1 ELSE 0)
             /\ (m # l => Holds(r, m) = Holds(task[t], m))
             /\ Holds(r, l) = 1 /\ Holds(task[t], l) = 0 /\ Holds(task[t], m) \in Nat
  BY <1>1, <1>2, <1>4 DEF IsGranted, IsQueued, Holds, Lane
<1>6. Lined(line', task')
  BY <1>1, <1>3, SameLines DEF Inv, TypeOK
<1>7. \A m \in Lanes :
         /\ free'[m] + IsGranted(r, m) + Holds(r, m) =
               free[m] + IsGranted(task[t], m) + Holds(task[t], m)
         /\ waiters'[m] - IsQueued(r, m) = waiters[m] - IsQueued(task[t], m)
  <2> SUFFICES ASSUME NEW m \in Lanes
               PROVE  /\ free'[m] + IsGranted(r, m) + Holds(r, m) =
                            free[m] + IsGranted(task[t], m) + Holds(task[t], m)
                      /\ waiters'[m] - IsQueued(r, m) = waiters[m] - IsQueued(task[t], m)
    OBVIOUS
  <2>1. free'[m] = free[m] /\ waiters'[m] = waiters[m] /\ free[m] \in Nat
    BY <1>1 DEF Inv, TypeOK
  <2> QED
    BY <1>5, <2>1
<1> QED
  BY <1>1, <1>3, <1>4, <1>6, <1>7, OneChanges DEF Inv, TypeOK, PermitsConserved

LEMMA LeaveQueueStep ==
    ASSUME Inv, NEW t \in Tasks, LeaveQueue(t)
    PROVE  Inv'
<1> DEFINE l == Lane(t)
           todo == IF l \in task[t].held THEN Tail(task[t].todo) ELSE Unwind(task[t].held)
           r == Ready(todo, task[t].held)
<1>1. /\ task[t].pc = "leave" /\ task[t].todo # <<>>
      /\ line' = line /\ free' = free /\ waiters' = [waiters EXCEPT ![l] = Decremented(t)]
      /\ task' = [task EXCEPT ![t] = r]
  BY DEF LeaveQueue, At, Inv, Sound, Queueing, Advanced, Failed
<1>2. l \in Lanes /\ task[t].held \in SUBSET Lanes /\ Tail(task[t].todo) \in Seq(Steps)
  BY <1>1, NextStep
<1>3. todo \in Seq(Steps) /\ Fits(todo, task[t].held)
  <2>1. CASE l \in task[t].held
    BY <1>1, <1>2, <2>1 DEF Inv, Sound, Granting, Lane
  <2>2. CASE l \notin task[t].held
    BY <1>2, <2>2, FitsUnwind
  <2> QED
    BY <2>1, <2>2
<1>4. Sound(r) /\ r.pc \in {"idle", "run"} /\ r.held = task[t].held
  BY <1>2, <1>3, ReadySound DEF Ready
<1> HIDE DEF r, todo
<1>5. \A m : IsGranted(r, m) = 0 /\ IsGranted(task[t], m) = 0
             /\ IsQueued(r, m) = 0 /\ IsQueued(task[t], m) = (IF m = l THEN 1 ELSE 0)
             /\ Holds(r, m) = Holds(task[t], m)
  BY <1>1, <1>4 DEF IsGranted, IsQueued, Holds, Lane
<1>6. waiters[l] # 0
  <2>1. t \in InQueue(l) /\ InQueue(l) \in SUBSET Tasks
    BY <1>1 DEF InQueue
  <2>2. IsFiniteSet(InQueue(l))
    BY <2>1, TasksAssumption, FS_Subset
  <2> QED
    BY <1>2, <2>1, <2>2, FS_EmptySet DEF Inv, PermitsConserved
<1>7. /\ waiters' \in [Lanes -> Nat] /\ waiters \in [Lanes -> Nat]
      /\ \A m \in Lanes : waiters'[m] = (IF m = l THEN waiters[m] - 1 ELSE waiters[m])
  BY <1>1, <1>2, <1>6 DEF Inv, TypeOK, Decremented
<1>8. Lined(line', task')
  BY <1>1, SameLines DEF Inv, TypeOK
<1>9. \A m \in Lanes :
         /\ free'[m] + IsGranted(r, m) + Holds(r, m) =
               free[m] + IsGranted(task[t], m) + Holds(task[t], m)
         /\ waiters'[m] - IsQueued(r, m) = waiters[m] - IsQueued(task[t], m)
  BY <1>1, <1>5, <1>7
<1>10. \A m \in Lanes : (line'[m] # <<>> => free'[m] = 0) /\ waiters'[m] <= MaxQueued[m]
  BY <1>1, <1>7, LimitAssumption DEF Inv, PermitsConserved
<1> QED
  BY <1>1, <1>4, <1>7, <1>8, <1>9, <1>10, OneChanges DEF Inv, TypeOK

\* A line without one of its requests.
LEMMA Removed ==
    ASSUME NEW q \in Seq(Tasks), NEW i \in DOMAIN q
    PROVE  /\ RemoveAt(q, i) \in Seq(Tasks)
           /\ \A j \in DOMAIN RemoveAt(q, i) :
                 \/ j < i /\ j \in DOMAIN q /\ RemoveAt(q, i)[j] = q[j]
                 \/ j >= i /\ j + 1 \in DOMAIN q /\ RemoveAt(q, i)[j] = q[j + 1]
<1> DEFINE a == SubSeq(q, 1, i - 1)
           b == SubSeq(q, i + 1, Len(q))
<1>1. Len(q) \in Nat /\ DOMAIN q = 1 .. Len(q) /\ i \in 1 .. Len(q)
  OBVIOUS
<1>2. a \in Seq(Tasks) /\ Len(a) = i - 1 /\ \A j \in 1 .. i - 1 : a[j] = q[j]
  BY <1>1
<1>3. b \in Seq(Tasks) /\ Len(b) = Len(q) - i /\ \A j \in 1 .. Len(q) - i : b[j] = q[i + j]
  BY <1>1
<1> HIDE DEF a, b
<1> DEFINE c == a \o b
<1>4. /\ c \in Seq(Tasks) /\ Len(c) = Len(a) + Len(b) /\ DOMAIN c = 1 .. Len(c)
      /\ \A j \in 1 .. Len(c) : c[j] = (IF j <= Len(a) THEN a[j] ELSE b[j - Len(a)])
  <2>1. a \in Seq(Tasks) /\ b \in Seq(Tasks)
    BY <1>2, <1>3
  <2>2. /\ c \in Seq(Tasks) /\ Len(c) = Len(a) + Len(b)
        /\ \A j \in 1 .. Len(a) + Len(b) : c[j] = (IF j <= Len(a) THEN a[j] ELSE b[j - Len(a)])
    BY <2>1, ConcatProperties
  <2> HIDE DEF c
  <2> QED
    BY <2>2
<1> HIDE DEF c
<1> DEFINE n == Len(q)
<1>n. /\ n \in Nat /\ i \in Int /\ 1 <= i /\ i <= n
      /\ Len(a) = i - 1 /\ Len(b) = n - i /\ Len(c) = n - 1 /\ DOMAIN q = 1 .. n
      /\ \A j \in 1 .. i - 1 : a[j] = q[j]
      /\ \A j \in 1 .. n - i : b[j] = q[i + j]
  BY <1>1, <1>2, <1>3, <1>4
<1> HIDE DEF n
<1>5. ASSUME NEW j \in DOMAIN c
      PROVE  \/ j < i /\ j \in DOMAIN q /\ c[j] = q[j]
             \/ j >= i /\ j + 1 \in DOMAIN q /\ c[j] = q[j + 1]
  <2>1. j \in Int /\ 1 <= j /\ j <= n - 1
    BY <1>4, <1>n
  <2>2. CASE j < i
    <3>1. j \in 1 .. i - 1 /\ j \in DOMAIN q /\ j <= Len(a)
      BY <1>n, <2>1, <2>2
    <3> QED
      BY <1>4, <1>n, <2>2, <3>1
  <2>3. CASE j >= i
    <3>1. /\ j - (i - 1) \in 1 .. n - i /\ j + 1 \in DOMAIN q /\ ~(j <= Len(a))
          /\ i + (j - (i - 1)) = j + 1
      BY <1>n, <2>1, <2>3
    <3>2. c[j] = b[j - (i - 1)]
      BY <1>4, <1>n, <3>1
    <3> QED
      BY <1>n, <2>3, <3>1, <3>2
  <2> QED
    BY <1>n, <2>1, <2>2, <2>3
<1>6. RemoveAt(q, i) = c
  BY DEF RemoveAt, a, b, c
<1> QED
  BY <1>4, <1>5, <1>6

LEMMA LeaveLineStep ==
    ASSUME Inv, NEW t \in Tasks, LeaveLine(t)
    PROVE  Inv'
<1> DEFINE l == Lane(t)
           r == [task[t] EXCEPT !.pc = "leave"]
<1>1. /\ task[t].pc = "wait" /\ task[t].todo # <<>> /\ Head(task[t].todo).op = "acquire"
      /\ free' = free /\ waiters' = waiters /\ task' = [task EXCEPT ![t] = r]
  BY DEF LeaveLine, At, Inv, Sound, Queueing
<1>2. PICK i \in DOMAIN line[l] : line[l][i] = t /\ line' = [line EXCEPT ![l] = RemoveAt(@, i)]
  BY DEF LeaveLine
<1>3. l \in Lanes /\ line[l] \in Seq(Tasks) /\ line \in [Lanes -> Seq(Tasks)]
  BY <1>1, Acquiring DEF Inv, TypeOK
<1>4. Sound(r) /\ r.pc = "leave" /\ r.todo = task[t].todo /\ r.held = task[t].held
  BY <1>1, MovesSound DEF Queueing
<1> HIDE DEF r
<1>5. \A m : IsGranted(r, m) = 0 /\ IsGranted(task[t], m) = 0
             /\ IsQueued(r, m) = IsQueued(task[t], m) /\ Holds(r, m) = Holds(task[t], m)
  BY <1>1, <1>4 DEF IsGranted, IsQueued, Holds
<1> DEFINE kept == RemoveAt(line[l], i)
<1>6. /\ kept \in Seq(Tasks)
      /\ \A j \in DOMAIN kept :
            \/ j < i /\ j \in DOMAIN line[l] /\ kept[j] = line[l][j]
            \/ j >= i /\ j + 1 \in DOMAIN line[l] /\ kept[j] = line[l][j + 1]
  BY <1>3, Removed
<1> HIDE DEF kept
<1>7. /\ line' \in [Lanes -> Seq(Tasks)] /\ line'[l] = kept
      /\ \A m \in Lanes : m # l => line'[m] = line[m]
  BY <1>2, <1>3, <1>6 DEF kept
<1>8. \A j \in DOMAIN kept : j \in Int
  BY <1>6
<1>9. /\ i \in Int
      /\ \A k \in DOMAIN line[l] : task[line[l][k]].pc = "wait" /\ Head(task[line[l][k]].todo).lane = l
      /\ \A j, k \in DOMAIN line[l] : j # k => line[l][j] # line[l][k]
  BY <1>3 DEF Inv, Lined
<1>10. \A j \in DOMAIN kept : kept[j] \in Tasks /\ kept[j] # t
                               /\ task[kept[j]].pc = "wait" /\ Head(task[kept[j]].todo).lane = l
  BY <1>2, <1>6, <1>8, <1>9
<1>11. \A j, k \in DOMAIN kept : j # k => kept[j] # kept[k]
  BY <1>6, <1>8, <1>9
<1>12. Lined(line', task')
  <2>1. \A u \in Tasks : u # t => task'[u] = task[u]
    BY <1>1 DEF Inv, TypeOK
  <2>2. \A j \in DOMAIN kept : task'[kept[j]].pc = "wait" /\ Head(task'[kept[j]].todo).lane = l
    BY <1>10, <2>1
  <2>3. \A m \in Lanes : m # l =>
           \A j \in DOMAIN line[m] : line[m][j] \in Tasks /\ line[m][j] # t
    BY <1>3 DEF Inv, Lined, Lane
  <2> QED
    BY <1>7, <1>11, <2>1, <2>2, <2>3 DEF Lined, Inv
<1>13. \A m \in Lanes :
          /\ free'[m] + IsGranted(r, m) + Holds(r, m) =
                free[m] + IsGranted(task[t], m) + Holds(task[t], m)
          /\ waiters'[m] - IsQueued(r, m) = waiters[m] - IsQueued(task[t], m)
  BY <1>1, <1>5
<1>14. \A m \in Lanes : (line'[m] # <<>> => free'[m] = 0) /\ waiters'[m] <= MaxQueued[m]
  <2>1. line[l] # <<>>
    BY <1>2
  <2> QED
    BY <1>1, <1>7, <2>1 DEF Inv, PermitsConserved
<1> QED
  BY <1>1, <1>4, <1>7, <1>12, <1>13, <1>14, OneChanges DEF Inv, TypeOK

\* A request that is given a permit while it stands in line.
LEMMA GrantedSound ==
    ASSUME Inv, NEW t \in Tasks, task[t].pc = "wait", NEW r, r = [task[t] EXCEPT !.pc = "granted"]
    PROVE  /\ Sound(r) /\ r.pc = "granted"
           /\ \A m : /\ IsGranted(r, m) = (IF m = Lane(t) THEN 1 ELSE 0) /\ IsGranted(task[t], m) = 0
                     /\ IsQueued(r, m) = IsQueued(task[t], m) /\ Holds(r, m) = Holds(task[t], m)
<1>1. task[t].todo # <<>> /\ Head(task[t].todo).op = "acquire"
  BY DEF Inv, Sound, Queueing
<1>2. Sound(r) /\ r.pc = "granted" /\ r.todo = task[t].todo /\ r.held = task[t].held
  BY <1>1, MovesSound DEF Queueing
<1> QED
  BY <1>2 DEF IsGranted, IsQueued, Holds, Lane

\* A line whose first request has left it.
LEMMA LinedTail ==
    ASSUME Inv, NEW l \in Lanes, line[l] # <<>>, NEW f,
           line' = [line EXCEPT ![l] = Tail(@)],
           \A u \in Tasks \ {Head(line[l])} : task[u].pc = "wait" => f[u] = task[u]
    PROVE  /\ Head(line[l]) \in Tasks /\ task[Head(line[l])].pc = "wait" /\ Lane(Head(line[l])) = l
           /\ line' \in [Lanes -> Seq(Tasks)] /\ Lined(line', f)
           /\ \A m \in Lanes : m # l => line'[m] = line[m]
<1> DEFINE q == line[l]
           rest == Tail(line[l])
<1>1. /\ q \in Seq(Tasks) /\ line \in [Lanes -> Seq(Tasks)]
      /\ \A m \in Lanes : line[m] \in Seq(Tasks)
  BY DEF Inv, TypeOK
<1>2. /\ 1 \in DOMAIN q /\ Head(q) = q[1] /\ rest \in Seq(Tasks) /\ q[1] \in Tasks
      /\ \A i \in DOMAIN rest : i \in Int /\ i >= 1 /\ i + 1 \in DOMAIN q /\ rest[i] = q[i + 1]
  BY <1>1
<1>3. /\ line' \in [Lanes -> Seq(Tasks)] /\ line'[l] = rest
      /\ \A m \in Lanes : m # l => line'[m] = line[m]
  BY <1>1, <1>2
<1> HIDE DEF q, rest
<1>4. /\ \A i \in DOMAIN q : task[q[i]].pc = "wait" /\ Head(task[q[i]].todo).lane = l
      /\ \A i, j \in DOMAIN q : i # j => q[i] # q[j]
  BY DEF Inv, Lined, q
<1>5. ASSUME NEW i \in DOMAIN rest
      PROVE  f[rest[i]].pc = "wait" /\ Head(f[rest[i]].todo).lane = l
  <2>1. rest[i] = q[i + 1] /\ i + 1 \in DOMAIN q /\ i + 1 # 1
    BY <1>2
  <2>2. rest[i] # q[1] /\ rest[i] \in Tasks /\ task[rest[i]].pc = "wait"
    BY <1>2, <1>4, <2>1
  <2>3. f[rest[i]] = task[rest[i]]
    BY <1>2, <2>2 DEF q
  <2> QED
    BY <1>4, <2>1, <2>3
<1>6. \A i, j \in DOMAIN rest : i # j => rest[i] # rest[j]
  <2> SUFFICES ASSUME NEW i \in DOMAIN rest, NEW j \in DOMAIN rest, i # j
               PROVE  rest[i] # rest[j]
    OBVIOUS
  <2>1. i + 1 # j + 1
    BY <1>2
  <2> QED
    BY <1>2, <1>4, <2>1
<1>7. ASSUME NEW m \in Lanes, m # l, NEW i \in DOMAIN line[m]
      PROVE  f[line[m][i]].pc = "wait" /\ Head(f[line[m][i]].todo).lane = m
  <2>1. /\ task[line[m][i]].pc = "wait" /\ Head(task[line[m][i]].todo).lane = m
        /\ line[m][i] \in Tasks
    BY <1>1 DEF Inv, Lined
  <2>2. line[m][i] # q[1]
    BY <1>2, <1>4, <1>7, <2>1
  <2> QED
    BY <1>2, <2>1, <2>2 DEF q
<1>8. \A m \in Lanes : \A i, j \in DOMAIN line[m] : i # j => line[m][i] # line[m][j]
  BY DEF Inv, Lined
<1>9. Lined(line', f)
  BY <1>3, <1>5, <1>6, <1>7, <1>8 DEF Lined
<1> QED
  BY <1>2, <1>3, <1>4, <1>9 DEF q, Lane

\* OwnedSemaphorePermit::drop: the permit that one request gives goes to the
\* first in line, or back to the semaphore.
LEMMA HandOverStep ==
    ASSUME Inv, NEW t \in Tasks, task[t].pc # "wait", NEW r, Sound(r), NEW l \in Lanes,
           HandOver(l, [task EXCEPT ![t] = r]), waiters' = waiters,
           \A m : /\ IsGranted(r, m) + Holds(r, m) + (IF m = l THEN 1 ELSE 0) =
                        IsGranted(task[t], m) + Holds(task[t], m)
                  /\ IsQueued(r, m) = IsQueued(task[t], m)
    PROVE  Inv'
<1>1. CASE line[l] = <<>>
  <2>1. task' = [task EXCEPT ![t] = r] /\ free' = [free EXCEPT ![l] = @ + 1] /\ line' = line
    BY <1>1 DEF HandOver
  <2>2. /\ free' \in [Lanes -> Nat]
        /\ \A m \in Lanes : free'[m] = (IF m = l THEN free[m] + 1 ELSE free[m]) /\ free[m] \in Nat
    BY <2>1 DEF Inv, TypeOK
  <2>3. Lined(line', task')
    BY <2>1, SameLines DEF Inv, TypeOK
  <2>4. ASSUME NEW m \in Lanes
        PROVE  free'[m] + IsGranted(r, m) + Holds(r, m) =
                  free[m] + IsGranted(task[t], m) + Holds(task[t], m)
    <3> DEFINE a == free[m]  b == free'[m]  d == IF m = l THEN 1 ELSE 0
               x == IsGranted(r, m)  x0 == IsGranted(task[t], m)
               y == Holds(r, m)  y0 == Holds(task[t], m)
    <3>1. /\ b = a + d /\ a \in Nat /\ d \in Nat /\ x + y + d = x0 + y0
          /\ x \in Nat /\ y \in Nat /\ x0 \in Nat /\ y0 \in Nat
      BY <2>2 DEF IsGranted, Holds
    <3> HIDE DEF a, b, d, x, x0, y, y0
    <3>2. b + x + y = a + x0 + y0
      BY <3>1
    <3> QED
      BY <3>2 DEF a, b, x, x0, y, y0
  <2>5. \A m \in Lanes : /\ waiters'[m] - IsQueued(r, m) = waiters[m] - IsQueued(task[t], m)
                         /\ (line'[m] # <<>> => free'[m] = 0) /\ waiters'[m] <= MaxQueued[m]
    BY <1>1, <2>1, <2>2 DEF Inv, PermitsConserved
  <2> QED
    BY <2>1, <2>2, <2>3, <2>4, <2>5, OneChanges DEF Inv, TypeOK
<1>2. CASE line[l] # <<>>
  <2> DEFINE f == [task EXCEPT ![t] = r]
             h == Head(line[l])
             g == [task[h] EXCEPT !.pc = "granted"]
  <2>1. /\ task' = [f EXCEPT ![h].pc = "granted"] /\ free' = free
        /\ line' = [line EXCEPT ![l] = Tail(@)]
    BY <1>2 DEF HandOver
  <2>2. /\ f \in [Tasks -> Records] /\ f[t] = r /\ \A u \in Tasks \ {t} : f[u] = task[u]
    BY DEF Inv, TypeOK, Sound
  <2>3. \A u \in Tasks \ {h} : task'[u] = f[u]
    BY <2>1, <2>2
  <2>4. \A u \in Tasks \ {h} : task[u].pc = "wait" => task'[u] = task[u]
    BY <2>2, <2>3
  <2>5. /\ h \in Tasks /\ task[h].pc = "wait" /\ Lane(h) = l
        /\ line' \in [Lanes -> Seq(Tasks)] /\ Lined(line', task')
        /\ \A m \in Lanes : m # l => line'[m] = line[m]
    BY <1>2, <2>1, <2>4, LinedTail
  <2>6. h # t /\ f[h] = task[h] /\ task'[h] = g
    BY <2>1, <2>2, <2>5
  <2>7. /\ Sound(g)
        /\ \A m : /\ IsGranted(g, m) = (IF m = l THEN 1 ELSE 0) /\ IsGranted(task[h], m) = 0
                  /\ IsQueued(g, m) = IsQueued(task[h], m) /\ Holds(g, m) = Holds(task[h], m)
    BY <2>5, GrantedSound
  <2>8. g \in Records /\ DOMAIN task' = Tasks /\ task' \in [Tasks -> Records]
    <3>1. g \in Records
      BY <2>7 DEF Sound
    <3>2. task' = [f EXCEPT ![h] = g]
      BY <2>1, <2>2, <2>5, <2>6
    <3> QED
      BY <2>2, <3>1, <3>2
  <2> HIDE DEF f, h, g
  <2>9. \A u \in Tasks : Sound(task'[u])
    BY <2>2, <2>3, <2>6, <2>7 DEF Inv
  <2>10. TypeOK'
    BY <2>1, <2>5, <2>8 DEF Inv, TypeOK
  <2>11. ASSUME NEW m \in Lanes
         PROVE  /\ free'[m] + Cardinality(Granted(m)') + Cardinality(Holders(m)') = Limit[m]
                /\ waiters'[m] = Cardinality(InQueue(m)')
    <3>1. /\ free[m] + Cardinality(GrantedIn(task, m)) + Cardinality(HoldersIn(task, m)) = Limit[m]
          /\ waiters[m] = Cardinality(QueueIn(task, m))
      BY SameSets DEF Inv, PermitsConserved
    <3>2. Tallied(task, f, t, m) /\ Tallied(f, task', h, m)
      BY <2>2, <2>3, <2>5, Tally
    <3> DEFINE a == free[m]  w == waiters[m]  n == Limit[m]  d == IF m = l THEN 1 ELSE 0
               h0 == Cardinality(HoldersIn(task, m))  h1 == Cardinality(HoldersIn(f, m))
               h2 == Cardinality(HoldersIn(task', m))
               g0 == Cardinality(GrantedIn(task, m))  g1 == Cardinality(GrantedIn(f, m))
               g2 == Cardinality(GrantedIn(task', m))
               q0 == Cardinality(QueueIn(task, m))  q1 == Cardinality(QueueIn(f, m))
               q2 == Cardinality(QueueIn(task', m))
               x == IsGranted(r, m)  x0 == IsGranted(task[t], m)
               y == Holds(r, m)  y0 == Holds(task[t], m)  k == Holds(task[h], m)
               z == IsQueued(r, m)  z0 == IsQueued(task[t], m)  p == IsQueued(task[h], m)
    <3>3. /\ h1 = h0 + y - y0 /\ g1 = g0 + x - x0 /\ q1 = q0 + z - z0
          /\ h0 \in Nat /\ g0 \in Nat /\ q0 \in Nat
      BY <3>2, <2>2 DEF Tallied
    <3>4. h2 = h1 + k - k /\ g2 = g1 + d - 0 /\ q2 = q1 + p - p
      BY <3>2, <2>6, <2>7 DEF Tallied
    <3>5. /\ x \in Nat /\ x0 \in Nat /\ y \in Nat /\ y0 \in Nat /\ z \in Nat /\ z0 \in Nat
          /\ k \in Nat /\ p \in Nat /\ d \in Nat /\ a \in Nat /\ w \in Nat /\ n \in Nat
          /\ x + y + d = x0 + y0 /\ z = z0
      BY LimitAssumption DEF Inv, TypeOK, IsGranted, Holds, IsQueued
    <3>6. a + g0 + h0 = n /\ w = q0
      BY <3>1
    <3> HIDE DEF a, w, n, d, h0, h1, h2, g0, g1, g2, q0, q1, q2, x, x0, y, y0, k, z, z0, p
    <3>7. h2 = h0 + y - y0 /\ g2 = g0 + x - x0 + d /\ q2 = q0
      BY <3>3, <3>4, <3>5
    <3>8. a + g2 + h2 = n /\ w = q2
      BY <3>5, <3>6, <3>7, <3>3
    <3>9. free'[m] = a /\ waiters'[m] = w
      BY <2>1 DEF a, w
    <3> QED
      BY <3>8, <3>9, SameSets DEF g2, h2, q2, n
  <2>12. free[l] = 0
    BY <1>2 DEF Inv, PermitsConserved
  <2>13. \A m \in Lanes : (line'[m] # <<>> => free'[m] = 0) /\ waiters'[m] <= MaxQueued[m]
    BY <2>1, <2>5, <2>12 DEF Inv, PermitsConserved
  <2>14. PermitsConserved'
    BY <2>11, <2>13 DEF PermitsConserved
  <2> QED
    BY <2>5, <2>9, <2>10, <2>14 DEF Inv
<1> QED
  BY <1>1, <1>2

\* A request gives back a permit it holds.
LEMMA ReleasePermitStep ==
    ASSUME Inv, NEW t \in Tasks, ReleasePermit(t)
    PROVE  Inv'
<1> DEFINE l == Lane(t)
           r == Ready(Tail(task[t].todo), task[t].held \ {l})
<1>1. /\ task[t].pc = "run" /\ task[t].todo # <<>> /\ Head(task[t].todo).op = "release"
      /\ waiters' = waiters
  BY DEF ReleasePermit, At, Doing
<1>2. Fits(task[t].todo, task[t].held)
  BY <1>1 DEF Inv, Sound, Granting
<1>3. /\ l \in Lanes /\ l \in task[t].held /\ task[t].held \ {l} \in SUBSET Lanes
      /\ Tail(task[t].todo) \in Seq(Steps) /\ Fits(Tail(task[t].todo), task[t].held \ {l})
  BY <1>1, <1>2, NextStep, FitsAdvanced DEF Lane
<1>4. Sound(r) /\ r.pc \in {"idle", "run"} /\ r.held = task[t].held \ {l}
  BY <1>3, ReadySound DEF Ready
<1>5. HandOver(l, [task EXCEPT ![t] = r])
  BY DEF ReleasePermit, Advanced
<1> HIDE DEF r
<1>6. \A m : /\ IsGranted(r, m) = 0 /\ IsGranted(task[t], m) = 0
             /\ IsQueued(r, m) = 0 /\ IsQueued(task[t], m) = 0
             /\ Holds(task[t], m) = Holds(r, m) + (IF m = l THEN 1 ELSE 0)
             /\ Holds(r, m) \in Nat
  BY <1>1, <1>3, <1>4 DEF IsGranted, IsQueued, Holds
<1>7. \A m : /\ IsGranted(r, m) + Holds(r, m) + (IF m = l THEN 1 ELSE 0) =
                   IsGranted(task[t], m) + Holds(task[t], m)
             /\ IsQueued(r, m) = IsQueued(task[t], m)
  BY <1>6
<1> HIDE DEF l
<1> QED
  BY <1>1, <1>3, <1>4, <1>5, <1>7, HandOverStep

\* A request is dropped with the permit it was just given.
LEMMA DropGrantedStep ==
    ASSUME Inv, NEW t \in Tasks, DropGranted(t)
    PROVE  Inv'
<1> DEFINE l == Lane(t)
           r == [task[t] EXCEPT !.pc = "leave"]
<1>1. /\ task[t].pc = "granted" /\ task[t].todo # <<>> /\ Head(task[t].todo).op = "acquire"
      /\ waiters' = waiters
  BY DEF DropGranted, At, Inv, Sound, Queueing
<1>2. l \in Lanes
  BY <1>1, Acquiring
<1>3. Sound(r) /\ r.pc = "leave" /\ r.todo = task[t].todo /\ r.held = task[t].held
  BY <1>1, MovesSound DEF Queueing
<1>4. HandOver(l, [task EXCEPT ![t] = r])
  BY DEF DropGranted
<1> HIDE DEF r
<1>5. \A m : /\ IsGranted(r, m) = 0 /\ IsGranted(task[t], m) = (IF m = l THEN 1 ELSE 0)
             /\ IsQueued(r, m) = IsQueued(task[t], m)
             /\ Holds(task[t], m) = Holds(r, m) /\ Holds(r, m) \in Nat
  BY <1>1, <1>3 DEF IsGranted, IsQueued, Holds, Lane
<1>6. \A m : /\ IsGranted(r, m) + Holds(r, m) + (IF m = l THEN 1 ELSE 0) =
                   IsGranted(task[t], m) + Holds(task[t], m)
             /\ IsQueued(r, m) = IsQueued(task[t], m)
  BY <1>5
<1> HIDE DEF l
<1> QED
  BY <1>1, <1>2, <1>3, <1>4, <1>6, HandOverStep

-----------------------------------------------------------------------------
\* Every step of the system keeps the invariant.
LEMMA NextInv == Inv /\ [Next]_vars => Inv'
<1> SUFFICES ASSUME Inv, [Next]_vars
             PROVE  Inv'
  OBVIOUS
<1>1. CASE UNCHANGED vars
  <2>1. task' = task /\ free' = free /\ line' = line /\ waiters' = waiters
    BY <1>1 DEF vars
  <2>2. \A l : Granted(l)' = Granted(l) /\ Holders(l)' = Holders(l) /\ InQueue(l)' = InQueue(l)
    BY <2>1, SameSets
  <2>3. PermitsConserved'
    BY <2>1, <2>2 DEF Inv, PermitsConserved
  <2>4. TypeOK'
    BY <2>1 DEF Inv, TypeOK
  <2> QED
    BY <2>1, <2>3, <2>4 DEF Inv, Lined
<1>2. CASE Next
  <2>1. PICK t \in Tasks : Arrive(t) \/ Progress(t) \/ Dropped(t)
    BY <1>2 DEF Next
  <2>2. CASE Arrive(t)
    BY <2>2, ArriveStep
  <2>3. CASE Progress(t)
    BY <2>3, TryAcquireStep, IncrementWaiterStep, EnterLineStep, WakeStep, LeaveQueueStep,
       ReleasePermitStep, UpstreamStep DEF Progress
  <2>4. CASE Dropped(t)
    BY <2>4, UpstreamStep, LeaveLineStep, DropGrantedStep DEF Dropped
  <2> QED
    BY <2>1, <2>2, <2>3, <2>4
<1> QED
  BY <1>1, <1>2

LEMMA Invariant == Spec => []Inv
<1>1. Init => Inv
  BY InitInv
<1>2. Inv /\ [Next]_vars => Inv'
  BY NextInv
<1> QED
  BY <1>1, <1>2, PTL DEF Spec

\* No permit of a lane is lost or made, nobody stands in line while one is free,
\* and the counter of the queue counts those who wait, within its bound: for
\* any number of requests, any limits, and however requests are dropped.
THEOREM Conservation == Spec => []PermitsConserved
<1>1. Inv => PermitsConserved
  BY DEF Inv
<1> QED
  BY <1>1, Invariant, PTL

-----------------------------------------------------------------------------
\* Public requests in the shared lane

SharedUses == {Acquire("shared"), Upstream("shared")}
Elsewhere(s) == s.op = "upstream" /\ s # Upstream("shared")

\* The public permit encloses what is done with the shared one, and a contact
\* lookup begins after the shared permit is back.
Ordered(todo) ==
    \A i, j \in DOMAIN todo : i < j =>
        /\ todo[i] \in SharedUses => todo[j] # Acquire("public")
        /\ Elsewhere(todo[i]) => todo[j] # Release("shared")
Enclosed(todo) ==
    \A i \in DOMAIN todo : todo[i] \in SharedUses =>
        \E j \in DOMAIN todo : i < j /\ todo[j] = Release("public")
Sharing == \A t \in Public : Ordered(task[t].todo) /\ Enclosed(task[t].todo)

\* Steps that use neither the shared lane nor a contact lookup; and steps after
\* which neither the public permit is taken nor the shared one given back.
Harmless(s) == s \notin SharedUses /\ ~Elsewhere(s)
Late(s) == s # Acquire("public") /\ s # Release("shared")

LEMMA SharingTail ==
    ASSUME NEW todo \in Seq(Steps), todo # <<>>, Ordered(todo), Enclosed(todo)
    PROVE  Ordered(Tail(todo)) /\ Enclosed(Tail(todo))
<1> DEFINE rest == Tail(todo)
<1>1. /\ DOMAIN todo = 1 .. Len(todo) /\ DOMAIN rest = 1 .. Len(todo) - 1 /\ Len(todo) \in Nat
      /\ \A i \in DOMAIN rest : i + 1 \in DOMAIN todo /\ rest[i] = todo[i + 1]
  OBVIOUS
<1> HIDE DEF rest
<1>2. Ordered(rest)
  BY <1>1 DEF Ordered
<1>3. Enclosed(rest)
  <2> SUFFICES ASSUME NEW i \in DOMAIN rest, rest[i] \in SharedUses
               PROVE  \E j \in DOMAIN rest : i < j /\ rest[j] = Release("public")
    BY DEF Enclosed
  <2>1. PICK j \in DOMAIN todo : i + 1 < j /\ todo[j] = Release("public")
    BY <1>1 DEF Enclosed
  <2>2. j - 1 \in DOMAIN rest /\ (j - 1) + 1 = j /\ i < j - 1
    BY <1>1, <2>1
  <2> QED
    BY <1>1, <2>1, <2>2
<1> QED
  BY <1>2, <1>3 DEF rest

LEMMA SharingBoth ==
    ASSUME NEW u \in Seq(Steps), NEW w \in Seq(Steps),
           Ordered(u), Enclosed(u), Ordered(w), Enclosed(w),
           (\A i \in DOMAIN u : Harmless(u[i])) \/ (\A i \in DOMAIN w : Late(w[i]))
    PROVE  u \o w \in Seq(Steps) /\ Ordered(u \o w) /\ Enclosed(u \o w)
<1> DEFINE both == u \o w
           m == Len(u)
<1>1. /\ both \in Seq(Steps) /\ m \in Nat
      /\ DOMAIN u = 1 .. m /\ DOMAIN w = 1 .. Len(w) /\ Len(w) \in Nat
      /\ DOMAIN both = 1 .. m + Len(w)
      /\ \A i \in 1 .. m : both[i] = u[i]
      /\ \A i \in DOMAIN both : i > m => i - m \in DOMAIN w /\ both[i] = w[i - m]
      /\ \A i \in DOMAIN w : m + i \in DOMAIN both /\ both[m + i] = w[i]
  OBVIOUS
<1> HIDE DEF both, m
<1>2. ASSUME NEW i \in DOMAIN both, NEW j \in DOMAIN both, i < j
      PROVE  /\ both[i] \in SharedUses => both[j] # Acquire("public")
             /\ Elsewhere(both[i]) => both[j] # Release("shared")
  <2>1. CASE i <= m /\ j <= m
    BY <1>1, <1>2, <2>1 DEF Ordered
  <2>2. CASE i <= m /\ j > m
    <3>1. both[i] = u[i] /\ i \in DOMAIN u /\ j - m \in DOMAIN w /\ both[j] = w[j - m]
      BY <1>1, <2>2
    <3> QED
      BY <3>1 DEF Harmless, Late
  <2>3. CASE i > m
    <3>1. i - m \in DOMAIN w /\ j - m \in DOMAIN w /\ i - m < j - m
          /\ both[i] = w[i - m] /\ both[j] = w[j - m]
      BY <1>1, <1>2, <2>3
    <3> QED
      BY <3>1 DEF Ordered
  <2> QED
    BY <1>1, <2>1, <2>2, <2>3
<1>3. ASSUME NEW i \in DOMAIN both, both[i] \in SharedUses
      PROVE  \E j \in DOMAIN both : i < j /\ both[j] = Release("public")
  <2>1. CASE i <= m
    <3>1. PICK j \in DOMAIN u : i < j /\ u[j] = Release("public")
      BY <1>1, <1>3, <2>1 DEF Enclosed
    <3> QED
      BY <1>1, <3>1
  <2>2. CASE i > m
    <3>1. PICK j \in DOMAIN w : i - m < j /\ w[j] = Release("public")
      BY <1>1, <1>3, <2>2 DEF Enclosed
    <3>2. i < m + j /\ m + j \in DOMAIN both /\ both[m + j] = w[j]
      BY <1>1, <3>1
    <3> QED
      BY <3>1, <3>2
  <2> QED
    BY <1>1, <2>1, <2>2
<1> QED
  BY <1>1, <1>2, <1>3 DEF Ordered, Enclosed, both

\* What a request gives back when it fails: no step of it uses a lane.
LEMMA SharingUnwind ==
    ASSUME NEW held \in SUBSET Lanes
    PROVE  Ordered(Unwind(held)) /\ Enclosed(Unwind(held))
<1> DEFINE Rel(todo) == todo \in Seq(Steps) /\ \A i \in DOMAIN todo : todo[i].op = "release"
<1>1. \A l \in Lanes : Rel(Held(held, l))
  BY StepFacts DEF Held
<1>2. ASSUME NEW u, NEW w, Rel(u), Rel(w) PROVE Rel(u \o w)
  <2>1. u \o w \in Seq(Steps) /\ Len(u) \in Nat /\ DOMAIN (u \o w) = 1 .. Len(u) + Len(w)
        /\ Len(w) \in Nat
    BY <1>2
  <2>2. ASSUME NEW i \in DOMAIN (u \o w) PROVE (u \o w)[i].op = "release"
    <3>1. CASE i <= Len(u)
      BY <1>2, <2>1, <3>1
    <3>2. CASE i > Len(u)
      <4>1. i - Len(u) \in DOMAIN w /\ (u \o w)[i] = w[i - Len(u)]
        BY <1>2, <2>1, <3>2
      <4> QED
        BY <1>2, <4>1
    <3> QED
      BY <2>1, <3>1, <3>2
  <2> QED
    BY <2>1, <2>2
<1> HIDE DEF Rel
<1>3. Rel(Unwind(held))
  BY <1>1, <1>2 DEF Unwind, Lanes
<1>4. \A i \in DOMAIN Unwind(held) : Harmless(Unwind(held)[i])
  BY <1>3 DEF Rel, Harmless, SharedUses, Elsewhere, Acquire, Upstream
<1> QED
  BY <1>4 DEF Ordered, Enclosed, Harmless

LEMMA SharingRequests ==
    ASSUME NEW t \in Public, NEW todo \in Requests(t)
    PROVE  Ordered(todo) /\ Enclosed(todo)
<1>1. "public" \in Lanes /\ "shared" \in Lanes /\ "contact" \in Lanes /\ "http" \in Lanes
  BY DEF Lanes
<1> DEFINE enter == <<Acquire("http")>>
           leave == <<Release("http")>>
<1>2. /\ enter \in Seq(Steps) /\ leave \in Seq(Steps) /\ Enrichment \in Seq(Steps)
      /\ Lookup(t) = <<Acquire("public"), Acquire("shared"), Upstream("shared"),
                       Release("public"), Release("shared")>>
      /\ Lookup(t) \in Seq(Steps)
  BY <1>1, StepFacts DEF Enrichment, Lookup
<1>3. /\ \A i \in DOMAIN enter : Harmless(enter[i])
      /\ \A i \in DOMAIN leave : Late(leave[i])
      /\ \A i \in DOMAIN Enrichment : Late(Enrichment[i])
  BY DEF Harmless, Late, SharedUses, Elsewhere, Acquire, Release, Upstream, Enrichment
<1>4. Ordered(enter) /\ Enclosed(enter) /\ Ordered(leave) /\ Enclosed(leave)
  BY DEF Ordered, Enclosed, SharedUses, Elsewhere, Acquire, Release, Upstream
<1>5. Ordered(Enrichment) /\ Enclosed(Enrichment)
  BY DEF Ordered, Enclosed, SharedUses, Elsewhere, Acquire, Release, Upstream, Enrichment
<1>6. Ordered(Lookup(t)) /\ Enclosed(Lookup(t))
  <2>1. /\ DOMAIN Lookup(t) = 1 .. 5
        /\ Lookup(t)[1] = Acquire("public") /\ Lookup(t)[2] = Acquire("shared")
        /\ Lookup(t)[3] = Upstream("shared") /\ Lookup(t)[4] = Release("public")
        /\ Lookup(t)[5] = Release("shared")
    BY <1>2
  <2>2. \A i \in 1 .. 5 : i \in 4 .. 5 \/ i = 1 \/ i = 2 \/ i = 3
    OBVIOUS
  <2>3. \A i \in DOMAIN Lookup(t) :
           /\ Lookup(t)[i] \in SharedUses => i \in 2 .. 3
           /\ ~Elsewhere(Lookup(t)[i])
           /\ Lookup(t)[i] = Acquire("public") => i = 1
    BY <2>1, <2>2 DEF SharedUses, Elsewhere, Acquire, Release, Upstream
  <2>4. Ordered(Lookup(t))
    BY <2>1, <2>3 DEF Ordered
  <2>5. Enclosed(Lookup(t))
    <3>1. 4 \in DOMAIN Lookup(t) /\ \A i \in 2 .. 3 : i < 4
      BY <2>1
    <3> QED
      BY <2>1, <2>3, <3>1 DEF Enclosed
  <2> QED
    BY <2>4, <2>5
<1> HIDE DEF enter, leave
<1>7. LET w == Lookup(t) \o Enrichment IN w \in Seq(Steps) /\ Ordered(w) /\ Enclosed(w)
  BY <1>2, <1>3, <1>5, <1>6, SharingBoth
<1>8. PICK w \in {Lookup(t), Enrichment, Lookup(t) \o Enrichment} : todo = enter \o w \o leave
  BY DEF Requests, enter, leave
<1>9. w \in Seq(Steps) /\ Ordered(w) /\ Enclosed(w)
  BY <1>2, <1>5, <1>6, <1>7
<1>10. enter \o w \in Seq(Steps) /\ Ordered(enter \o w) /\ Enclosed(enter \o w)
  BY <1>2, <1>3, <1>4, <1>9, SharingBoth
<1> QED
  BY <1>2, <1>3, <1>4, <1>8, <1>10, SharingBoth

\* What a step may leave a request to do.
Onward(t, todo) ==
    \/ todo = task[t].todo
    \/ task[t].todo # <<>> /\ todo = Tail(task[t].todo)
    \/ todo = Unwind(task[t].held)
    \/ todo \in Requests(t)

LEMMA OneOnward ==
    ASSUME Inv, NEW t \in Tasks, NEW r, task' = [task EXCEPT ![t] = r], Onward(t, r.todo)
    PROVE  \A u \in Tasks : Onward(u, task'[u].todo)
  BY DEF Inv, TypeOK, Onward

LEMMA HandOnward ==
    ASSUME Inv, NEW t \in Tasks, NEW l \in Lanes, NEW r \in Records, Onward(t, r.todo),
           HandOver(l, [task EXCEPT ![t] = r])
    PROVE  \A u \in Tasks : Onward(u, task'[u].todo)
<1> DEFINE f == [task EXCEPT ![t] = r]
<1>1. f \in [Tasks -> Records] /\ \A u \in Tasks : Onward(u, f[u].todo)
  BY DEF Inv, TypeOK, Onward
<1> HIDE DEF f
<1>2. CASE line[l] = <<>>
  BY <1>1, <1>2 DEF HandOver, f
<1>3. CASE line[l] # <<>>
  <2> DEFINE h == Head(line[l])
             g == [f[h] EXCEPT !.pc = "granted"]
  <2>1. h \in Tasks
    BY <1>3 DEF Inv, TypeOK
  <2>2. g.todo = f[h].todo
    BY <1>1, <2>1 DEF Records
  <2>3. task' = [f EXCEPT ![h] = g]
    BY <1>3 DEF HandOver, f
  <2> HIDE DEF h, g
  <2> QED
    BY <1>1, <2>1, <2>2, <2>3
<1> QED
  BY <1>2, <1>3

LEMMA TodoStep ==
    ASSUME Inv, Next, NEW u \in Tasks
    PROVE  Onward(u, task'[u].todo)
<1>1. PICK t \in Tasks : Arrive(t) \/ Progress(t) \/ Dropped(t)
  BY DEF Next
<1>2. task[t] \in Records /\ (task[t].pc \in Queueing => task[t].todo # <<>>)
  BY DEF Inv, TypeOK, Sound
<1>3. \A held : Advanced(t, held).todo = Tail(task[t].todo)
  BY DEF Advanced, Ready
<1>4. Failed(t).todo = Unwind(task[t].held)
  BY DEF Failed, Ready
<1>5. \A p : Onward(t, [task[t] EXCEPT !.pc = p].todo)
  BY <1>2 DEF Onward, Records
<1>6. Onward(t, [task[t] EXCEPT !.pc = "leave", !.held = @ \cup {Lane(t)}].todo)
  BY <1>2 DEF Onward, Records
<1>7. Onward(t, Failed(t).todo)
  BY <1>4 DEF Onward
<1>8. ASSUME NEW held, task[t].todo # <<>> PROVE Onward(t, Advanced(t, held).todo)
  BY <1>3, <1>8 DEF Onward
<1>9. CASE Arrive(t)
  <2>1. PICK todo \in Requests(t) : task' = [task EXCEPT ![t] = Ready(todo, task[t].held)]
    BY <1>9 DEF Arrive
  <2>2. Onward(t, Ready(todo, task[t].held).todo)
    BY DEF Ready, Onward
  <2> QED
    BY <2>1, <2>2, OneOnward
<1>10. CASE TryAcquire(t)
  <2>1. task[t].todo # <<>>
    BY <1>10 DEF TryAcquire, Doing
  <2>2. \/ task' = [task EXCEPT ![t] = Advanced(t, task[t].held \cup {Lane(t)})]
        \/ task' = [task EXCEPT ![t] = [task[t] EXCEPT !.pc = "count"]]
    BY <1>10 DEF TryAcquire
  <2> QED
    BY <1>5, <1>8, <2>1, <2>2, OneOnward
<1>11. CASE IncrementWaiter(t)
  <2>1. \/ task' = [task EXCEPT ![t] = [task[t] EXCEPT !.pc = "enter"]]
        \/ task' = [task EXCEPT ![t] = Failed(t)]
    BY <1>11 DEF IncrementWaiter
  <2> QED
    BY <1>5, <1>7, <2>1, OneOnward
<1>12. CASE EnterLine(t) \/ Wake(t) \/ LeaveLine(t)
  <2>1. \/ \E p \in {"wait", "leave"} : task' = [task EXCEPT ![t] = [task[t] EXCEPT !.pc = p]]
        \/ task' = [task EXCEPT ![t] =
                      [task[t] EXCEPT !.pc = "leave", !.held = @ \cup {Lane(t)}]]
    BY <1>12 DEF EnterLine, Wake, LeaveLine, Inv, TypeOK
  <2> QED
    BY <1>5, <1>6, <2>1, OneOnward
<1>13. CASE LeaveQueue(t)
  <2>1. task[t].todo # <<>>
    BY <1>2, <1>13 DEF LeaveQueue, At, Queueing
  <2>2. \/ task' = [task EXCEPT ![t] = Advanced(t, task[t].held)]
        \/ task' = [task EXCEPT ![t] = Failed(t)]
    BY <1>13 DEF LeaveQueue
  <2> QED
    BY <1>7, <1>8, <2>1, <2>2, OneOnward
<1>14. CASE UpstreamEnds(t) \/ DropUpstream(t)
  <2>1. task[t].todo # <<>>
    BY <1>14 DEF UpstreamEnds, DropUpstream, Doing
  <2>2. \/ task' = [task EXCEPT ![t] = Advanced(t, task[t].held)]
        \/ task' = [task EXCEPT ![t] = Failed(t)]
    BY <1>14 DEF UpstreamEnds, DropUpstream
  <2> QED
    BY <1>7, <1>8, <2>1, <2>2, OneOnward
<1>15. CASE ReleasePermit(t)
  <2> DEFINE r == Advanced(t, task[t].held \ {Lane(t)})
  <2>1. task[t].todo # <<>> /\ HandOver(Lane(t), [task EXCEPT ![t] = r])
    BY <1>15 DEF ReleasePermit, Doing
  <2>2. Lane(t) \in Lanes /\ r \in Records
    BY <2>1, NextStep DEF Advanced, Ready, Records
  <2> QED
    BY <1>8, <2>1, <2>2, HandOnward
<1>16. CASE DropGranted(t)
  <2> DEFINE r == [task[t] EXCEPT !.pc = "leave"]
  <2>1. task[t].todo # <<>> /\ HandOver(Lane(t), [task EXCEPT ![t] = r])
    BY <1>2, <1>16 DEF DropGranted, At, Queueing
  <2>2. Lane(t) \in Lanes /\ r \in Records
    BY <1>2, <2>1, NextStep DEF Records, Queueing
  <2> QED
    BY <1>5, <2>1, <2>2, HandOnward
<1> QED
  BY <1>1, <1>9, <1>10, <1>11, <1>12, <1>13, <1>14, <1>15, <1>16 DEF Progress, Dropped

\* Who uses the shared lane, or is about to, holds the public permit.
LEMMA HoldsPublic ==
    ASSUME Inv, Sharing, NEW t \in Public, task[t].todo # <<>>,
           Head(task[t].todo) \in SharedUses
    PROVE  "public" \in task[t].held
<1> DEFINE todo == task[t].todo
           held == task[t].held
<1>0. t \in Tasks
  BY DEF Tasks
<1>1. /\ todo \in Seq(Steps) /\ 1 \in DOMAIN todo /\ Head(todo) = todo[1]
      /\ DOMAIN todo = 1 .. Len(todo) /\ Len(todo) \in Nat
      /\ Ordered(todo) /\ Enclosed(todo)
  BY <1>0, NextStep DEF Sharing
<1>2. PICK j \in DOMAIN todo : 1 < j /\ todo[j] = Release("public")
  BY <1>1 DEF Enclosed
<1>3. \A k \in DOMAIN todo : 1 < k => todo[k] # Acquire("public")
  BY <1>1 DEF Ordered
<1>4. todo[1] # Acquire("public")
  BY <1>1 DEF SharedUses, Acquire, Upstream
<1>5. Release("public").op = "release" /\ Release("public").lane = "public"
  BY DEF Release
<1>6. CASE Granting(task[t])
  <2> DEFINE rest == Tail(todo)
  <2>1. Fits(rest, held)
    BY <1>0, <1>6 DEF Inv, Sound
  <2>2. /\ DOMAIN rest = 1 .. Len(todo) - 1
        /\ \A k \in DOMAIN rest : rest[k] = todo[k + 1] /\ k + 1 \in DOMAIN todo /\ 1 < k + 1
    BY <1>1
  <2>3. j - 1 \in DOMAIN rest /\ (j - 1) + 1 = j
    BY <1>1, <1>2, <2>2
  <2>4. rest[j - 1] = Release("public")
    BY <1>2, <2>2, <2>3
  <2> HIDE DEF rest
  <2> QED
    BY <1>3, <1>5, <2>1, <2>2, <2>3, <2>4 DEF Fits
<1>7. CASE ~Granting(task[t])
  <2>1. Fits(todo, held)
    BY <1>0, <1>7 DEF Inv, Sound
  <2>2. \A k \in DOMAIN todo : k = 1 \/ 1 < k
    BY <1>1
  <2> QED
    BY <1>2, <1>3, <1>4, <1>5, <2>1, <2>2 DEF Fits
<1> QED
  BY <1>6, <1>7

\* Public traffic never has more than its share of the shared lane, in use or
\* in its queue, whatever the limits of the lanes.
THEOREM Share == Spec => []PublicShare
<1>1. Init => Sharing
  BY DEF Init, Idle, Sharing, Ordered, Enclosed, Tasks
<1>2. Inv /\ Sharing /\ [Next]_vars => Sharing'
  <2> SUFFICES ASSUME Inv, Sharing, [Next]_vars, NEW t \in Public
               PROVE  Ordered(task'[t].todo) /\ Enclosed(task'[t].todo)
    BY DEF Sharing
  <2>1. CASE UNCHANGED vars
    BY <2>1 DEF Sharing, vars
  <2>2. CASE Next
    <3>1. t \in Tasks /\ task[t] \in Records
      BY DEF Tasks, Inv, TypeOK
    <3>2. task[t].todo \in Seq(Steps) /\ task[t].held \in SUBSET Lanes
      BY <3>1 DEF Records
    <3> QED
      BY <2>2, <3>1, <3>2, TodoStep, SharingTail, SharingUnwind, SharingRequests DEF Sharing, Onward
  <2> QED
    BY <2>1, <2>2
<1>3. Inv /\ Sharing => PublicShare
  <2> SUFFICES ASSUME Inv, Sharing PROVE PublicShare
    OBVIOUS
  <2> DEFINE using == {t \in Public : "shared" \in task[t].held /\ Doing(t, "upstream")}
             waiting == InQueue("shared") \cap Public
  <2>1. ASSUME NEW t \in using PROVE "public" \in task[t].held
    <3>1. t \in Public /\ t \in Tasks /\ task[t].todo # <<>> /\ Head(task[t].todo).op = "upstream"
      BY DEF Tasks, Doing
    <3>2. /\ task[t].todo \in Seq(Steps) /\ Head(task[t].todo) = task[t].todo[1]
          /\ DOMAIN task[t].todo = 1 .. Len(task[t].todo) /\ 1 \in DOMAIN task[t].todo
          /\ task[t].todo[1] \in Steps
      BY <3>1, NextStep
    <3>3. ~Granting(task[t])
      BY <3>1 DEF Granting, Inv, Sound, Queueing
    <3>4. PICK j \in DOMAIN task[t].todo : task[t].todo[j] = Release("shared")
      BY <3>1, <3>3 DEF Inv, Sound, Fits
    <3>5. j # 1 /\ 1 < j
      BY <3>1, <3>2, <3>4 DEF Release
    <3>6. task[t].todo[1] = Upstream("shared")
      BY <3>1, <3>2, <3>4, <3>5 DEF Sharing, Ordered, Elsewhere
    <3> QED
      BY <3>1, <3>2, <3>6, HoldsPublic DEF SharedUses
  <2>2. ASSUME NEW t \in waiting PROVE "public" \in task[t].held
    <3>1. t \in Public /\ t \in Tasks /\ task[t].todo # <<>>
          /\ Head(task[t].todo).op = "acquire" /\ Head(task[t].todo).lane = "shared"
      BY DEF InQueue, Tasks, Lane, Inv, Sound, Queueing
    <3>2. Head(task[t].todo) \in Steps
      BY <3>1, NextStep
    <3>3. Head(task[t].todo) = Acquire("shared")
      BY <3>1, <3>2, StepFacts DEF Lanes
    <3> QED
      BY <3>1, <3>3, HoldsPublic DEF SharedUses
  <2>3. using \subseteq Holders("public") /\ waiting \subseteq Holders("public")
    BY <2>1, <2>2 DEF Holders, Tasks
  <2>4. IsFiniteSet(Holders("public")) /\ Cardinality(Holders("public")) \in Nat
    BY TasksAssumption, FS_Subset, FS_CardinalityType DEF Holders
  <2>5. /\ Cardinality(using) <= Cardinality(Holders("public")) /\ Cardinality(using) \in Nat
        /\ Cardinality(waiting) <= Cardinality(Holders("public")) /\ Cardinality(waiting) \in Nat
    BY <2>3, <2>4, FS_Subset, FS_CardinalityType
  <2>6. Cardinality(Holders("public")) <= Limit["public"] /\ Limit["public"] \in Nat
    <3>1. "public" \in Lanes /\ free["public"] \in Nat /\ Limit["public"] \in Nat
      BY LimitAssumption DEF Lanes, Inv, TypeOK
    <3>2. Cardinality(Granted("public")) \in Nat
      BY TasksAssumption, FS_Subset, FS_CardinalityType DEF Granted
    <3> QED
      BY <2>4, <3>1, <3>2 DEF Inv, PermitsConserved
  <2> HIDE DEF using, waiting
  <2>7. Cardinality(using) <= Limit["public"] /\ Cardinality(waiting) <= Limit["public"]
    BY <2>4, <2>5, <2>6
  <2> QED
    BY <2>7 DEF PublicShare, using, waiting
<1> QED
  BY <1>1, <1>2, <1>3, Invariant, PTL DEF Spec

-----------------------------------------------------------------------------
\* The order of the lanes

\* A request climbs: it takes its permits in the order of the lanes.
Depth(l) == IF l = "http" THEN 1 ELSE IF l = "public" THEN 2 ELSE IF l = "shared" THEN 3 ELSE 4

Climbs(todo, held) ==
    \A i \in DOMAIN todo : todo[i].op = "acquire" =>
        /\ \A j \in DOMAIN todo : j < i /\ todo[j].op = "acquire" =>
              Depth(todo[j].lane) < Depth(todo[i].lane)
        /\ \A l \in held : Depth(l) < Depth(todo[i].lane)

\* A request has something left to do while it runs, and who waits in a queue
\* stands in the line of its lane.
Rest(r) == IF Granting(r) THEN Tail(r.todo) ELSE r.todo
Climbing(r) == Climbs(Rest(r), r.held) /\ (r.pc = "run" => r.todo # <<>>)
StandsIn(queue, t, l) == \E i \in DOMAIN queue[l] : queue[l][i] = t
Standing(queue, f) ==
    \A t \in Tasks : f[t].pc = "wait" => StandsIn(queue, t, Head(f[t].todo).lane)
Ladder == (\A t \in Tasks : Climbing(task[t])) /\ Standing(line, task)

\* Whoever stands in line for a permit waits, in the end, for a request that
\* waits for nobody: one that was handed a permit of that lane, or of a later
\* one, or that holds one, and can take its next step.
Active(u) == task[u].pc \notin {"idle", "wait"} /\ task[u].todo # <<>>
HasFrom(u, n) ==
    \/ At(u, "granted") /\ Depth(Lane(u)) >= n
    \/ \E l \in task[u].held : Depth(l) >= n
NoGridlock ==
    \A t \in Tasks : At(t, "wait") =>
        \E u \in Tasks : Active(u) /\ HasFrom(u, Depth(Lane(t)))

-----------------------------------------------------------------------------
\* What a request has left to do

LEMMA ClimbsTail ==
    ASSUME NEW todo \in Seq(Steps), todo # <<>>, NEW held, Climbs(todo, held), NEW more,
           \A l \in more : l \in held \/ (Head(todo).op = "acquire" /\ l = Head(todo).lane)
    PROVE  Climbs(Tail(todo), more)
<1> DEFINE rest == Tail(todo)
<1>1. /\ 1 \in DOMAIN todo /\ Head(todo) = todo[1]
      /\ \A i \in DOMAIN rest : /\ i \in Int /\ i >= 1 /\ i + 1 \in DOMAIN todo
                                /\ rest[i] = todo[i + 1]
  OBVIOUS
<1> HIDE DEF rest
<1> SUFFICES ASSUME NEW i \in DOMAIN rest, rest[i].op = "acquire"
             PROVE  /\ \A j \in DOMAIN rest : j < i /\ rest[j].op = "acquire" =>
                          Depth(rest[j].lane) < Depth(rest[i].lane)
                    /\ \A l \in more : Depth(l) < Depth(rest[i].lane)
  BY DEF Climbs, rest
<1>2. /\ i + 1 \in DOMAIN todo /\ rest[i] = todo[i + 1] /\ 1 < i + 1 /\ i \in Int
  BY <1>1
<1>3. ASSUME NEW j \in DOMAIN rest, j < i, rest[j].op = "acquire"
      PROVE  Depth(rest[j].lane) < Depth(rest[i].lane)
  <2>1. j + 1 \in DOMAIN todo /\ rest[j] = todo[j + 1] /\ j + 1 < i + 1
    BY <1>1, <1>2, <1>3
  <2> QED
    BY <1>2, <1>3, <2>1 DEF Climbs
<1>4. ASSUME NEW l \in more PROVE Depth(l) < Depth(rest[i].lane)
  BY <1>1, <1>2 DEF Climbs
<1> QED
  BY <1>3, <1>4

LEMMA ClimbsBoth ==
    ASSUME NEW u \in Seq(Steps), NEW w \in Seq(Steps), Climbs(u, {}), Climbs(w, {}), NEW n \in Int,
           \A i \in DOMAIN u : u[i].op = "acquire" => Depth(u[i].lane) < n,
           \A i \in DOMAIN w : w[i].op = "acquire" => Depth(w[i].lane) >= n
    PROVE  u \o w \in Seq(Steps) /\ Climbs(u \o w, {})
<1> DEFINE both == u \o w
           m == Len(u)
<1>1. /\ both \in Seq(Steps) /\ m \in Nat
      /\ DOMAIN u = 1 .. m /\ DOMAIN w = 1 .. Len(w) /\ Len(w) \in Nat
      /\ DOMAIN both = 1 .. m + Len(w)
      /\ \A i \in 1 .. m : both[i] = u[i]
      /\ \A i \in DOMAIN both : i > m => i - m \in DOMAIN w /\ both[i] = w[i - m]
  OBVIOUS
<1> HIDE DEF both, m
<1>2. \A l : Depth(l) \in Int
  BY DEF Depth
<1>3. ASSUME NEW i \in DOMAIN both, NEW j \in DOMAIN both, j < i,
             both[i].op = "acquire", both[j].op = "acquire"
      PROVE  Depth(both[j].lane) < Depth(both[i].lane)
  <2>0. i \in Int /\ j \in Int /\ m \in Int /\ i >= 1 /\ j >= 1
    BY <1>1
  <2>1. CASE i <= m
    <3>1. i \in DOMAIN u /\ j \in DOMAIN u /\ both[i] = u[i] /\ both[j] = u[j]
      BY <1>1, <1>3, <2>0, <2>1
    <3> QED
      BY <1>3, <3>1 DEF Climbs
  <2>2. CASE j > m
    <3>1. /\ i - m \in DOMAIN w /\ j - m \in DOMAIN w /\ j - m < i - m
          /\ both[i] = w[i - m] /\ both[j] = w[j - m]
      BY <1>1, <1>3, <2>0, <2>2
    <3> QED
      BY <1>3, <3>1 DEF Climbs
  <2>3. CASE i > m /\ j <= m
    <3>1. i - m \in DOMAIN w /\ j \in DOMAIN u /\ both[i] = w[i - m] /\ both[j] = u[j]
      BY <1>1, <2>0, <2>3
    <3>2. Depth(both[j].lane) < n /\ Depth(both[i].lane) >= n
      BY <1>3, <3>1
    <3> QED
      BY <1>2, <3>2
  <2> QED
    BY <2>0, <2>1, <2>2, <2>3
<1> QED
  BY <1>1, <1>3 DEF Climbs, both

\* A request that gives up acquires nothing any more.
LEMMA ClimbsUnwind ==
    ASSUME NEW held \in SUBSET Lanes
    PROVE  Climbs(Unwind(held), held)
<1> DEFINE Rel(todo) == todo \in Seq(Steps) /\ \A i \in DOMAIN todo : todo[i].op = "release"
<1>1. \A l \in Lanes : Rel(Held(held, l))
  BY StepFacts DEF Held
<1>2. ASSUME NEW u, NEW w, Rel(u), Rel(w) PROVE Rel(u \o w)
  <2>1. u \o w \in Seq(Steps) /\ Len(u) \in Nat /\ DOMAIN (u \o w) = 1 .. Len(u) + Len(w)
        /\ Len(w) \in Nat
    BY <1>2
  <2>2. ASSUME NEW i \in DOMAIN (u \o w) PROVE (u \o w)[i].op = "release"
    <3>1. CASE i <= Len(u)
      BY <1>2, <2>1, <3>1
    <3>2. CASE i > Len(u)
      <4>1. i - Len(u) \in DOMAIN w /\ (u \o w)[i] = w[i - Len(u)]
        BY <1>2, <2>1, <3>2
      <4> QED
        BY <1>2, <4>1
    <3> QED
      BY <2>1, <3>1, <3>2
  <2> QED
    BY <2>1, <2>2
<1> HIDE DEF Rel
<1>3. Rel(Unwind(held))
  BY <1>1, <1>2 DEF Unwind, Lanes
<1> QED
  BY <1>3 DEF Rel, Climbs

\* Work that takes permits of the lanes from the a-th to the b-th only.
Way(w, a, b) ==
    /\ w \in Seq(Steps) /\ Climbs(w, {})
    /\ \A i \in DOMAIN w : w[i].op = "acquire" => a <= Depth(w[i].lane) /\ Depth(w[i].lane) <= b

LEMMA WaysMeet ==
    ASSUME NEW u, NEW w, NEW a \in Int, NEW b \in Int, NEW c \in Int, NEW d \in Int,
           Way(u, a, b), Way(w, c, d), a <= b, b < c, c <= d
    PROVE  Way(u \o w, a, d)
<1>0. \A l : Depth(l) \in Int
  BY DEF Depth
<1>1. /\ u \in Seq(Steps) /\ w \in Seq(Steps) /\ Climbs(u, {}) /\ Climbs(w, {})
      /\ \A i \in DOMAIN u : u[i].op = "acquire" => a <= Depth(u[i].lane) /\ Depth(u[i].lane) <= b
      /\ \A i \in DOMAIN w : w[i].op = "acquire" => c <= Depth(w[i].lane) /\ Depth(w[i].lane) <= d
  BY DEF Way
<1>2. /\ \A i \in DOMAIN u : u[i].op = "acquire" => Depth(u[i].lane) < c
      /\ \A i \in DOMAIN w : w[i].op = "acquire" => Depth(w[i].lane) >= c
  BY <1>0, <1>1
<1>3. u \o w \in Seq(Steps) /\ Climbs(u \o w, {})
  BY <1>1, <1>2, ClimbsBoth
<1>4. ASSUME NEW i \in DOMAIN (u \o w), (u \o w)[i].op = "acquire"
      PROVE  a <= Depth((u \o w)[i].lane) /\ Depth((u \o w)[i].lane) <= d
  <2> DEFINE n == Depth((u \o w)[i].lane)
  <2>1. \/ i \in DOMAIN u /\ (u \o w)[i] = u[i]
        \/ i - Len(u) \in DOMAIN w /\ (u \o w)[i] = w[i - Len(u)]
    BY <1>1
  <2>2. (a <= n /\ n <= b) \/ (c <= n /\ n <= d)
    BY <1>1, <1>4, <2>1
  <2>3. n \in Int
    BY <1>0
  <2> HIDE DEF n
  <2>4. a <= n /\ n <= d
    BY <2>2, <2>3
  <2> QED
    BY <2>4 DEF n
<1> QED
  BY <1>3, <1>4 DEF Way

LEMMA WayWider ==
    ASSUME NEW w, NEW a \in Int, NEW b \in Int, NEW c \in Int, NEW d \in Int,
           Way(w, a, b), c <= a, b <= d
    PROVE  Way(w, c, d)
<1>1. ASSUME NEW n \in Int, a <= n, n <= b PROVE c <= n /\ n <= d
  BY <1>1
<1>2. \A l : Depth(l) \in Int
  BY DEF Depth
<1> QED
  BY <1>1, <1>2 DEF Way

LEMMA ClimbsRequests ==
    ASSUME NEW t \in Tasks, NEW todo \in Requests(t)
    PROVE  Climbs(todo, {})
<1>1. "public" \in Lanes /\ "shared" \in Lanes /\ "contact" \in Lanes /\ "http" \in Lanes
  BY DEF Lanes
<1> DEFINE enter == <<Acquire("http")>>
           leave == <<Release("http")>>
<1>2. \A l \in Lanes : /\ Acquire(l) \in Steps /\ Acquire(l).op = "acquire" /\ Acquire(l).lane = l
                      /\ Upstream(l) \in Steps /\ Upstream(l).op # "acquire"
                      /\ Release(l) \in Steps /\ Release(l).op # "acquire"
  BY StepFacts
<1>3. Depth("http") = 1 /\ Depth("public") = 2 /\ Depth("shared") = 3 /\ Depth("contact") = 4
  BY DEF Depth
<1>4. Way(enter, 1, 1) /\ Way(leave, 5, 5)
  BY <1>1, <1>2, <1>3 DEF Way, Climbs
<1>5. Way(Enrichment, 4, 4)
  <2>1. /\ Enrichment \in Seq(Steps) /\ DOMAIN Enrichment = 1 .. 3
        /\ Enrichment[1] = Acquire("contact") /\ Enrichment[2] = Upstream("contact")
        /\ Enrichment[3] = Release("contact")
    BY <1>1, <1>2 DEF Enrichment
  <2>2. \A i \in DOMAIN Enrichment : Enrichment[i].op = "acquire" =>
           i = 1 /\ Enrichment[i].lane = "contact"
    BY <1>1, <1>2, <2>1
  <2> QED
    BY <1>3, <2>1, <2>2 DEF Way, Climbs
<1>6. Way(Lookup(t), 2, 3)
  <2>1. CASE t \in Public
    <3>1. /\ Lookup(t) \in Seq(Steps) /\ DOMAIN Lookup(t) = 1 .. 5
          /\ Lookup(t)[1] = Acquire("public") /\ Lookup(t)[2] = Acquire("shared")
          /\ Lookup(t)[3] = Upstream("shared") /\ Lookup(t)[4] = Release("public")
          /\ Lookup(t)[5] = Release("shared")
      BY <1>1, <1>2, <2>1 DEF Lookup
    <3>2. \A i \in DOMAIN Lookup(t) : Lookup(t)[i].op = "acquire" =>
             \/ i = 1 /\ Lookup(t)[i].lane = "public"
             \/ i = 2 /\ Lookup(t)[i].lane = "shared"
      BY <1>1, <1>2, <3>1
    <3> QED
      BY <1>3, <3>1, <3>2 DEF Way, Climbs
  <2>2. CASE t \notin Public
    <3>1. /\ Lookup(t) \in Seq(Steps) /\ DOMAIN Lookup(t) = 1 .. 3
          /\ Lookup(t)[1] = Acquire("shared") /\ Lookup(t)[2] = Upstream("shared")
          /\ Lookup(t)[3] = Release("shared")
      BY <1>1, <1>2, <2>2 DEF Lookup
    <3>2. \A i \in DOMAIN Lookup(t) : Lookup(t)[i].op = "acquire" =>
             i = 1 /\ Lookup(t)[i].lane = "shared"
      BY <1>1, <1>2, <3>1
    <3> QED
      BY <1>3, <3>1, <3>2 DEF Way, Climbs
  <2> QED
    BY <2>1, <2>2
<1> HIDE DEF enter, leave
<1>7. Way(Lookup(t) \o Enrichment, 2, 4)
  BY <1>5, <1>6, WaysMeet
<1>8. \A w \in {Lookup(t), Enrichment, Lookup(t) \o Enrichment} : Way(w, 2, 4)
  <2>1. Way(Enrichment, 2, 4) /\ Way(Lookup(t), 2, 4)
    BY <1>5, <1>6, WayWider
  <2> QED
    BY <1>7, <2>1
<1>9. CASE t \in Public
  <2>1. PICK w \in {Lookup(t), Enrichment, Lookup(t) \o Enrichment} : todo = enter \o w \o leave
    BY <1>9 DEF Requests, enter, leave
  <2>2. Way(enter \o w, 1, 4)
    <3>1. Way(w, 2, 4)
      BY <1>8
    <3> QED
      BY <1>4, <3>1, WaysMeet
  <2>3. Way((enter \o w) \o leave, 1, 5)
    BY <1>4, <2>2, WaysMeet
  <2> QED
    BY <2>1, <2>3 DEF Way
<1>10. CASE t \notin Public
  BY <1>8, <1>10 DEF Requests, Way
<1> QED
  BY <1>9, <1>10

-----------------------------------------------------------------------------
\* Every step keeps to the order

LEMMA ReadyClimbs ==
    ASSUME NEW todo, NEW held, Climbs(todo, held)
    PROVE  Climbing(Ready(todo, held))
BY DEF Climbing, Rest, Granting, Ready

\* A request in a queue holds no permit of the lane, unless it was just given.
LEMMA WaitsWithout ==
    ASSUME Inv, NEW t \in Tasks, ~Granting(task[t]), task[t].todo # <<>>,
           Head(task[t].todo).op = "acquire"
    PROVE  Lane(t) \notin task[t].held
<1>1. Fits(task[t].todo, task[t].held) /\ task[t].todo \in Seq(Steps) /\ task[t].held \in SUBSET Lanes
  BY NextStep DEF Inv, Sound
<1> QED
  BY <1>1, FitsAdvanced DEF Lane

LEMMA MovesClimb ==
    ASSUME Inv, NEW t \in Tasks, ~Granting(task[t]), task[t].todo # <<>>,
           Head(task[t].todo).op = "acquire", Climbing(task[t]), NEW pc \in Queueing
    PROVE  Climbing([task[t] EXCEPT !.pc = pc])
<1> DEFINE r == [task[t] EXCEPT !.pc = pc]
<1>1. task[t] \in Records /\ Lane(t) \notin task[t].held
  BY WaitsWithout, NextStep
<1>2. r.pc = pc /\ r.todo = task[t].todo /\ r.held = task[t].held
  BY <1>1 DEF Records
<1>3. ~Granting(r)
  BY <1>1, <1>2 DEF Granting, Lane
<1> HIDE DEF r
<1>4. Climbing(r)
  BY <1>2, <1>3 DEF Climbing, Rest, Queueing
<1> QED
  BY <1>4 DEF r

\* The request that was just given its permit, and the one that had it at once.
Given(t) == [task[t] EXCEPT !.pc = "leave", !.held = @ \cup {Lane(t)}]
Permitted(t) == Advanced(t, task[t].held \cup {Lane(t)})

LEMMA PermittedClimbs ==
    ASSUME Inv, NEW t \in Tasks, ~Granting(task[t]), task[t].todo # <<>>,
           Head(task[t].todo).op = "acquire", Climbing(task[t])
    PROVE  Climbing(Given(t)) /\ Climbing(Permitted(t))
<1> DEFINE r == [task[t] EXCEPT !.pc = "leave", !.held = @ \cup {Lane(t)}]
           more == task[t].held \cup {Lane(t)}
<1>1. task[t] \in Records /\ task[t].todo \in Seq(Steps)
  BY NextStep
<1>2. r.pc = "leave" /\ r.todo = task[t].todo /\ r.held = more
  BY <1>1 DEF Records
<1>3. Climbs(task[t].todo, task[t].held)
  BY DEF Climbing, Rest
<1>4. \A l \in more : l \in task[t].held
                      \/ (Head(task[t].todo).op = "acquire" /\ l = Head(task[t].todo).lane)
  BY DEF Lane
<1> HIDE DEF r, more
<1>5. Climbs(Tail(task[t].todo), more)
  BY <1>1, <1>3, <1>4, ClimbsTail
<1>6. Lane(t) \in more
  BY DEF more
<1>7. Granting(r)
  BY <1>2, <1>6 DEF Granting, Lane
<1>8. Climbing(r)
  BY <1>2, <1>5, <1>7 DEF Climbing, Rest
<1>9. Climbing(Advanced(t, more))
  BY <1>5, ReadyClimbs DEF Advanced
<1> QED
  BY <1>8, <1>9 DEF r, more, Given, Permitted

\* A request that gives up, and one that is done with a step.
LEMMA FailedClimbs ==
    ASSUME Inv, NEW t \in Tasks
    PROVE  Climbing(Failed(t))
<1>1. task[t].held \in SUBSET Lanes
  BY DEF Inv, TypeOK, Records
<1> QED
  BY <1>1, ClimbsUnwind, ReadyClimbs DEF Failed

LEMMA AdvancedClimbs ==
    ASSUME Inv, NEW t \in Tasks, task[t].todo # <<>>, Climbing(task[t]), NEW less,
           less \subseteq task[t].held
    PROVE  Climbing(Advanced(t, less))
<1>1. task[t].todo \in Seq(Steps)
  BY NextStep
<1>2. Climbs(Tail(task[t].todo), less)
  <2>1. CASE Granting(task[t])
    <3>1. Climbs(Tail(task[t].todo), task[t].held)
      BY <2>1 DEF Climbing, Rest
    <3> QED
      BY <3>1 DEF Climbs
  <2>2. CASE ~Granting(task[t])
    <3>1. Climbs(task[t].todo, task[t].held)
      BY <2>2 DEF Climbing, Rest
    <3> QED
      BY <1>1, <3>1, ClimbsTail
  <2> QED
    BY <2>1, <2>2
<1> QED
  BY <1>2, ReadyClimbs DEF Advanced

LEMMA OneClimbs ==
    ASSUME Inv, \A u \in Tasks : Climbing(task[u]), NEW t \in Tasks, NEW r, Climbing(r),
           task' = [task EXCEPT ![t] = r]
    PROVE  \A u \in Tasks : Climbing(task'[u])
  BY DEF Inv, TypeOK

\* The request that is handed the permit was standing in line.
LEMMA HandClimbs ==
    ASSUME Inv, \A u \in Tasks : Climbing(task[u]), NEW t \in Tasks, task[t].pc # "wait", NEW r,
           Climbing(r), NEW l \in Lanes, HandOver(l, [task EXCEPT ![t] = r])
    PROVE  \A u \in Tasks : Climbing(task'[u])
<1> DEFINE f == [task EXCEPT ![t] = r]
<1>1. /\ DOMAIN f = Tasks /\ f[t] = r /\ \A u \in Tasks : u # t => f[u] = task[u]
      /\ \A u \in Tasks : Climbing(f[u])
  BY DEF Inv, TypeOK
<1>2. CASE line[l] = <<>>
  BY <1>1, <1>2 DEF HandOver
<1>3. CASE line[l] # <<>>
  <2> DEFINE h == Head(line[l])
             g == [task[h] EXCEPT !.pc = "granted"]
  <2>1. /\ line[l] \in Seq(Tasks) /\ h = line[l][1] /\ 1 \in DOMAIN line[l]
    BY <1>3 DEF Inv, TypeOK
  <2>2. h \in Tasks /\ task[h].pc = "wait"
    BY <2>1 DEF Inv, Lined
  <2>3. /\ ~Granting(task[h]) /\ task[h].todo # <<>> /\ Head(task[h].todo).op = "acquire"
        /\ "granted" \in Queueing
    BY <2>2 DEF Granting, Inv, Sound, Queueing
  <2>4. Climbing(g)
    BY <2>2, <2>3, MovesClimb
  <2>5. h # t /\ f[h] = task[h]
    BY <1>1, <2>2
  <2>6. task' = [f EXCEPT ![h] = g]
    <3>1. task' = [f EXCEPT ![h].pc = "granted"]
      BY <1>3 DEF HandOver
    <3> QED
      BY <1>1, <2>2, <2>5, <3>1
  <2> HIDE DEF f, g, h
  <2> QED
    BY <1>1, <2>2, <2>4, <2>6
<1> QED
  BY <1>2, <1>3

LEMMA ClimbStep ==
    ASSUME Inv, \A u \in Tasks : Climbing(task[u]), Next
    PROVE  \A u \in Tasks : Climbing(task'[u])
<1>1. PICK t \in Tasks : Arrive(t) \/ Progress(t) \/ Dropped(t)
  BY DEF Next
<1>2. /\ task[t] \in Records /\ Sound(task[t]) /\ Climbing(task[t])
      /\ (task[t].pc \in Queueing => task[t].todo # <<>> /\ Head(task[t].todo).op = "acquire")
      /\ (task[t].pc # "leave" => ~Granting(task[t]))
  BY DEF Inv, TypeOK, Sound, Granting
<1>3. CASE Arrive(t)
  <2>1. PICK todo \in Requests(t) : task' = [task EXCEPT ![t] = Ready(todo, task[t].held)]
    BY <1>3 DEF Arrive
  <2>2. task[t].held = {}
    BY <1>2, <1>3, FitsNothing DEF Arrive, At, Sound
  <2>3. Climbing(Ready(todo, task[t].held))
    BY <2>2, ClimbsRequests, ReadyClimbs
  <2> QED
    BY <2>1, <2>3, OneClimbs
<1>4. CASE TryAcquire(t)
  <2>1. task[t].todo # <<>> /\ Head(task[t].todo).op = "acquire" /\ ~Granting(task[t])
    BY <1>2, <1>4 DEF TryAcquire, Doing, At
  <2>2. \/ task' = [task EXCEPT ![t] = Permitted(t)]
        \/ task' = [task EXCEPT ![t] = [task[t] EXCEPT !.pc = "count"]]
    BY <1>4 DEF TryAcquire, Permitted
  <2>3. Climbing([task[t] EXCEPT !.pc = "count"]) /\ Climbing(Permitted(t))
    <3>1. "count" \in Queueing
      BY DEF Queueing
    <3>2. Climbing([task[t] EXCEPT !.pc = "count"])
      BY <1>2, <2>1, <3>1, MovesClimb
    <3>3. Climbing(Permitted(t))
      BY <1>2, <2>1, PermittedClimbs
    <3> QED
      BY <3>2, <3>3
  <2> QED
    BY <2>2, <2>3, OneClimbs
<1>5. CASE IncrementWaiter(t)
  <2>1. /\ "enter" \in Queueing /\ task[t].todo # <<>> /\ Head(task[t].todo).op = "acquire"
        /\ ~Granting(task[t])
    BY <1>2, <1>5 DEF IncrementWaiter, At, Queueing
  <2>2. \/ task' = [task EXCEPT ![t] = [task[t] EXCEPT !.pc = "enter"]]
        \/ task' = [task EXCEPT ![t] = Failed(t)]
    BY <1>5 DEF IncrementWaiter
  <2>3. Climbing([task[t] EXCEPT !.pc = "enter"]) /\ Climbing(Failed(t))
    BY <1>2, <2>1, MovesClimb, FailedClimbs
  <2> QED
    BY <2>2, <2>3, OneClimbs
<1>6. CASE EnterLine(t) \/ Wake(t) \/ LeaveLine(t)
  <2>1. /\ "wait" \in Queueing /\ "leave" \in Queueing /\ task[t].todo # <<>>
        /\ Head(task[t].todo).op = "acquire" /\ ~Granting(task[t])
    BY <1>2, <1>6 DEF EnterLine, Wake, LeaveLine, At, Queueing
  <2>2. \/ \E p \in {"wait", "leave"} : task' = [task EXCEPT ![t] = [task[t] EXCEPT !.pc = p]]
        \/ task' = [task EXCEPT ![t] = Given(t)]
    BY <1>6 DEF EnterLine, Wake, LeaveLine, Inv, TypeOK, Given
  <2>3. /\ \A p \in {"wait", "leave"} : Climbing([task[t] EXCEPT !.pc = p])
        /\ Climbing(Given(t))
    <3>1. \A p \in {"wait", "leave"} : Climbing([task[t] EXCEPT !.pc = p])
      BY <1>2, <2>1, MovesClimb
    <3>2. Climbing(Given(t))
      BY <1>2, <2>1, PermittedClimbs
    <3> QED
      BY <3>1, <3>2
  <2> QED
    BY <2>2, <2>3, OneClimbs
<1>7. CASE LeaveQueue(t)
  <2>1. task[t].todo # <<>>
    BY <1>2, <1>7 DEF LeaveQueue, At, Queueing
  <2>2. \/ task' = [task EXCEPT ![t] = Advanced(t, task[t].held)]
        \/ task' = [task EXCEPT ![t] = Failed(t)]
    BY <1>7 DEF LeaveQueue
  <2>3. Climbing(Advanced(t, task[t].held)) /\ Climbing(Failed(t))
    BY <1>2, <2>1, AdvancedClimbs, FailedClimbs
  <2> QED
    BY <2>2, <2>3, OneClimbs
<1>8. CASE UpstreamEnds(t) \/ DropUpstream(t)
  <2>1. task[t].todo # <<>>
    BY <1>8 DEF UpstreamEnds, DropUpstream, Doing
  <2>2. \/ task' = [task EXCEPT ![t] = Advanced(t, task[t].held)]
        \/ task' = [task EXCEPT ![t] = Failed(t)]
    BY <1>8 DEF UpstreamEnds, DropUpstream
  <2>3. Climbing(Advanced(t, task[t].held)) /\ Climbing(Failed(t))
    BY <1>2, <2>1, AdvancedClimbs, FailedClimbs
  <2> QED
    BY <2>2, <2>3, OneClimbs
<1>9. CASE ReleasePermit(t)
  <2> DEFINE r == Advanced(t, task[t].held \ {Lane(t)})
  <2>1. /\ task[t].todo # <<>> /\ HandOver(Lane(t), [task EXCEPT ![t] = r])
        /\ task[t].pc # "wait"
    BY <1>9 DEF ReleasePermit, Doing, At
  <2>2. Lane(t) \in Lanes /\ task[t].held \ {Lane(t)} \subseteq task[t].held
    BY <2>1, NextStep
  <2>3. Climbing(r)
    BY <1>2, <2>1, <2>2, AdvancedClimbs
  <2> HIDE DEF r
  <2> QED
    BY <2>1, <2>2, <2>3, HandClimbs
<1>10. CASE DropGranted(t)
  <2> DEFINE r == [task[t] EXCEPT !.pc = "leave"]
  <2>1. /\ task[t].todo # <<>> /\ HandOver(Lane(t), [task EXCEPT ![t] = r])
        /\ Head(task[t].todo).op = "acquire" /\ task[t].pc # "wait" /\ ~Granting(task[t])
        /\ "leave" \in Queueing
    BY <1>2, <1>10 DEF DropGranted, At, Queueing
  <2>2. Lane(t) \in Lanes
    BY <2>1, NextStep
  <2>3. Climbing(r)
    BY <1>2, <2>1, MovesClimb
  <2> HIDE DEF r
  <2> QED
    BY <2>1, <2>2, <2>3, HandClimbs
<1> QED
  BY <1>1, <1>3, <1>4, <1>5, <1>6, <1>7, <1>8, <1>9, <1>10 DEF Progress, Dropped

-----------------------------------------------------------------------------
\* Who waits stands in line

\* Where an entry before the gap, or behind it, is found.
LEMMA Around ==
    ASSUME NEW n \in Int, NEW i \in Int, NEW k \in Int, 1 <= i, i <= n, 1 <= k, k <= n
    PROVE  /\ k < i => k \in 1 .. i - 1 /\ k \in 1 .. n - 1 /\ k <= i - 1
           /\ k > i => /\ k - 1 \in 1 .. n - 1 /\ ~(k - 1 <= i - 1)
                       /\ (k - 1) - (i - 1) = k - i /\ k - i \in 1 .. n - i /\ i + (k - i) = k
           /\ k < i \/ k = i \/ k > i
OBVIOUS

\* The others stay when one request leaves the line.
LEMMA OthersStay ==
    ASSUME NEW q \in Seq(Tasks), NEW i \in DOMAIN q
    PROVE  \A k \in DOMAIN q : k # i =>
              \E j \in DOMAIN RemoveAt(q, i) : RemoveAt(q, i)[j] = q[k]
<1> DEFINE a == SubSeq(q, 1, i - 1)
           b == SubSeq(q, i + 1, Len(q))
<1>1. Len(q) \in Nat /\ DOMAIN q = 1 .. Len(q) /\ i \in 1 .. Len(q)
  OBVIOUS
<1>2. a \in Seq(Tasks) /\ Len(a) = i - 1 /\ \A j \in 1 .. i - 1 : a[j] = q[j]
  BY <1>1
<1>3. b \in Seq(Tasks) /\ Len(b) = Len(q) - i /\ \A j \in 1 .. Len(q) - i : b[j] = q[i + j]
  <2>1. Len(b) = Len(q) - i
    BY <1>1
  <2>2. b \in Seq(Tasks)
    BY <1>1
  <2>3. \A j \in 1 .. Len(q) - i : b[j] = q[i + j]
    BY <1>1
  <2> QED
    BY <2>1, <2>2, <2>3
<1> HIDE DEF a, b
<1> DEFINE c == a \o b
<1>4. /\ c \in Seq(Tasks) /\ Len(c) = Len(a) + Len(b)
      /\ \A j \in 1 .. Len(a) + Len(b) : c[j] = (IF j <= Len(a) THEN a[j] ELSE b[j - Len(a)])
  BY <1>2, <1>3, ConcatProperties
<1> HIDE DEF c
<1> DEFINE n == Len(q)
<1>5. n \in Int /\ i \in Int /\ 1 <= i /\ i <= n /\ Len(a) + Len(b) = n - 1
  BY <1>1, <1>2, <1>3
<1>6. /\ \A j \in 1 .. i - 1 : a[j] = q[j]
      /\ \A j \in 1 .. n - i : b[j] = q[i + j]
      /\ \A j \in 1 .. n - 1 : c[j] = (IF j <= i - 1 THEN a[j] ELSE b[j - (i - 1)])
      /\ DOMAIN c = 1 .. n - 1
  <2>1. Len(c) = n - 1
    BY <1>4, <1>5
  <2>2. DOMAIN c = 1 .. n - 1
    BY <1>4, <2>1
  <2> QED
    BY <1>2, <1>3, <1>4, <1>5, <2>2
<1>7. DOMAIN q = 1 .. n
  BY <1>1
<1> HIDE DEF n
<1>8. c = RemoveAt(q, i)
  BY DEF c, a, b, RemoveAt
<1>9. ASSUME NEW k \in 1 .. n, k # i
      PROVE  \E j \in DOMAIN c : c[j] = q[k]
  <2>1. k \in Int /\ 1 <= k /\ k <= n
    BY <1>5
  <2>2. CASE k < i
    <3>1. k \in 1 .. i - 1 /\ k \in 1 .. n - 1 /\ k <= i - 1
      BY <1>5, <2>1, <2>2, Around
    <3>2. c[k] = q[k] /\ k \in DOMAIN c
      BY <1>6, <3>1
    <3> QED
      BY <3>2
  <2>3. CASE k > i
    <3>1. /\ k - 1 \in 1 .. n - 1 /\ ~(k - 1 <= i - 1) /\ (k - 1) - (i - 1) = k - i
          /\ k - i \in 1 .. n - i /\ i + (k - i) = k
      BY <1>5, <2>1, <2>3, Around
    <3>2. c[k - 1] = q[k] /\ k - 1 \in DOMAIN c
      BY <1>6, <3>1
    <3> QED
      BY <3>2
  <2> QED
    BY <1>5, <1>9, <2>1, <2>2, <2>3, Around
<1> QED
  BY <1>7, <1>8, <1>9

LEMMA HandStands ==
    ASSUME Inv, Standing(line, task), NEW t \in Tasks, task[t].pc # "wait", NEW r, r.pc # "wait",
           NEW l \in Lanes, HandOver(l, [task EXCEPT ![t] = r])
    PROVE  Standing(line', task')
<1> DEFINE f == [task EXCEPT ![t] = r]
<1>1. /\ DOMAIN f = Tasks /\ f[t] = r /\ \A u \in Tasks : u # t => f[u] = task[u]
  BY DEF Inv, TypeOK
<1>2. CASE line[l] = <<>>
  <2>1. task' = f /\ line' = line
    BY <1>2 DEF HandOver
  <2> QED
    BY <1>1, <2>1 DEF Standing
<1>3. CASE line[l] # <<>>
  <2> DEFINE q == line[l]
             h == Head(line[l])
             rest == Tail(line[l])
  <2>1. /\ line[l] \in Seq(Tasks) /\ line \in [Lanes -> Seq(Tasks)]
    BY DEF Inv, TypeOK
  <2>2. /\ 1 \in DOMAIN q /\ h = q[1] /\ h \in Tasks
        /\ \A i \in DOMAIN q : i = 1 \/ (i - 1 \in DOMAIN rest /\ rest[i - 1] = q[i])
    BY <1>3, <2>1
  <2>3. task[h].pc = "wait" /\ task[h] \in Records
    BY <2>2 DEF Inv, TypeOK, Lined
  <2>4. h # t /\ f[h] = task[h]
    BY <1>1, <2>2, <2>3
  <2>5. /\ task' = [f EXCEPT ![h].pc = "granted"] /\ line' = [line EXCEPT ![l] = rest]
    BY <1>3 DEF HandOver
  <2>6. /\ task'[h].pc = "granted"
        /\ \A u \in Tasks : u # h => task'[u] = f[u]
    BY <1>1, <2>2, <2>3, <2>4, <2>5 DEF Records
  <2>7. line'[l] = rest /\ \A m \in Lanes : m # l => line'[m] = line[m]
    BY <2>1, <2>5
  <2> SUFFICES ASSUME NEW u \in Tasks, task'[u].pc = "wait"
               PROVE  StandsIn(line', u, Head(task'[u].todo).lane)
    BY DEF Standing
  <2>8. u # h /\ u # t /\ task'[u] = task[u]
    BY <1>1, <2>4, <2>6
  <2> DEFINE m == Head(task[u].todo).lane
  <2>9. m \in Lanes
    BY <2>8, NextStep DEF Inv, Sound, Queueing, Lane
  <2>10. PICK i \in DOMAIN line[m] : line[m][i] = u
    BY <2>8 DEF Standing, StandsIn
  <2>11. CASE m = l
    <3>1. i # 1
      BY <2>2, <2>8, <2>10, <2>11
    <3>2. i - 1 \in DOMAIN rest /\ rest[i - 1] = u
      BY <2>2, <2>10, <2>11, <3>1
    <3> QED
      BY <2>7, <2>8, <2>11, <3>2 DEF StandsIn
  <2>12. CASE m # l
    BY <2>7, <2>8, <2>9, <2>10, <2>12 DEF StandsIn
  <2> QED
    BY <2>11, <2>12
<1> QED
  BY <1>2, <1>3

\* Only a step of the line puts a request in line, or takes it out.
LEMMA OneStands ==
    ASSUME Inv, Standing(line, task), NEW t \in Tasks, NEW r, r.pc # "wait",
           task' = [task EXCEPT ![t] = r], line' = line
    PROVE  Standing(line', task')
  BY DEF Inv, TypeOK, Standing, StandsIn

LEMMA StandStep ==
    ASSUME Inv, Standing(line, task), Next
    PROVE  Standing(line', task')
<1>1. PICK t \in Tasks : Arrive(t) \/ Progress(t) \/ Dropped(t)
  BY DEF Next
<1>2. /\ task[t] \in Records
      /\ (task[t].pc \in Queueing => task[t].todo # <<>>)
      /\ line \in [Lanes -> Seq(Tasks)] /\ task \in [Tasks -> Records]
  BY DEF Inv, TypeOK, Sound
<1>3. \A todo, held : Ready(todo, held).pc # "wait"
  BY DEF Ready
<1>4. /\ \A held : Advanced(t, held).pc # "wait"
      /\ Failed(t).pc # "wait"
      /\ \A p : p # "wait" => [task[t] EXCEPT !.pc = p].pc # "wait"
      /\ [task[t] EXCEPT !.pc = "leave", !.held = @ \cup {Lane(t)}].pc # "wait"
  BY <1>2, <1>3 DEF Advanced, Failed, Records
<1>5. CASE Arrive(t)
  <2>1. /\ line' = line
        /\ \E todo \in Requests(t) : task' = [task EXCEPT ![t] = Ready(todo, task[t].held)]
    BY <1>5 DEF Arrive
  <2> QED
    BY <1>3, <2>1, OneStands
<1>6. CASE TryAcquire(t) \/ IncrementWaiter(t) \/ LeaveQueue(t) \/ UpstreamEnds(t) \/ DropUpstream(t)
           \/ Wake(t)
  <2>1. /\ line' = line
        /\ \/ \E held : task' = [task EXCEPT ![t] = Advanced(t, held)]
           \/ task' = [task EXCEPT ![t] = Failed(t)]
           \/ \E p : p # "wait" /\ task' = [task EXCEPT ![t] = [task[t] EXCEPT !.pc = p]]
           \/ task' = [task EXCEPT ![t] = [task[t] EXCEPT !.pc = "leave", !.held = @ \cup {Lane(t)}]]
    BY <1>2, <1>6 DEF TryAcquire, IncrementWaiter, LeaveQueue, UpstreamEnds, DropUpstream, Wake
  <2> QED
    BY <1>4, <2>1, OneStands
<1>7. CASE EnterLine(t)
  <2> DEFINE l == Lane(t)
  <2>1. l \in Lanes
    BY <1>2, <1>7, NextStep DEF EnterLine, At, Queueing
  <2>2. CASE free[l] > 0
    <3>1. /\ line' = line
          /\ task' = [task EXCEPT ![t] = [task[t] EXCEPT !.pc = "leave", !.held = @ \cup {Lane(t)}]]
      BY <1>2, <1>7, <2>2 DEF EnterLine
    <3> QED
      BY <1>4, <3>1, OneStands
  <2>3. CASE ~(free[l] > 0)
    <3>1. /\ line' = [line EXCEPT ![l] = Append(line[l], t)]
          /\ task' = [task EXCEPT ![t] = [task[t] EXCEPT !.pc = "wait"]]
      BY <1>2, <1>7, <2>3 DEF EnterLine
    <3>2. /\ task'[t].todo = task[t].todo /\ \A u \in Tasks : u # t => task'[u] = task[u]
      BY <1>2, <3>1 DEF Records
    <3> DEFINE q == line[l]
               more == Append(q, t)
    <3>3. /\ \A i \in DOMAIN q : i \in DOMAIN more /\ more[i] = q[i]
          /\ \E i \in DOMAIN more : more[i] = t
      <4>1. q \in Seq(Tasks) /\ Len(q) \in Nat /\ DOMAIN q = 1 .. Len(q)
        BY <1>2, <2>1
      <4>2. /\ DOMAIN more = 1 .. Len(q) + 1 /\ more[Len(q) + 1] = t
            /\ \A i \in 1 .. Len(q) : more[i] = q[i]
        BY <4>1
      <4> QED
        BY <4>1, <4>2
    <3>4. line'[l] = more /\ \A m \in Lanes : m # l => line'[m] = line[m]
      BY <1>2, <2>1, <3>1
    <3> HIDE DEF more
    <3>5. \A u : \A m \in Lanes : StandsIn(line, u, m) => StandsIn(line', u, m)
      BY <3>3, <3>4 DEF StandsIn
    <3>6. StandsIn(line', t, Head(task'[t].todo).lane)
      BY <3>2, <3>3, <3>4 DEF StandsIn, Lane
    <3>7. ASSUME NEW u \in Tasks, u # t, task'[u].pc = "wait"
          PROVE  StandsIn(line', u, Head(task'[u].todo).lane)
      <4>1. task'[u] = task[u] /\ Head(task[u].todo).lane \in Lanes
        BY <3>2, <3>7, NextStep DEF Inv, Sound, Queueing, Lane
      <4> QED
        BY <3>5, <3>7, <4>1 DEF Standing
    <3> QED
      BY <3>6, <3>7 DEF Standing
  <2> QED
    BY <2>2, <2>3
<1>8. CASE LeaveLine(t)
  <2> DEFINE l == Lane(t)
  <2>1. PICK i \in DOMAIN line[l] : line[l][i] = t /\ line' = [line EXCEPT ![l] = RemoveAt(@, i)]
    BY <1>8 DEF LeaveLine
  <2>2. l \in Lanes
    BY <1>2, <1>8, NextStep DEF LeaveLine, At, Queueing
  <2>3. /\ task'[t].pc = "leave" /\ \A u \in Tasks : u # t => task'[u] = task[u]
    BY <1>2, <1>8 DEF LeaveLine, Records
  <2>4. line'[l] = RemoveAt(line[l], i) /\ \A m \in Lanes : m # l => line'[m] = line[m]
    BY <1>2, <2>1, <2>2
  <2> SUFFICES ASSUME NEW u \in Tasks, task'[u].pc = "wait"
               PROVE  StandsIn(line', u, Head(task'[u].todo).lane)
    BY DEF Standing
  <2>5. u # t /\ task'[u] = task[u]
    BY <2>3
  <2> DEFINE m == Head(task[u].todo).lane
  <2>6. m \in Lanes
    BY <2>5, NextStep DEF Inv, Sound, Queueing, Lane
  <2>7. PICK k \in DOMAIN line[m] : line[m][k] = u
    BY <2>5 DEF Standing, StandsIn
  <2>8. CASE m = l
    <3>1. k # i /\ line[l] \in Seq(Tasks) /\ k \in DOMAIN line[l]
      BY <1>2, <2>1, <2>2, <2>5, <2>7, <2>8
    <3>2. \E j \in DOMAIN RemoveAt(line[l], i) : RemoveAt(line[l], i)[j] = line[l][k]
      BY <3>1, OthersStay
    <3> QED
      BY <2>4, <2>5, <2>7, <2>8, <3>2 DEF StandsIn
  <2>9. CASE m # l
    BY <2>4, <2>5, <2>6, <2>7, <2>9 DEF StandsIn
  <2> QED
    BY <2>8, <2>9
<1>9. CASE ReleasePermit(t)
  <2> DEFINE r == Advanced(t, task[t].held \ {Lane(t)})
  <2>1. /\ task[t].todo # <<>> /\ HandOver(Lane(t), [task EXCEPT ![t] = r])
        /\ task[t].pc # "wait" /\ r.pc # "wait"
    BY <1>4, <1>9 DEF ReleasePermit, Doing, At
  <2>2. Lane(t) \in Lanes
    BY <2>1, NextStep
  <2> HIDE DEF r
  <2> QED
    BY <2>1, <2>2, HandStands
<1>10. CASE DropGranted(t)
  <2> DEFINE r == [task[t] EXCEPT !.pc = "leave"]
  <2>1. /\ task[t].todo # <<>> /\ HandOver(Lane(t), [task EXCEPT ![t] = r])
        /\ task[t].pc # "wait" /\ r.pc # "wait"
    BY <1>2, <1>4, <1>10 DEF DropGranted, At, Queueing
  <2>2. Lane(t) \in Lanes
    BY <2>1, NextStep
  <2> HIDE DEF r
  <2> QED
    BY <2>1, <2>2, HandStands
<1> QED
  BY <1>1, <1>5, <1>6, <1>7, <1>8, <1>9, <1>10 DEF Progress, Dropped

-----------------------------------------------------------------------------
\* Nobody waits in a circle

\* Whoever stands in line finds the permits of its lane handed out: to a
\* request that goes on, or to one that waits further on.
LEMMA SomeoneAhead ==
    ASSUME Inv, Ladder, NEW t \in Tasks, At(t, "wait")
    PROVE  \E u \in Tasks :
              \/ Active(u) /\ HasFrom(u, Depth(Lane(t)))
              \/ At(u, "wait") /\ Depth(Lane(u)) > Depth(Lane(t))
<1> DEFINE l == Lane(t)
<1>1. l \in Lanes
  BY NextStep DEF Inv, Sound, Queueing, At
<1>2. line[l] # <<>>
  BY DEF Ladder, Standing, StandsIn, At, Lane
<1>3. /\ free[l] = 0 /\ Cardinality(Granted(l)) + Cardinality(Holders(l)) = Limit[l]
      /\ Limit[l] \in Nat \ {0}
  <2>1. Cardinality(Granted(l)) \in Nat /\ Cardinality(Holders(l)) \in Nat
    BY TasksAssumption, FS_Subset, FS_CardinalityType DEF Granted, Holders
  <2> QED
    BY <1>1, <1>2, <2>1, LimitAssumption DEF Inv, PermitsConserved
<1>4. Granted(l) # {} \/ Holders(l) # {}
  BY <1>3, FS_EmptySet
<1>5. Depth(l) >= Depth(l)
  BY DEF Depth
<1>6. CASE Granted(l) # {}
  <2>1. PICK u \in Tasks : At(u, "granted") /\ Lane(u) = l
    BY <1>6 DEF Granted
  <2>2. Active(u)
    BY <2>1 DEF Active, At, Inv, Sound, Queueing
  <2> QED
    BY <1>5, <2>1, <2>2 DEF HasFrom
<1>7. CASE Holders(l) # {}
  <2>1. PICK u \in Tasks : l \in task[u].held
    BY <1>7 DEF Holders
  <2>2. HasFrom(u, Depth(l))
    BY <1>5, <2>1 DEF HasFrom
  <2>3. task[u].pc # "idle"
    <3>1. task[u].pc = "idle" => task[u].held = {}
      BY FitsNothing DEF Inv, Sound, Granting
    <3> QED
      BY <2>1, <3>1
  <2>4. CASE task[u].pc # "wait"
    <3>1. task[u].pc \in {"idle", "run"} \cup Queueing
      BY DEF Inv, TypeOK, Records
    <3>2. task[u].todo # <<>>
      BY <2>3, <3>1 DEF Inv, Sound, Ladder, Climbing
    <3> QED
      BY <2>2, <2>3, <2>4, <3>2 DEF Active
  <2>5. CASE task[u].pc = "wait"
    <3>1. /\ ~Granting(task[u]) /\ task[u].todo # <<>> /\ Head(task[u].todo).op = "acquire"
      BY <2>5 DEF Granting, Inv, Sound, Queueing
    <3>2. task[u].todo \in Seq(Steps) /\ Climbs(task[u].todo, task[u].held)
      BY <3>1, NextStep DEF Ladder, Climbing, Rest
    <3>3. 1 \in DOMAIN task[u].todo /\ task[u].todo[1] = Head(task[u].todo)
      BY <3>1, <3>2
    <3>4. Depth(l) < Depth(Lane(u))
      BY <2>1, <3>1, <3>2, <3>3 DEF Climbs, Lane
    <3>5. Depth(Lane(u)) > Depth(l)
      BY <3>4 DEF Depth
    <3> QED
      BY <2>5, <3>5 DEF At
  <2> QED
    BY <2>4, <2>5
<1> QED
  BY <1>4, <1>6, <1>7

LEMMA FreeOfGridlock == Inv /\ Ladder => NoGridlock
<1> SUFFICES ASSUME Inv, Ladder PROVE NoGridlock
  OBVIOUS
<1> DEFINE Served(t) == \E u \in Tasks : Active(u) /\ HasFrom(u, Depth(Lane(t)))
<1>1. \A l : Depth(l) \in {1, 2, 3, 4}
  BY DEF Depth
<1>2. ASSUME NEW t \in Tasks, NEW u \in Tasks, Depth(Lane(u)) > Depth(Lane(t)), Served(u)
      PROVE  Served(t)
  <2>1. PICK w \in Tasks : Active(w) /\ HasFrom(w, Depth(Lane(u)))
    BY <1>2
  <2> DEFINE m == Depth(Lane(u))
             n == Depth(Lane(t))
  <2>2. m \in Int /\ n \in Int /\ m > n /\ \A l : Depth(l) \in Int
    BY <1>1, <1>2
  <2> HIDE DEF m, n
  <2>3. HasFrom(w, n)
    BY <2>1, <2>2 DEF HasFrom, m
  <2> QED
    BY <2>1, <2>3 DEF n
<1>3. ASSUME NEW t \in Tasks, At(t, "wait"),
             \A u \in Tasks : At(u, "wait") /\ Depth(Lane(u)) > Depth(Lane(t)) => Served(u)
      PROVE  Served(t)
  BY <1>2, <1>3, SomeoneAhead
<1> HIDE DEF Served
<1>4. \A t \in Tasks : At(t, "wait") /\ Depth(Lane(t)) = 4 => Served(t)
  <2>1. \A u \in Tasks : ~(Depth(Lane(u)) > 4)
    BY <1>1
  <2> QED
    BY <1>3, <2>1
<1>5. \A t \in Tasks : At(t, "wait") /\ Depth(Lane(t)) = 3 => Served(t)
  <2>1. \A u \in Tasks : Depth(Lane(u)) > 3 => Depth(Lane(u)) = 4
    BY <1>1
  <2> QED
    BY <1>3, <1>4, <2>1
<1>6. \A t \in Tasks : At(t, "wait") /\ Depth(Lane(t)) = 2 => Served(t)
  <2>1. \A u \in Tasks : Depth(Lane(u)) > 2 => Depth(Lane(u)) \in {3, 4}
    BY <1>1
  <2> QED
    BY <1>3, <1>4, <1>5, <2>1
<1>7. \A t \in Tasks : At(t, "wait") /\ Depth(Lane(t)) = 1 => Served(t)
  <2>1. \A u \in Tasks : Depth(Lane(u)) > 1 => Depth(Lane(u)) \in {2, 3, 4}
    BY <1>1
  <2> QED
    BY <1>3, <1>4, <1>5, <1>6, <2>1
<1> QED
  BY <1>1, <1>4, <1>5, <1>6, <1>7 DEF NoGridlock, Served

(* The lanes never deadlock, for any number of requests and any limits: a  *)
(* request takes its permits in the order of the lanes (HTTP, public,      *)
(* shared, contact), so whoever stands in line for one waits, in the end,  *)
(* for a request that has such a permit or a later one, was handed one, or *)
(* is giving one back, and that waits for nobody (http_api.rs,             *)
(* acquire_lookup_permits and the enrichment; upstream_backpressure.rs,    *)
(* acquire).                                                               *)
THEOREM LanesNeverDeadlock == Spec => []NoGridlock
<1>1. Init => Ladder
  BY DEF Init, Idle, Ladder, Climbing, Rest, Granting, Climbs, Standing
<1>2. Inv /\ Ladder /\ [Next]_vars => Ladder'
  <2>1. CASE UNCHANGED vars
    BY <2>1 DEF vars, Ladder, Standing, StandsIn
  <2>2. ASSUME Inv, Ladder, Next PROVE Ladder'
    BY <2>2, ClimbStep, StandStep DEF Ladder
  <2> QED
    BY <2>1, <2>2
<1> QED
  BY <1>1, <1>2, FreeOfGridlock, Invariant, PTL DEF Spec
=============================================================================
