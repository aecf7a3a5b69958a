--------------------------- MODULE HandlersProofs ---------------------------
(***************************************************************************)
(* What the steps of a request do to the handlers, whichever component the *)
(* request is for, and what is true of the sums, numbers and sequences     *)
(* that the components compute with.                                       *)
(***************************************************************************)
EXTENDS Handlers, FiniteSetsExt, FiniteSetTheorems, WellFoundedInduction, TLAPS

PerRequest ==
    /\ DOMAIN pc = Requests /\ DOMAIN mem = Requests
    /\ pc = [q \in Requests |-> pc[q]]

\* Request q is at step afterwards and holds m; the others stay where they are.
Put(q, step, m) ==
    /\ PerRequest'
    /\ pc'[q] = step
    /\ mem'[q] = m
    /\ \A r \in Requests \ {q} : pc'[r] = pc[r] /\ mem'[r] = mem[r]

\* Requests move only among the steps of S.
Within(S) ==
    /\ PerRequest'
    /\ \A q \in Requests :
          \/ pc'[q] = pc[q] /\ mem'[q] = mem[q]
          \/ pc[q] \in S \cup {"idle"} /\ pc'[q] \in S \cup {"idle"}

LEMMA InitPerRequest == HandlersInit => PerRequest /\ \A q \in Requests : pc[q] = "idle"
  BY DEF HandlersInit, PerRequest

LEMMA GotoPuts ==
    ASSUME PerRequest, NEW q \in Requests, NEW step, NEW m, Goto(q, step, m)
    PROVE  Put(q, step, m)
  BY DEF PerRequest, Goto, Put

LEMMA AnswerPuts ==
    ASSUME PerRequest, NEW q \in Requests, Answer(q)
    PROVE  Put(q, "idle", NoMemory)
  BY GotoPuts DEF Answer

LEMMA InterruptedPuts ==
    ASSUME PerRequest, NEW q \in Requests, Interrupted(q)
    PROVE  Put(q, "idle", NoMemory)
  BY AnswerPuts DEF Interrupted

LEMMA ReceivePuts ==
    ASSUME PerRequest, NEW q \in Requests, NEW c, NEW step, NEW m, Receive(q, c, step, m)
    PROVE  pc[q] = "idle" /\ Put(q, step, m)
  BY DEF PerRequest, Receive, At, Put

LEMMA ServePuts ==
    ASSUME PerRequest, NEW q \in Requests, NEW c, Serve(q, c)
    PROVE  pc[q] = "idle" /\ Put(q, pc[q], mem[q]) /\ UNCHANGED <<pc, mem>>
  BY DEF PerRequest, Serve, At, Put

LEMMA PutWithin ==
    ASSUME NEW q \in Requests, NEW step, NEW m, Put(q, step, m),
           NEW S, pc[q] \in S \cup {"idle"}, step \in S \cup {"idle"}
    PROVE  Within(S)
  BY DEF Put, Within

\* The same, from the forms an action is written in.
LEMMA GotoWithin ==
    ASSUME PerRequest, NEW q \in Requests, NEW step, NEW m, Goto(q, step, m),
           NEW S, pc[q] \in S, step \in S
    PROVE  Within(S)
  BY GotoPuts, PutWithin

LEMMA AnswerWithin ==
    ASSUME PerRequest, NEW q \in Requests, Answer(q), NEW S, pc[q] \in S
    PROVE  Within(S)
  BY AnswerPuts, PutWithin

LEMMA ReceiveWithin ==
    ASSUME PerRequest, NEW q \in Requests, NEW c, NEW step, NEW m, Receive(q, c, step, m), NEW S, step \in S
    PROVE  Within(S)
  BY ReceivePuts, PutWithin

LEMMA ServeWithin ==
    ASSUME PerRequest, NEW q \in Requests, NEW c, Serve(q, c), NEW S
    PROVE  Within(S)
  BY ServePuts, PutWithin

LEMMA InterruptedWithin ==
    ASSUME PerRequest, NEW q \in Requests, Interrupted(q), NEW S, pc[q] \in S
    PROVE  Within(S)
  BY InterruptedPuts, PutWithin

LEMMA StayWithin ==
    ASSUME PerRequest, UNCHANGED handlerVars, NEW S
    PROVE  Within(S)
  BY DEF PerRequest, handlerVars, Within

\* The requests at the steps of T are left alone, and no other gets to one.
Apart(T) ==
    \A q \in Requests : pc[q] \in T \/ pc'[q] \in T => pc'[q] = pc[q] /\ mem'[q] = mem[q]

LEMMA WithinPerRequest ==
    ASSUME NEW S, Within(S)
    PROVE  PerRequest'
  BY DEF Within

LEMMA WithinApart ==
    ASSUME NEW S, NEW T, Within(S), S \cap T = {}, "idle" \notin T
    PROVE  PerRequest' /\ Apart(T)
  BY DEF Within, Apart

------------------------------------------------------------------------------
\* A set of finite sets that is not empty has one no other of which is a part of.
LEMMA SmallestSet ==
    ASSUME NEW S, NEW C, C \subseteq FiniteSubsetsOf(S), C # {}
    PROVE  \E m \in C : \A c \in C : c \subseteq m => c = m
  <1>1. PICK m \in C : \A c \in C : ~ (<<c, m>> \in StrictSubsetOrdering(S))
    BY FS_StrictSubsetOrderingWellFounded, WFMin
  <1> QED
    BY <1>1 DEF StrictSubsetOrdering, FiniteSubsetsOf

Sum(w, S) == MapThenSumSet(LAMBDA x : w[x], S)

Chosen(s) == CHOOSE x \in s : TRUE

\* What the function of a sum, which is recursive, stands for.
Recursion(g, w, S) == g = [s \in SUBSET S |-> IF s = {} THEN 0 ELSE w[Chosen(s)] + g[s \ {Chosen(s)}]]

LEMMA SumIs ==
    ASSUME NEW w, NEW S
    PROVE  Sum(w, S) = (CHOOSE g : Recursion(g, w, S))[S]
  BY DEF Sum, MapThenSumSet, MapThenFoldSet, Chosen, Recursion

LEMMA SmallestNumber ==
    ASSUME NEW N \in SUBSET Nat, N # {}
    PROVE  \E m \in N : \A n \in N : m <= n
  <1> DEFINE C == {1..n : n \in N}
  <1>1. \A n \in Nat : IsFiniteSet(1..n) /\ Cardinality(1..n) = n
    BY FS_Interval
  <1>2. PICK c \in C : \A d \in C : d \subseteq c => d = c
    <2>1. \A n \in N : 1..n \in FiniteSubsetsOf(Nat)
      BY <1>1 DEF FiniteSubsetsOf
    <2>2. C \subseteq FiniteSubsetsOf(Nat) /\ C # {}
      BY <2>1
    <2> HIDE DEF C
    <2> QED
      BY <2>2, SmallestSet
  <1>3. PICK m \in N : c = 1..m
    BY <1>2
  <1>4. ASSUME NEW n \in N, n < m PROVE FALSE
    <2>1. 1..n \in C /\ 1..n \subseteq 1..m
      BY <1>4
    <2>2. 1..n = 1..m
      BY <1>2, <1>3, <2>1
    <2> QED
      BY <1>1, <1>4, <2>2
  <1> QED
    BY <1>4

Part(g, w, s) == IF s = {} THEN 0 ELSE w[Chosen(s)] + g[s \ {Chosen(s)}]

\* Sums of the parts of S that have n elements at most.
Upto(n, w, S) == \E g : \A s \in SUBSET S : Cardinality(s) <= n => g[s] = Part(g, w, s)

LEMMA SumExists ==
    ASSUME NEW w, NEW S, IsFiniteSet(S)
    PROVE  \E g : Recursion(g, w, S)
  <1>0. \A s \in SUBSET S : /\ IsFiniteSet(s) /\ Cardinality(s) \in Nat /\ Cardinality(s) <= Cardinality(S)
                            /\ Cardinality(s) = 0 => s = {}
                            /\ s # {} => Chosen(s) \in s /\ Cardinality(s \ {Chosen(s)}) = Cardinality(s) - 1
    BY FS_Subset, FS_CardinalityType, FS_EmptySet, FS_RemoveElement DEF Chosen
  <1>1. Upto(0, w, S)
    <2> DEFINE g == [s \in SUBSET S |-> 0]
    <2>1. ASSUME NEW s \in SUBSET S, Cardinality(s) <= 0 PROVE g[s] = Part(g, w, s)
      <3>1. s = {}
        <4>1. IsFiniteSet(s) /\ Cardinality(s) \in Nat
          BY <1>0
        <4>2. Cardinality(s) = 0
          BY <2>1, <4>1
        <4> QED
          BY <4>1, <4>2, FS_EmptySet
      <3> QED
        BY <3>1 DEF Part
    <2> HIDE DEF g
    <2> QED
      BY <2>1 DEF Upto
  <1>2. ASSUME NEW n \in Nat, Upto(n, w, S) PROVE Upto(n + 1, w, S)
    <2>1. PICK g : \A s \in SUBSET S : Cardinality(s) <= n => g[s] = Part(g, w, s)
      BY <1>2 DEF Upto
    <2> DEFINE h == [s \in SUBSET S |-> IF Cardinality(s) <= n THEN g[s] ELSE Part(g, w, s)]
    <2>2. ASSUME NEW s \in SUBSET S, Cardinality(s) <= n + 1 PROVE h[s] = Part(h, w, s)
      <3>1. CASE s = {}
        BY <1>0, <2>1, <3>1, FS_EmptySet DEF Part
      <3>2. CASE s # {}
        <4>1. Cardinality(s \ {Chosen(s)}) <= n /\ s \ {Chosen(s)} \in SUBSET S
          BY <1>0, <2>2, <3>2
        <4>2. h[s \ {Chosen(s)}] = g[s \ {Chosen(s)}]
          BY <4>1
        <4>3. h[s] = Part(g, w, s)
          BY <2>1
        <4> QED
          BY <3>2, <4>2, <4>3 DEF Part
      <3> QED
        BY <3>1, <3>2
    <2> HIDE DEF h
    <2> QED
      BY <2>2 DEF Upto
  <1>3. Upto(Cardinality(S), w, S)
    <2> SUFFICES ASSUME ~Upto(Cardinality(S), w, S) PROVE FALSE
      OBVIOUS
    <2> DEFINE N == {n \in Nat : ~Upto(n, w, S)}
    <2>1. Cardinality(S) \in N
      BY <1>0
    <2>2. PICK m \in N : \A n \in N : m <= n
      <3> HIDE DEF N
      <3>1. N \in SUBSET Nat
        BY DEF N
      <3> QED
        BY <2>1, <3>1, SmallestNumber
    <2>3. m # 0 /\ m - 1 \in Nat /\ m - 1 \notin N
      BY <1>1, <2>2
    <2>4. Upto(m - 1 + 1, w, S)
      BY <1>2, <2>3
    <2> QED
      BY <2>2, <2>4
  <1>4. PICK g : \A s \in SUBSET S : g[s] = Part(g, w, s)
    BY <1>0, <1>3 DEF Upto
  <1> DEFINE h == [s \in SUBSET S |-> g[s]]
  <1>5. \A s \in SUBSET S : h[s] = Part(h, w, s)
    <2> SUFFICES ASSUME NEW s \in SUBSET S PROVE h[s] = Part(h, w, s)
      OBVIOUS
    <2>1. s \ {Chosen(s)} \in SUBSET S
      OBVIOUS
    <2>2. h[s \ {Chosen(s)}] = g[s \ {Chosen(s)}]
      BY <2>1
    <2> QED
      BY <1>4, <2>2 DEF Part
  <1>6. h = [s \in SUBSET S |-> Part(h, w, s)]
    BY <1>5
  <1>7. Recursion(h, w, S)
    <2> HIDE DEF h
    <2> QED
      BY <1>6 DEF Part, Recursion
  <1> HIDE DEF h
  <1> QED
    BY <1>7

\* g holds the sums of all parts of S.
Sums(g, w, S) == \A s \in SUBSET S : g[s] = Part(g, w, s)

LEMMA SumByParts ==
    ASSUME NEW w, NEW S, IsFiniteSet(S)
    PROVE  \E g : Sums(g, w, S) /\ Sum(w, S) = g[S]
  <1> DEFINE h == CHOOSE g : Recursion(g, w, S)
  <1>1. Recursion(h, w, S)
    BY SumExists
  <1>2. Sum(w, S) = h[S]
    BY SumIs
  <1> HIDE DEF h
  <1> QED
    BY <1>1, <1>2 DEF Sums, Part, Recursion

LEMMA PartSmaller ==
    ASSUME NEW s, s # {}
    PROVE  Chosen(s) \in s /\ s \ {Chosen(s)} \subseteq s /\ s \ {Chosen(s)} # s
  BY DEF Chosen

\* Two ways of adding up agree if they add up the same numbers.
LEMMA SumsAgree ==
    ASSUME NEW S, IsFiniteSet(S), NEW g, NEW h, NEW v, NEW w,
           Sums(g, v, S), Sums(h, w, S), \A x \in S : v[x] = w[x]
    PROVE  g[S] = h[S]
  <1> DEFINE C == {s \in SUBSET S : g[s] # h[s]}
  <1> SUFFICES ASSUME C # {} PROVE FALSE
    OBVIOUS
  <1>1. C \subseteq FiniteSubsetsOf(S)
    BY FS_Subset DEF FiniteSubsetsOf
  <1>2. PICK m \in C : \A c \in C : c \subseteq m => c = m
    <2> HIDE DEF C
    <2> QED
      BY <1>1, SmallestSet
  <1>3. m \in SUBSET S /\ g[m] = Part(g, v, m) /\ h[m] = Part(h, w, m) /\ g[m] # h[m]
    BY DEF Sums
  <1>4. m # {}
    BY <1>3 DEF Part
  <1>5. Chosen(m) \in m /\ m \ {Chosen(m)} \subseteq m /\ m \ {Chosen(m)} # m
    BY <1>4, PartSmaller
  <1>6. g[m \ {Chosen(m)}] = h[m \ {Chosen(m)}]
    BY <1>2, <1>3, <1>5
  <1>7. v[Chosen(m)] = w[Chosen(m)]
    BY <1>3, <1>5
  <1> QED
    BY <1>3, <1>4, <1>6, <1>7 DEF Part

LEMMA SumSame ==
    ASSUME NEW S, IsFiniteSet(S), NEW v, NEW w, \A x \in S : v[x] = w[x]
    PROVE  Sum(v, S) = Sum(w, S)
  BY SumByParts, SumsAgree

LEMMA SumEmpty ==
    ASSUME NEW w
    PROVE  Sum(w, {}) = 0
  BY SumByParts, FS_EmptySet DEF Sums, Part

LEMMA SumChosen ==
    ASSUME NEW S, IsFiniteSet(S), S # {}, NEW w
    PROVE  Sum(w, S) = w[Chosen(S)] + Sum(w, S \ {Chosen(S)})
  <1> DEFINE T == S \ {Chosen(S)}
  <1>1. IsFiniteSet(T)
    BY FS_RemoveElement
  <1>2. PICK g : Sums(g, w, S) /\ Sum(w, S) = g[S]
    BY SumByParts
  <1>3. PICK h : Sums(h, w, T) /\ Sum(w, T) = h[T]
    BY <1>1, SumByParts
  <1>4. Sums(g, w, T)
    BY <1>2 DEF Sums
  <1>5. g[T] = h[T]
    BY <1>1, <1>3, <1>4, SumsAgree
  <1> QED
    BY <1>2, <1>3, <1>5 DEF Sums, Part

\* Induction over the parts of a finite set, and over the numbers.
LEMMA FiniteInduction ==
    ASSUME NEW S, IsFiniteSet(S), NEW C, {} \in C,
           \A T \in SUBSET S : \A x \in T : T \ {x} \in C => T \in C
    PROVE  S \in C
  <1> DEFINE Outside == {T \in SUBSET S : T \notin C}
  <1> SUFFICES ASSUME Outside # {} PROVE FALSE
    OBVIOUS
  <1>1. Outside \subseteq FiniteSubsetsOf(S)
    BY FS_Subset DEF FiniteSubsetsOf
  <1>2. PICK m \in Outside : \A c \in Outside : c \subseteq m => c = m
    <2> HIDE DEF Outside
    <2> QED
      BY <1>1, SmallestSet
  <1>3. PICK x \in m : TRUE
    BY <1>2
  <1>4. m \ {x} \in C
    BY <1>2, <1>3
  <1> QED
    BY <1>2, <1>3, <1>4

LEMMA SumType ==
    ASSUME NEW S, IsFiniteSet(S), NEW w, \A x \in S : w[x] \in Nat
    PROVE  Sum(w, S) \in Nat
  <1> DEFINE C == {T \in SUBSET S : Sum(w, T) \notin Nat}
  <1> SUFFICES ASSUME C # {} PROVE FALSE
    OBVIOUS
  <1>1. C \subseteq FiniteSubsetsOf(S)
    BY FS_Subset DEF FiniteSubsetsOf
  <1>2. PICK m \in C : \A c \in C : c \subseteq m => c = m
    <2> HIDE DEF C
    <2> QED
      BY <1>1, SmallestSet
  <1>3. m \in SUBSET S /\ Sum(w, m) \notin Nat
    OBVIOUS
  <1>4. m # {}
    <2> SUFFICES ASSUME m = {} PROVE FALSE
      OBVIOUS
    <2>1. Sum(w, m) = 0
      BY SumEmpty
    <2> QED
      BY <1>3, <2>1
  <1>5. Chosen(m) \in m /\ m \ {Chosen(m)} \subseteq m /\ m \ {Chosen(m)} # m
    BY <1>4, PartSmaller
  <1>6. Sum(w, m \ {Chosen(m)}) \in Nat /\ w[Chosen(m)] \in Nat
    BY <1>2, <1>3, <1>5
  <1>7. Sum(w, m) = w[Chosen(m)] + Sum(w, m \ {Chosen(m)})
    BY <1>3, <1>4, FS_Subset, SumChosen
  <1> QED
    BY <1>3, <1>6, <1>7

\* Any element may be taken out of a sum.
LEMMA SumWithout ==
    ASSUME NEW S, IsFiniteSet(S), NEW w, \A y \in S : w[y] \in Nat, NEW x \in S
    PROVE  Sum(w, S) = w[x] + Sum(w, S \ {x})
  <1> DEFINE Out(T, y) == Sum(w, T) = w[y] + Sum(w, T \ {y})
             C == {T \in SUBSET S : \E y \in T : ~Out(T, y)}
  <1> SUFFICES ASSUME C # {} PROVE FALSE
    OBVIOUS
  <1>1. C \subseteq FiniteSubsetsOf(S)
    BY FS_Subset DEF FiniteSubsetsOf
  <1>2. PICK m \in C : \A c \in C : c \subseteq m => c = m
    <2> HIDE DEF C
    <2> QED
      BY <1>1, SmallestSet
  <1>3. m \in SUBSET S /\ IsFiniteSet(m)
    BY <1>2, FS_Subset
  <1>4. PICK y \in m : ~Out(m, y)
    BY <1>2
  <1>5. PICK z : z = Chosen(m)
    OBVIOUS
  <1>6. z \in m /\ Out(m, z)
    BY <1>3, <1>4, <1>5, PartSmaller, SumChosen
  <1>7. y # z
    BY <1>4, <1>6
  <1>8. Out(m \ {z}, y) /\ Out(m \ {y}, z)
    <2>1. m \ {z} \notin C /\ m \ {y} \notin C
      BY <1>2, <1>4, <1>6
    <2> QED
      BY <1>3, <1>4, <1>6, <1>7, <2>1
  <1>9. (m \ {z}) \ {y} = (m \ {y}) \ {z}
    OBVIOUS
  <1>10. /\ Sum(w, (m \ {z}) \ {y}) \in Nat
         /\ w[y] \in Nat /\ w[z] \in Nat
    <2>1. IsFiniteSet((m \ {z}) \ {y}) /\ \A a \in (m \ {z}) \ {y} : w[a] \in Nat
      BY <1>3, FS_RemoveElement
    <2> QED
      BY <1>3, <1>4, <1>6, <2>1, SumType
  <1>11. /\ Sum(w, m) = w[z] + Sum(w, m \ {z})
         /\ Sum(w, m \ {z}) = w[y] + Sum(w, (m \ {z}) \ {y})
         /\ Sum(w, m \ {y}) = w[z] + Sum(w, (m \ {z}) \ {y})
    BY <1>6, <1>8, <1>9
  <1> QED
    BY <1>4, <1>10, <1>11

LEMMA SumAtMost ==
    ASSUME NEW S, IsFiniteSet(S), NEW v, NEW w,
           \A x \in S : v[x] \in Nat /\ w[x] \in Nat /\ v[x] <= w[x]
    PROVE  Sum(v, S) <= Sum(w, S)
  <1> DEFINE C == {T \in SUBSET S : Sum(v, T) <= Sum(w, T)}
  <1>1. {} \in C
    BY SumEmpty
  <1>2. ASSUME NEW T \in SUBSET S, NEW x \in T, T \ {x} \in C PROVE T \in C
    <2>1. IsFiniteSet(T) /\ IsFiniteSet(T \ {x})
      BY FS_Subset, FS_RemoveElement
    <2>2. /\ Sum(v, T) = v[x] + Sum(v, T \ {x})
          /\ Sum(w, T) = w[x] + Sum(w, T \ {x})
      BY <2>1, SumWithout
    <2>3. Sum(v, T \ {x}) \in Nat /\ Sum(w, T \ {x}) \in Nat
      BY <2>1, SumType
    <2>4. v[x] \in Nat /\ w[x] \in Nat /\ v[x] <= w[x] /\ Sum(v, T \ {x}) <= Sum(w, T \ {x})
      BY <1>2
    <2> QED
      BY <2>2, <2>3, <2>4
  <1> HIDE DEF C
  <1>3. S \in C
    BY <1>1, <1>2, FiniteInduction
  <1> QED
    BY <1>3 DEF C

LEMMA SumUnion ==
    ASSUME NEW S, IsFiniteSet(S), NEW R, IsFiniteSet(R), S \cap R = {}, NEW w,
           \A x \in S \cup R : w[x] \in Nat
    PROVE  Sum(w, S \cup R) = Sum(w, S) + Sum(w, R)
  <1> DEFINE C == {T \in SUBSET S : Sum(w, T \cup R) = Sum(w, T) + Sum(w, R)}
  <1>0. Sum(w, R) \in Nat
    BY SumType
  <1>1. {} \in C
    BY <1>0, SumEmpty
  <1>2. ASSUME NEW T \in SUBSET S, NEW x \in T, T \ {x} \in C PROVE T \in C
    <2>1. IsFiniteSet(T) /\ IsFiniteSet(T \ {x}) /\ IsFiniteSet(T \cup R)
      BY FS_Subset, FS_RemoveElement, FS_Union
    <2>2. (T \cup R) \ {x} = (T \ {x}) \cup R
      OBVIOUS
    <2>3. /\ Sum(w, T \cup R) = w[x] + Sum(w, (T \ {x}) \cup R)
          /\ Sum(w, T) = w[x] + Sum(w, T \ {x})
      BY <2>1, <2>2, SumWithout
    <2>4. Sum(w, T \ {x}) \in Nat /\ w[x] \in Nat
      BY <2>1, SumType
    <2>5. Sum(w, (T \ {x}) \cup R) = Sum(w, T \ {x}) + Sum(w, R)
      BY <1>2
    <2> QED
      BY <1>0, <2>3, <2>4, <2>5
  <1> HIDE DEF C
  <1>3. S \in C
    BY <1>1, <1>2, FiniteInduction
  <1> QED
    BY <1>3 DEF C

\* A part adds up to no more than the whole, and to as much if there is nothing beside it.
LEMMA SumOfPart ==
    ASSUME NEW S, IsFiniteSet(S), NEW w, \A x \in S : w[x] \in Nat, NEW T \in SUBSET S
    PROVE  /\ Sum(w, T) <= Sum(w, S)
           /\ (\A x \in S \ T : w[x] = 0) => Sum(w, T) = Sum(w, S)
  <1> DEFINE Rest == S \ T
  <1>1. IsFiniteSet(T) /\ IsFiniteSet(Rest)
    BY FS_Subset
  <1>2. Sum(w, S) = Sum(w, T) + Sum(w, Rest)
    <2>1. T \cup Rest = S
      OBVIOUS
    <2>2. Sum(w, T \cup Rest) = Sum(w, T) + Sum(w, Rest)
      BY <1>1, SumUnion
    <2> QED
      BY <2>1, <2>2
  <1>3. Sum(w, T) \in Nat /\ Sum(w, Rest) \in Nat
    BY <1>1, SumType
  <1>4. ASSUME \A x \in Rest : w[x] = 0 PROVE Sum(w, Rest) = 0
    <2> DEFINE C == {R \in SUBSET Rest : Sum(w, R) = 0}
    <2>1. {} \in C
      BY SumEmpty
    <2>2. ASSUME NEW R \in SUBSET Rest, NEW x \in R, R \ {x} \in C PROVE R \in C
      <3>1. IsFiniteSet(R)
        BY <1>1, FS_Subset
      <3>2. Sum(w, R) = w[x] + Sum(w, R \ {x})
        BY <3>1, SumWithout
      <3>3. w[x] = 0 /\ Sum(w, R \ {x}) = 0
        BY <1>4, <2>2
      <3> QED
        BY <3>2, <3>3
    <2> HIDE DEF C
    <2>3. Rest \in C
      BY <1>1, <2>1, <2>2, FiniteInduction
    <2> QED
      BY <2>3 DEF C
  <1>5. (\A x \in S \ T : w[x] = 0) => Sum(w, Rest) = 0
    BY <1>4
  <1> HIDE DEF Rest
  <1> QED
    BY <1>2, <1>3, <1>5

LEMMA SumOfOne ==
    ASSUME NEW S, IsFiniteSet(S), NEW w, \A y \in S : w[y] \in Nat, NEW x \in S
    PROVE  w[x] <= Sum(w, S)
  <1>1. Sum(w, S) = w[x] + Sum(w, S \ {x})
    BY SumWithout
  <1>2. Sum(w, S \ {x}) \in Nat
    BY FS_RemoveElement, SumType
  <1> QED
    BY <1>1, <1>2

\* The values of k on S, and that f is the sum of w on the part of each.
ValuesOn(k, S) == {k[x] : x \in S}
SumsOn(f, w, k, S) == \A a \in ValuesOn(k, S) : f[a] = Sum(w, {x \in S : k[x] = a})

\* What is added up by groups adds up to the same.
LEMMA SumGrouped ==
    ASSUME NEW S, IsFiniteSet(S), NEW w, \A x \in S : w[x] \in Nat, NEW k, NEW f,
           SumsOn(f, w, k, S)
    PROVE  Sum(f, ValuesOn(k, S)) = Sum(w, S)
  <1> DEFINE Groups == {k[x] : x \in S}
             Of(T, a) == {x \in T : k[x] = a}
             g(T) == [a \in Groups |-> Sum(w, Of(T, a))]
             C == {T \in SUBSET S : Sum(g(T), Groups) = Sum(w, T)}
  <1>1. IsFiniteSet(Groups)
    <2>1. [x \in S |-> k[x]] \in Surjection(S, Groups)
      BY DEF Surjection
    <2> HIDE DEF Groups
    <2> QED
      BY <2>1, FS_Surjection
  <1>2. ASSUME NEW T \in SUBSET S, NEW a PROVE IsFiniteSet(T) /\ IsFiniteSet(Of(T, a)) /\ Sum(w, Of(T, a)) \in Nat
    <2>1. IsFiniteSet(T) /\ IsFiniteSet(Of(T, a))
      BY FS_Subset
    <2> QED
      BY <2>1, SumType
  <1>3. {} \in C
    <2>1. \A a \in Groups : g({})[a] = 0
      BY SumEmpty
    <2>2. Sum(g({}), {}) = 0 /\ Sum(w, {}) = 0
      BY SumEmpty
    <2>3. Sum(g({}), Groups) = 0
      <3> HIDE DEF Groups, g
      <3> QED
        BY <1>1, <2>1, <2>2, SumOfPart
    <2> QED
      BY <2>2, <2>3
  <1>4. ASSUME NEW T \in SUBSET S, NEW x \in T, T \ {x} \in C PROVE T \in C
    <2> DEFINE R == T \ {x}
               b == k[x]
    <2>1. b \in Groups /\ R \in SUBSET S
      OBVIOUS
    <2>2. ASSUME NEW a \in Groups \ {b} PROVE g(T)[a] = g(R)[a]
      <3>1. Of(T, a) = Of(R, a)
        OBVIOUS
      <3> QED
        BY <3>1
    <2>3. g(T)[b] = w[x] + g(R)[b]
      <3>1. Of(T, b) \ {x} = Of(R, b) /\ x \in Of(T, b)
        OBVIOUS
      <3>2. Sum(w, Of(T, b)) = w[x] + Sum(w, Of(T, b) \ {x})
        <4>1. IsFiniteSet(Of(T, b)) /\ \A y \in Of(T, b) : w[y] \in Nat
          BY <1>2
        <4> HIDE DEF Of, Groups
        <4> QED
          BY <3>1, <4>1, SumWithout
      <3> QED
        BY <2>1, <3>1, <3>2
    <2>4. /\ \A a \in Groups : g(T)[a] \in Nat /\ g(R)[a] \in Nat
          /\ w[x] \in Nat
      BY <1>2, <2>1
    <2>5. Sum(w, T) = w[x] + Sum(w, R) /\ Sum(w, R) \in Nat
      <3>1. \A y \in T : w[y] \in Nat
        OBVIOUS
      <3>2. IsFiniteSet(T) /\ IsFiniteSet(R)
        BY <1>2, <2>1
      <3> QED
        BY <3>1, <3>2, SumWithout, SumType
    <2>6. Sum(g(R), Groups) = Sum(w, R)
      BY <1>4
    <2> HIDE DEF g, Groups, R, b
    <2>7. /\ Sum(g(T), Groups) = g(T)[b] + Sum(g(T), Groups \ {b})
          /\ Sum(g(R), Groups) = g(R)[b] + Sum(g(R), Groups \ {b})
      BY <1>1, <2>1, <2>4, SumWithout
    <2>8. Sum(g(T), Groups \ {b}) = Sum(g(R), Groups \ {b}) /\ Sum(g(R), Groups \ {b}) \in Nat
      BY <1>1, <2>2, <2>4, FS_RemoveElement, SumSame, SumType
    <2>9. Sum(g(T), Groups) = Sum(w, T)
      BY <2>1, <2>3, <2>4, <2>5, <2>6, <2>7, <2>8
    <2> QED
      BY <2>9
  <1>5. S \in C
    <2> HIDE DEF C
    <2> QED
      BY <1>3, <1>4, FiniteInduction
  <1>6. \A a \in Groups : f[a] = g(S)[a]
    BY DEF SumsOn, ValuesOn
  <1>7. Sum(f, Groups) = Sum(g(S), Groups)
    <2> HIDE DEF g, Groups
    <2> QED
      BY <1>1, <1>6, SumSame
  <1> QED
    BY <1>5, <1>7 DEF ValuesOn

------------------------------------------------------------------------------
\* A function that is defined step by step exists.
Steps(f, n, U, start, next) ==
    /\ f \in [0 .. n -> U]
    /\ f[0] = start
    /\ \A i \in 1 .. n : f[i] = next[<<i, f[i - 1]>>]

LEMMA StepsExist ==
    ASSUME NEW n \in Nat, NEW U, NEW start \in U, NEW next \in [Nat \X U -> U]
    PROVE  \E f : Steps(f, n, U, start, next)
  <1> DEFINE N == {j \in Nat : ~\E f : Steps(f, j, U, start, next)}
  <1> SUFFICES ASSUME N # {} PROVE FALSE
    OBVIOUS
  <1>1. PICK m \in N : \A j \in N : m <= j
    <2>1. N \in SUBSET Nat
      OBVIOUS
    <2> HIDE DEF N
    <2> QED
      BY <2>1, SmallestNumber
  <1>2. CASE m = 0
    <2>1. Steps([i \in 0 .. 0 |-> start], 0, U, start, next)
      BY DEF Steps
    <2> QED
      BY <1>1, <1>2, <2>1
  <1>3. CASE m # 0
    <2> PICK k : k = m - 1
      OBVIOUS
    <2>1. k \in Nat /\ k \notin N /\ m = k + 1 /\ m \in Nat
      BY <1>1, <1>3
    <2>2. PICK f : Steps(f, k, U, start, next)
      BY <2>1
    <2> PICK g : g = [i \in 0 .. m |-> IF i = m THEN next[<<m, f[k]>>] ELSE f[i]]
      OBVIOUS
    <2>3. f[k] \in U /\ <<m, f[k]>> \in Nat \X U
      BY <2>1, <2>2 DEF Steps
    <2>4. g \in [0 .. m -> U]
      BY <2>1, <2>2, <2>3 DEF Steps
    <2>5. g[0] = start
      BY <2>1, <2>2 DEF Steps
    <2>6. ASSUME NEW i \in 1 .. m PROVE g[i] = next[<<i, g[i - 1]>>]
      <3>1. CASE i = m
        <4>1. i \in 0 .. m /\ k \in 0 .. m /\ k # m /\ i - 1 = k
          BY <2>1, <3>1
        <4>2. g[k] = f[k] /\ g[m] = next[<<m, f[k]>>]
          BY <3>1, <4>1
        <4> QED
          BY <3>1, <4>1, <4>2
      <3>2. CASE i # m
        <4>1. i \in 1 .. k /\ i - 1 \in 0 .. k /\ i \in 0 .. m /\ i - 1 \in 0 .. m /\ i - 1 # m
          BY <2>1, <3>2
        <4>2. f[i] = next[<<i, f[i - 1]>>]
          BY <2>2, <4>1 DEF Steps
        <4> QED
          BY <3>2, <4>1, <4>2
      <3> QED
        BY <3>1, <3>2
    <2>7. Steps(g, m, U, start, next)
      BY <2>4, <2>5, <2>6 DEF Steps
    <2> QED
      BY <1>1, <2>7
  <1> QED
    BY <1>2, <1>3

\* What holds at the start and goes on from each number to the next holds up to n.
LEMMA NumberInduction ==
    ASSUME NEW n \in Nat, NEW C, 0 \in C, \A i \in 1 .. n : i - 1 \in C => i \in C
    PROVE  n \in C
  <1> DEFINE N == {i \in 0 .. n : i \notin C}
  <1> SUFFICES ASSUME N # {} PROVE FALSE
    OBVIOUS
  <1>1. PICK m \in N : \A j \in N : m <= j
    <2>1. N \in SUBSET Nat
      OBVIOUS
    <2> HIDE DEF N
    <2> QED
      BY <2>1, SmallestNumber
  <1>2. m \in 1 .. n /\ m - 1 \in 0 .. n
    BY <1>1
  <1>3. m - 1 \in C
    BY <1>1, <1>2
  <1> QED
    BY <1>1, <1>2, <1>3

------------------------------------------------------------------------------

\* What the function that puts sequences after each other stands for.
Flattens(g, s) == g = [i \in 1 .. Len(s) |-> IF i = 1 THEN s[i] ELSE g[i - 1] \o s[i]]

LEMMA FlattensExist ==
    ASSUME NEW n \in Nat \ {0}, NEW T, NEW s \in [1 .. n -> Seq(T)], Len(s) = n
    PROVE  \E g : Flattens(g, s)
  <1> PICK next : next = [x \in Nat \X Seq(T) |-> IF x[1] + 1 \in 1 .. n THEN x[2] \o s[x[1] + 1] ELSE x[2]]
    OBVIOUS
  <1>1. next \in [Nat \X Seq(T) -> Seq(T)]
    <2>1. ASSUME NEW x \in Nat \X Seq(T) PROVE next[x] \in Seq(T)
      <3>1. x[2] \in Seq(T) /\ (x[1] + 1 \in 1 .. n => s[x[1] + 1] \in Seq(T))
        OBVIOUS
      <3> QED
        BY <3>1
    <2> QED
      BY <2>1
  <1>2. 1 \in 1 .. n /\ s[1] \in Seq(T) /\ n - 1 \in Nat
    OBVIOUS
  <1>3. PICK f : Steps(f, n - 1, Seq(T), s[1], next)
    BY <1>1, <1>2, StepsExist
  <1> PICK g : g = [i \in 1 .. n |-> f[i - 1]]
    OBVIOUS
  <1>4. ASSUME NEW i \in 1 .. n PROVE g[i] = IF i = 1 THEN s[i] ELSE g[i - 1] \o s[i]
    <2>1. CASE i = 1
      BY <1>3, <2>1 DEF Steps
    <2>2. CASE i # 1
      <3> PICK k, j : k = i - 1 /\ j = i - 2
        OBVIOUS
      <3>1. k \in 1 .. n - 1 /\ k \in 1 .. n /\ j \in 0 .. n - 1 /\ j = k - 1 /\ k + 1 = i /\ k \in Nat
        BY <2>2
      <3>2. g[i] = f[k] /\ g[k] = f[j]
        BY <3>1
      <3>3. f[k] = next[<<k, f[j]>>] /\ f[j] \in Seq(T)
        <4>1. f[k] = next[<<k, f[k - 1]>>] /\ f[j] \in Seq(T)
          <5>1. f \in [0 .. n - 1 -> Seq(T)] /\ \A a \in 1 .. n - 1 : f[a] = next[<<a, f[a - 1]>>]
            BY <1>3, Zenon DEF Steps
          <5> QED
            BY <3>1, <5>1
        <4> QED
          BY <3>1, <4>1
      <3>4. <<k, f[j]>> \in Nat \X Seq(T)
        BY <3>1, <3>3
      <3>5. next[<<k, f[j]>>] = f[j] \o s[i]
        BY <3>1, <3>4
      <3> QED
        BY <2>2, <3>1, <3>2, <3>3, <3>5
    <2> QED
      BY <2>1, <2>2
  <1>5. Flattens(g, s)
    BY <1>4 DEF Flattens
  <1> QED
    BY <1>5

LEMMA WholeByCount ==
    ASSUME NEW S, IsFiniteSet(S), NEW L \in SUBSET S, Cardinality(L) = Cardinality(S)
    PROVE  L = S
  BY FS_Subset

\* The fold of a function is the sum of its values.
LEMMA FoldIsSum ==
    ASSUME NEW f
    PROVE  FoldFunction(+, 0, f) = Sum(f, DOMAIN f)
  BY DEF FoldFunction, FoldFunctionOnSet, Sum, MapThenSumSet, MapThenFoldSet

LEMMA QuotientWithin ==
    ASSUME NEW s \in Nat, NEW n \in Nat \ {0}, NEW lo \in Nat, NEW hi \in Nat, lo * n <= s, s <= hi * n
    PROVE  s \div n \in Nat /\ lo <= s \div n /\ s \div n <= hi
  <1> DEFINE q == s \div n
  <1>1. q \in Nat /\ n * q <= s /\ s < n * q + n
    OBVIOUS
  <1> HIDE DEF q
  <1>2. ASSUME q < lo PROVE FALSE
    <2>1. n * (q + 1) <= n * lo
      BY <1>1, <1>2
    <2>2. n * (q + 1) = n * q + n
      BY <1>1
    <2> QED
      BY <1>1, <2>1, <2>2
  <1>3. ASSUME hi < q PROVE FALSE
    <2>1. n * (hi + 1) <= n * q
      BY <1>1, <1>3
    <2>2. n * (hi + 1) = hi * n + n
      OBVIOUS
    <2> QED
      BY <1>1, <2>1, <2>2
  <1>4. lo <= q /\ q <= hi
    BY <1>1, <1>2, <1>3
  <1> QED
    BY <1>1, <1>4 DEF q

\* A sum is between as many times the least and as many times the greatest that is added.
LEMMA SumWithin ==
    ASSUME NEW S, IsFiniteSet(S), NEW w, \A x \in S : w[x] \in Nat, NEW lo \in Nat, NEW hi \in Nat,
           \A x \in S : lo <= w[x] /\ w[x] <= hi
    PROVE  lo * Cardinality(S) <= Sum(w, S) /\ Sum(w, S) <= hi * Cardinality(S)
  <1> DEFINE C == {T \in SUBSET S : lo * Cardinality(T) <= Sum(w, T) /\ Sum(w, T) <= hi * Cardinality(T)}
  <1>1. {} \in C
    <2>1. Cardinality({}) = 0 /\ Sum(w, {}) = 0
      BY FS_EmptySet, SumEmpty
    <2> QED
      BY <2>1
  <1>2. ASSUME NEW T \in SUBSET S, NEW x \in T, T \ {x} \in C PROVE T \in C
    <2> DEFINE n == Cardinality(T \ {x})
               s == Sum(w, T \ {x})
    <2>1. IsFiniteSet(T) /\ IsFiniteSet(T \ {x})
      BY FS_Subset
    <2>2. n \in Nat /\ Cardinality(T) = n + 1
      BY <2>1, FS_CardinalityType, FS_RemoveElement
    <2>3. Sum(w, T) = w[x] + s /\ s \in Nat
      BY <2>1, SumWithout, SumType
    <2>4. lo * n <= s /\ s <= hi * n
      BY <1>2
    <2>5. w[x] \in Nat /\ lo <= w[x] /\ w[x] <= hi
      OBVIOUS
    <2> HIDE DEF n, s
    <2>6. lo * (n + 1) = lo * n + lo /\ hi * (n + 1) = hi * n + hi
      BY <2>2
    <2>7. lo * n \in Nat /\ hi * n \in Nat
      BY <2>2
    <2>8. lo * (n + 1) <= w[x] + s /\ w[x] + s <= hi * (n + 1)
      BY <2>3, <2>4, <2>5, <2>6, <2>7
    <2> QED
      BY <2>2, <2>3, <2>8
  <1>3. S \in C
    <2> HIDE DEF C
    <2> QED
      BY <1>1, <1>2, FiniteInduction
  <1> QED
    BY <1>3

LEMMA FiguresRange ==
    ASSUME NEW D, IsFiniteSet(D), D # {}, NEW f \in [D -> Nat]
    PROVE  /\ Range(f) \in SUBSET Nat /\ Range(f) # {} /\ IsFiniteSet(Range(f))
           /\ \A d \in D : f[d] \in Range(f)
  <1>1. Range(f) = {f[d] : d \in D}
    BY DEF Range
  <1>2. f \in Surjection(D, Range(f))
    BY <1>1 DEF Surjection
  <1>3. \A d \in D : f[d] \in Nat /\ f[d] \in Range(f)
    BY <1>1
  <1>4. \A v \in Range(f) : v \in Nat
    BY <1>1
  <1>5. Range(f) \in SUBSET Nat
    BY <1>4
  <1>6. Range(f) # {}
    BY <1>3
  <1>7. IsFiniteSet(Range(f))
    BY <1>2, FS_Surjection
  <1> QED
    BY <1>3, <1>5, <1>6, <1>7

LEMMA Interval == \A n \in Nat : IsFiniteSet(1 .. n) /\ Cardinality(1 .. n) = n
  BY FS_Interval
==============================================================================
