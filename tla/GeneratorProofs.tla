-------------------------- MODULE GeneratorProofs --------------------------
(***************************************************************************)
(* Proofs about Generator, for any number of frames, generators, iterators *)
(* and values.  Inv is the inductive invariant: the auxiliary stacks       *)
(* describe the nesting, and everything that is not in a stack is at rest. *)
(***************************************************************************)
EXTENDS Generator, FiniteSetTheorems, WellFoundedInduction, TLAPS

\* OwnedOnce, before a Generator has been moved to itself.
Owned ==
  /\ \A h, k \in Holders : own[h] # Null /\ own[h] = own[k] => h = k
  /\ \A f \in Frames : st[f] # "free" <=> \E h \in Holders : own[h] = f

InStack(f) == \E r \in Frames : \E k \in 1 .. Len(stack[r]) : stack[r][k] = f

\* No frame is nested twice.
Disjoint ==
  \A r, q \in Frames :
    \A j \in 1 .. Len(stack[r]), k \in 1 .. Len(stack[q]) :
      stack[r][j] = stack[q][k] => r = q /\ j = k

\* The innermost frame of a stack waits at a yield, or runs.
InnermostInv ==
  \A r \in Frames : stack[r] # <<>> =>
    /\ own[Innermost(stack[r])] = Null
    /\ st[Innermost(stack[r])] =
         IF run # Null /\ r = Root THEN "running" ELSE "yielded"

\* A frame outside every stack has not begun or is over, and nests nothing.
OutsideInv ==
  \A f \in Frames :
    /\ ~InStack(f) =>
         st[f] \in {"free", "initial", "done"} /\ own[f] = Null /\ parent[f] = Null
    /\ stack[f] = <<>> => top[f] = f

\* The frame that runs is the innermost one of the root being resumed.
RunInv ==
  /\ run # Null =>
       /\ call # Idle /\ Root \in Frames /\ stack[Root] # <<>>
       /\ run = Innermost(stack[Root])
  /\ run = Null => ~except /\ call.op # "next"
  /\ call.op = "begin" =>
       Root \in Frames /\ (stack[Root] # <<>> \/ st[Root] = "done")

\* What Generators and iterators hold.
HolderInv ==
  /\ \A g \in Gens : own[g] # Null =>
       call.holder = g \/ st[own[g]] = "initial" \/ own[g] \in threw
  /\ \A i \in Its : own[i] # Null =>
       st[own[i]] = "done" \/ stack[own[i]] # <<>>
  /\ \A f \in threw : st[f] = "done"

Inv ==
  /\ TypeOK /\ Owned /\ PointersAgree /\ ResumesSuspended
  /\ Disjoint /\ InnermostInv /\ OutsideInv /\ RunInv /\ HolderInv

\* What is left of it after a Generator has been moved to itself.
SelfMoved ==
  bad.op = "selfmove" /\ TypeOK /\ OwnedOnce /\ PointersAgree /\ ResumesSuspended

---------------------------------------------------------------------------
(* Sequences, and what a stack looks like. *)

LEMMA NonEmptySeq ==
  ASSUME NEW S, NEW s \in Seq(S), s # <<>>
  PROVE  /\ Len(s) \in Nat /\ Len(s) >= 1
         /\ \A k \in 1 .. Len(s) : s[k] \in S
OBVIOUS

LEMMA AppendSeq ==
  ASSUME NEW S, NEW s \in Seq(S), NEW c \in S
  PROVE  /\ Append(s, c) \in Seq(S) /\ Append(s, c) # <<>>
         /\ Len(Append(s, c)) = Len(s) + 1
         /\ Append(s, c)[Len(s) + 1] = c
         /\ \A k \in 1 .. Len(s) : Append(s, c)[k] = s[k]
OBVIOUS

LEMMA FrontSeq ==
  ASSUME NEW S, NEW s \in Seq(S), Len(s) > 1
  PROVE  /\ SubSeq(s, 1, Len(s) - 1) \in Seq(S)
         /\ SubSeq(s, 1, Len(s) - 1) # <<>>
         /\ Len(SubSeq(s, 1, Len(s) - 1)) = Len(s) - 1
         /\ \A k \in 1 .. Len(s) - 1 : SubSeq(s, 1, Len(s) - 1)[k] = s[k]
<1> DEFINE n == Len(s) - 1
<1>1. n \in Nat /\ n >= 1 /\ n <= Len(s)  OBVIOUS
<1> HIDE DEF n
<1>2. /\ SubSeq(s, 1, n) \in Seq(S) /\ Len(SubSeq(s, 1, n)) = n
      /\ \A k \in 1 .. n : SubSeq(s, 1, n)[k] = s[k]
  BY <1>1
<1>3. SubSeq(s, 1, n) # <<>>  BY <1>1, <1>2
<1> QED  BY <1>2, <1>3 DEF n

\* Every nonempty set of positions has a least one.
LEMMA Least ==
  ASSUME NEW n \in Nat, NEW T \in SUBSET (1 .. n), T # {}
  PROVE  \E k \in T : \A j \in T : k <= j
<1> DEFINE F == {1 .. k : k \in T}
<1>1. IsFiniteSet(1 .. n)  BY FS_Interval
<1>2. IsWellFoundedOn(StrictSubsetOrdering(1 .. n), SUBSET (1 .. n))
  BY <1>1, FS_StrictSubsetOrderingWellFounded, FS_FiniteSubsetsOfFinite
<1>3. F \subseteq SUBSET (1 .. n) /\ F # {}
  <2>1. \A k \in T : 1 .. k \subseteq 1 .. n  OBVIOUS
  <2> QED  BY <2>1
<1>4. \E x \in F : \A y \in F : <<y, x>> \notin StrictSubsetOrdering(1 .. n)
  <2> HIDE DEF F
  <2> QED  BY <1>2, <1>3, WFMin
<1>5. PICK k \in T : \A j \in T : <<1 .. j, 1 .. k>> \notin StrictSubsetOrdering(1 .. n)
  BY <1>4
<1>6. ASSUME NEW j \in T, j < k PROVE FALSE
  <2>1. 1 .. j \subseteq 1 .. k /\ k \in 1 .. k /\ k \notin 1 .. j  BY <1>6
  <2>2. 1 .. j \in SUBSET (1 .. n) /\ 1 .. k \in SUBSET (1 .. n)  OBVIOUS
  <2> QED  BY <1>5, <2>1, <2>2 DEF StrictSubsetOrdering
<1>7. \A j \in T : k <= j  BY <1>6
<1> QED  BY <1>7

\* A frame in a stack is suspended where it nests, at a yield, or runs.
LEMMA StackState ==
  ASSUME Inv, NEW r \in Frames, NEW k \in 1 .. Len(stack[r])
  PROVE  /\ stack[r] # <<>> /\ stack[r][k] \in Frames
         /\ st[stack[r][k]] \in {"nesting", "running", "yielded"}
<1> USE DEF Inv, TypeOK
<1>1. stack[r] \in Seq(Frames) /\ stack[r] # <<>>  OBVIOUS
<1>2. Len(stack[r]) \in Nat /\ stack[r][k] \in Frames  BY <1>1, NonEmptySeq
<1>3. CASE k = Len(stack[r])
  BY <1>1, <1>2, <1>3 DEF InnermostInv, Innermost
<1>4. CASE k # Len(stack[r])
  <2>1. k \in 1 .. Len(stack[r]) - 1  BY <1>2, <1>4
  <2> QED  BY <1>1, <1>2, <2>1 DEF PointersAgree
<1> QED  BY <1>3, <1>4

\* Who is owned by a Generator or an iterator is in no stack but its own.
LEMMA OwnedRoot ==
  ASSUME Inv, NEW h \in Gens \cup Its, own[h] # Null,
         NEW r \in Frames, NEW k \in 1 .. Len(stack[r]), stack[r][k] = own[h]
  PROVE  r = own[h] /\ k = 1
<1> USE DEF Inv, TypeOK
<1>1. stack[r] \in Seq(Frames) /\ stack[r] # <<>>  BY StackState
<1>2. Len(stack[r]) \in Nat  BY <1>1, NonEmptySeq
<1>3. CASE k = 1
  BY <1>1, <1>3 DEF PointersAgree
<1>4. CASE k # 1
  <2>1. k - 1 \in 1 .. Len(stack[r]) - 1 /\ (k - 1) + 1 = k  BY <1>2, <1>4
  <2>2. own[stack[r][k - 1]] = stack[r][k]  BY <1>1, <2>1 DEF PointersAgree
  <2>3. stack[r][k - 1] \in Frames  BY <1>1, <1>2, <2>1, NonEmptySeq
  <2> QED  BY <2>2, <2>3, GeneratorAssumption DEF Owned, Holders
<1> QED  BY <1>3, <1>4

\* What is destroyed with the frame that h owns: its whole stack, if it has
\* one, and nothing else.
LEMMA BelowFacts ==
  ASSUME Inv, NEW h \in Gens \cup Its, own[h] # Null
  PROVE  /\ own[h] \in Below(own[h]) /\ Below(own[h]) \subseteq Frames
         /\ Closed(Below(own[h]))
         /\ \A x \in Below(own[h]) :
              x = own[h] \/ \E p \in Below(own[h]) : own[p] = x
         /\ \A r \in Frames : \A k \in 1 .. Len(stack[r]) :
              stack[r][k] \in Below(own[h]) <=> r = own[h]
         /\ \A r \in Below(own[h]) : stack[r] # <<>> => r = own[h]
<1> DEFINE f == own[h]
           D == Below(f)
<1>0. f \in Frames /\ h \in Holders  BY DEF Inv, TypeOK, Holders
<1>1. f \in D /\ D \subseteq Frames  BY <1>0 DEF Below
<1>2. Closed(D)
  <2> SUFFICES ASSUME NEW p \in D, own[p] # Null PROVE own[p] \in D
    BY DEF Closed
  <2>1. own[p] \in Frames  BY <1>1 DEF Inv, TypeOK, Holders
  <2>2. ASSUME NEW S \in SUBSET Frames, f \in S, Closed(S) PROVE own[p] \in S
    <3>1. p \in S  BY <2>2 DEF Below
    <3> QED  BY <3>1, <2>2 DEF Closed
  <2> QED  BY <2>1, <2>2 DEF Below
<1>3. ASSUME NEW S \in SUBSET Frames, f \in S, Closed(S) PROVE D \subseteq S
  BY <1>3 DEF Below
<1>4. ASSUME NEW x \in D, x # f PROVE \E p \in D : own[p] = x
  <2> SUFFICES ASSUME \A p \in D : own[p] # x PROVE FALSE
    OBVIOUS
  <2>1. Closed(D \ {x})  BY <1>2 DEF Closed
  <2>2. D \ {x} \in SUBSET Frames /\ f \in D \ {x}  BY <1>1, <1>4
  <2> QED  BY <1>3, <2>1, <2>2
<1> HIDE DEF D
<1>5. CASE stack[f] = <<>>
  <2>1. ~InStack(f)
    <3> SUFFICES ASSUME NEW r \in Frames, NEW k \in 1 .. Len(stack[r]),
                        stack[r][k] = f
                 PROVE  FALSE
      BY DEF InStack
    <3>1. r = f  BY OwnedRoot
    <3> QED  BY <3>1, <1>5, StackState
  <2>2. own[f] = Null  BY <1>0, <2>1 DEF Inv, OutsideInv
  <2>3. Closed({f})  BY <2>2 DEF Closed
  <2>4. D = {f}  BY <1>0, <1>1, <1>3, <2>3
  <2>5. \A r \in Frames : \A k \in 1 .. Len(stack[r]) : stack[r][k] \notin D /\ r # f
    BY <2>1, <2>4, <1>5, StackState DEF InStack
  <2> QED  BY <1>1, <1>2, <1>4, <2>4, <2>5 DEF D
<1>6. CASE stack[f] # <<>>
  <2> DEFINE s == stack[f]
             R == {s[k] : k \in 1 .. Len(s)}
  <2>1. s \in Seq(Frames) /\ Len(s) \in Nat /\ Len(s) >= 1
    BY <1>0, <1>6, NonEmptySeq DEF Inv, TypeOK
  <2>2. R \in SUBSET Frames  BY <2>1, NonEmptySeq, <1>6
  <2>3. s[1] = f /\ \A k \in 1 .. Len(s) - 1 : own[s[k]] = s[k + 1]
    BY <1>0, <1>6 DEF Inv, PointersAgree
  <2>4. own[s[Len(s)]] = Null
    BY <1>0, <1>6 DEF Inv, InnermostInv, Innermost
  <2>5. f \in R  BY <2>1, <2>3
  <2>6. Closed(R)
    <3> SUFFICES ASSUME NEW k \in 1 .. Len(s), own[s[k]] # Null
                 PROVE  own[s[k]] \in R
      BY DEF Closed
    <3>1. k \in 1 .. Len(s) - 1 /\ k + 1 \in 1 .. Len(s)  BY <2>1, <2>4
    <3> QED  BY <2>3, <3>1
  <2>7. D \subseteq R  BY <1>3, <2>2, <2>5, <2>6
  <2>8. R \subseteq D
    <3> DEFINE T == {k \in 1 .. Len(s) : s[k] \notin D}
    <3> SUFFICES ASSUME T # {} PROVE FALSE
      OBVIOUS
    <3>1. T \in SUBSET (1 .. Len(s))  OBVIOUS
    <3> HIDE DEF T
    <3>2. PICK k \in T : \A j \in T : k <= j  BY <2>1, <3>1, Least
    <3> USE DEF T
    <3>3. k \in 1 .. Len(s) /\ s[k] \notin D  BY <3>2
    <3>4. k # 1  BY <3>3, <2>3, <1>1 
    <3>5. k - 1 \in 1 .. Len(s) - 1 /\ (k - 1) + 1 = k  BY <2>1, <3>3, <3>4
    <3>6. k - 1 \in 1 .. Len(s)  BY <2>1, <3>5
    <3>7. s[k - 1] \in D  BY <3>2, <3>6, <2>1, <3>3
    <3>8. own[s[k - 1]] = s[k]  BY <2>3, <3>5
    <3>9. s[k] # Null  BY <3>3, <2>2, GeneratorAssumption
    <3> QED  BY <1>2, <3>3, <3>7, <3>8, <3>9 DEF Closed
  <2> HIDE DEF s, R
  <2>9. ASSUME NEW r \in Frames, NEW k \in 1 .. Len(stack[r])
        PROVE  stack[r][k] \in D <=> r = f
    <3>1. ASSUME stack[r][k] \in D PROVE r = f
      <4>1. PICK j \in 1 .. Len(s) : stack[r][k] = s[j]  BY <3>1, <2>7 DEF R
      <4> QED  BY <1>0, <4>1 DEF Inv, Disjoint, s
    <3>2. ASSUME r = f PROVE stack[r][k] \in D  BY <3>2, <2>8 DEF R, s
    <3> QED  BY <3>1, <3>2
  <2>10. ASSUME NEW r \in D, stack[r] # <<>> PROVE r = f
    <3>1. r \in Frames /\ stack[r] \in Seq(Frames)  BY <1>1 DEF Inv, TypeOK
    <3>2. 1 \in 1 .. Len(stack[r])  BY <3>1, <2>10, NonEmptySeq
    <3>3. stack[r][1] = r  BY <3>1, <2>10 DEF Inv, PointersAgree
    <3> QED  BY <2>9, <3>1, <3>2, <3>3
  <2> QED  BY <1>1, <1>2, <1>4, <2>9, <2>10 DEF D
<1> QED  BY <1>5, <1>6

---------------------------------------------------------------------------
(* Inv is inductive. *)

LEMMA InitInv == Init => Inv
<1> SUFFICES ASSUME Init PROVE Inv
  OBVIOUS
<1> USE GeneratorAssumption DEF Init
<1>1. TypeOK
  <2>1. <<>> \in Seq(Frames)  OBVIOUS
  <2> QED  BY <2>1 DEF TypeOK, States, Holders
<1>2. Owned /\ PointersAgree /\ ResumesSuspended
  BY DEF Owned, PointersAgree, ResumesSuspended, Holders, Fine
<1>3. Disjoint /\ InnermostInv /\ OutsideInv
  <2>1. \A r \in Frames : Len(stack[r]) = 0  OBVIOUS
  <2> QED  BY <2>1 DEF Disjoint, InnermostInv, OutsideInv, Holders
<1>4. RunInv /\ HolderInv  BY DEF RunInv, HolderInv, Idle, Holders
<1> QED  BY <1>1, <1>2, <1>3, <1>4 DEF Inv

LEMMA CreateInv ==
  ASSUME Inv, NEW g \in Gens, NEW f \in Frames, Create(g, f)
  PROVE  Inv'
<1> USE GeneratorAssumption DEF Create, Consumer, promise
<1>1. ~InStack(f)  BY StackState DEF InStack
<1>2. \A h \in Holders : own[h] # f  BY DEF Inv, Owned
<1>3. TypeOK'  BY DEF Inv, TypeOK, Holders, States
<1>4. Owned'
  <2>1. /\ g \in Holders /\ own'[g] = f /\ st'[f] = "initial"
        /\ \A h \in Holders : h # g => own'[h] = own[h]
        /\ \A x \in Frames : x # f => st'[x] = st[x]
    BY DEF Inv, TypeOK, Holders
  <2>2. \A x \in Frames : x # f =>
          ((\E h \in Holders : own'[h] = x) <=> (\E h \in Holders : own[h] = x))
    BY <2>1
  <2>3. \A x \in Frames : st'[x] # "free" <=> \E h \in Holders : own'[h] = x
    BY <2>1, <2>2 DEF Inv, Owned
  <2>4. \A h, k \in Holders : own'[h] # Null /\ own'[h] = own'[k] => h = k
    BY <1>2, <2>1 DEF Inv, Owned
  <2> QED  BY <2>3, <2>4 DEF Owned, Holders
<1>5. \A r \in Frames : \A k \in 1 .. Len(stack[r]) :
        stack[r][k] \in Frames /\ stack[r][k] # f
  BY <1>1, StackState DEF InStack
<1>6. PointersAgree'
  BY <1>5 DEF Inv, TypeOK, PointersAgree, Holders, Innermost
<1>7. Disjoint'  BY DEF Inv, Disjoint
<1>8. InnermostInv'
  <2> SUFFICES ASSUME NEW r \in Frames, stack[r] # <<>>
               PROVE  /\ own'[Innermost(stack[r])] = Null
                      /\ st'[Innermost(stack[r])] = "yielded"
    BY DEF InnermostInv, Innermost
  <2>1. Innermost(stack[r]) \in Frames /\ Innermost(stack[r]) # f
    <3>1. Len(stack[r]) \in 1 .. Len(stack[r])  BY NonEmptySeq DEF Inv, TypeOK
    <3> QED  BY <1>5, <3>1 DEF Innermost
  <2> QED  BY <2>1 DEF Inv, TypeOK, InnermostInv, Holders
<1>9. OutsideInv'  BY DEF Inv, TypeOK, OutsideInv, InStack, Holders
<1>10. RunInv'  BY DEF Inv, RunInv, Idle
<1>11. HolderInv'  BY <1>2 DEF Inv, TypeOK, HolderInv, Holders, Idle
<1>12. ResumesSuspended'  BY DEF Inv, ResumesSuspended
<1> QED  BY <1>3, <1>4, <1>6, <1>7, <1>8, <1>9, <1>10, <1>11, <1>12 DEF Inv

\* Destroying what h holds leaves the other stacks as they are.
LEMMA DestroyInv ==
  ASSUME Inv, NEW h \in Gens \cup Its, own[h] # Null, Destroy(Below(own[h])),
         run = Null, run' = run,
         \A p \in Frames : own'[p] = IF p \in Below(own[h]) THEN Null ELSE own[p]
  PROVE  PointersAgree' /\ Disjoint' /\ InnermostInv' /\ OutsideInv'
         /\ (bad' = Fine => ResumesSuspended')
<1> DEFINE D == Below(own[h])
<1>0. /\ \A x \in Frames : own'[x] = IF x \in D THEN Null ELSE own[x]
      /\ \A x \in Frames :
           /\ st'[x] = IF x \in D THEN "free" ELSE st[x]
           /\ top'[x] = IF x \in D THEN x ELSE top[x]
           /\ parent'[x] = IF x \in D THEN Null ELSE parent[x]
           /\ root'[x] = IF x \in D THEN Null ELSE root[x]
           /\ stack'[x] = IF x \in D THEN <<>> ELSE stack[x]
  BY DEF Destroy
<1>1. \A r \in Frames : \A k \in 1 .. Len(stack[r]) :
        stack[r][k] \in D <=> r = own[h]
  BY BelowFacts
<1>2. own[h] \in D /\ \A r \in D : stack[r] # <<>> => r = own[h]
  BY BelowFacts
<1> HIDE DEF D
<1>3. ASSUME NEW r \in Frames, stack'[r] # <<>>
      PROVE  /\ stack'[r] = stack[r] /\ r \notin D /\ stack[r] # <<>>
             /\ Len(stack[r]) \in Nat /\ Len(stack[r]) >= 1
             /\ \A k \in 1 .. Len(stack[r]) :
                  stack[r][k] \in Frames /\ stack[r][k] \notin D
  <2>1. stack'[r] = stack[r] /\ r \notin D /\ stack[r] # <<>>  BY <1>0, <1>3
  <2>2. stack[r] \in Seq(Frames)  BY DEF Inv, TypeOK
  <2> QED  BY <1>1, <1>2, <2>1, <2>2, NonEmptySeq
<1>4. PointersAgree'
  <2>0. ASSUME NEW r \in Frames, stack'[r] # <<>>
        PROVE  /\ top'[r] = Innermost(stack'[r]) /\ stack'[r][1] = r
               /\ parent'[r] = Null
               /\ \A k \in 1 .. Len(stack'[r]) - 1 :
                    /\ own'[stack'[r][k]] = stack'[r][k + 1]
                    /\ st'[stack'[r][k]] = "nesting"
                    /\ parent'[stack'[r][k + 1]] = stack'[r][k]
                    /\ root'[stack'[r][k + 1]] = r
    <3>1. /\ top[r] = Innermost(stack[r]) /\ stack[r][1] = r /\ parent[r] = Null
          /\ \A k \in 1 .. Len(stack[r]) - 1 :
               /\ own[stack[r][k]] = stack[r][k + 1]
               /\ st[stack[r][k]] = "nesting"
               /\ parent[stack[r][k + 1]] = stack[r][k]
               /\ root[stack[r][k + 1]] = r
      BY <1>3, <2>0 DEF Inv, PointersAgree
    <3>2. ASSUME NEW k \in 1 .. Len(stack[r]) - 1
          PROVE  k \in 1 .. Len(stack[r]) /\ k + 1 \in 1 .. Len(stack[r])
      BY <1>3, <2>0
    <3>3. stack'[r] = stack[r]  BY <1>3, <2>0
    <3>4. top'[r] = Innermost(stack[r]) /\ parent'[r] = Null
      BY <1>0, <1>3, <2>0, <3>1
    <3>5. ASSUME NEW k \in 1 .. Len(stack[r]) - 1
          PROVE  /\ own'[stack[r][k]] = stack[r][k + 1]
                 /\ st'[stack[r][k]] = "nesting"
                 /\ parent'[stack[r][k + 1]] = stack[r][k]
                 /\ root'[stack[r][k + 1]] = r
      <4>1. /\ stack[r][k] \in Frames /\ stack[r][k] \notin D
            /\ stack[r][k + 1] \in Frames /\ stack[r][k + 1] \notin D
        BY <1>3, <2>0, <3>2
      <4> QED  BY <1>0, <3>1, <4>1
    <3> QED  BY <3>1, <3>3, <3>4, <3>5
  <2> QED  BY <2>0 DEF PointersAgree, Innermost
<1>5. Disjoint'
  <2> SUFFICES ASSUME NEW r \in Frames, NEW q \in Frames,
                      NEW j \in 1 .. Len(stack'[r]), NEW k \in 1 .. Len(stack'[q]),
                      stack'[r][j] = stack'[q][k]
               PROVE  r = q /\ j = k
    BY DEF Disjoint
  <2>1. stack'[r] # <<>> /\ stack'[q] # <<>>  OBVIOUS
  <2> QED  BY <1>3, <2>1 DEF Inv, Disjoint
<1>6. InnermostInv'
  <2> SUFFICES ASSUME NEW r \in Frames, stack'[r] # <<>>
               PROVE  /\ own'[Innermost(stack[r])] = Null
                      /\ st'[Innermost(stack[r])] = "yielded"
    BY <1>3 DEF InnermostInv, Innermost
  <2>1. Innermost(stack[r]) \in Frames \ D  BY <1>3 DEF Innermost
  <2> QED  BY <1>0, <1>3, <2>1 DEF Inv, InnermostInv
<1>7. OutsideInv'
  <2>1. ASSUME NEW f \in Frames, f \notin D, InStack(f) PROVE InStack(f)'
    <3>0. PICK r \in Frames : \E k \in 1 .. Len(stack[r]) : stack[r][k] = f
      BY <2>1 DEF InStack
    <3>1. PICK k \in 1 .. Len(stack[r]) : stack[r][k] = f  BY <3>0
    <3>2. r \notin D
      <4>1. r # own[h] /\ stack[r] # <<>>  BY <1>1, <2>1, <3>1, StackState
      <4> QED  BY <1>2, <4>1
    <3> QED  BY <1>0, <3>1, <3>2 DEF InStack
  <2>2. ASSUME NEW f \in Frames, ~InStack(f)'
        PROVE  st'[f] \in {"free", "initial", "done"} /\ own'[f] = Null
                 /\ parent'[f] = Null
    BY <1>0, <2>1, <2>2 DEF Inv, OutsideInv
  <2>3. ASSUME NEW f \in Frames, stack'[f] = <<>> PROVE top'[f] = f
    BY <1>0, <2>3 DEF Inv, OutsideInv
  <2> QED  BY <2>2, <2>3 DEF OutsideInv
<1>8. bad' = Fine => ResumesSuspended'  BY DEF ResumesSuspended, Fine
<1> QED  BY <1>4, <1>5, <1>6, <1>7, <1>8

\* What is left is held by who held it.
LEMMA DestroyOwned ==
  ASSUME Inv, NEW h \in Gens \cup Its, own[h] # Null, Destroy(Below(own[h])),
         NEW k \in Holders
  PROVE  /\ k \notin Below(own[h]) /\ k # h /\ own[k] # Null =>
              own[k] \in Frames \ Below(own[h]) /\ st'[own[k]] = st[own[k]]
         /\ own[k] \in Frames \ Below(own[h]) => k \notin Below(own[h]) /\ k # h
<1> DEFINE D == Below(own[h])
<1>1. /\ own[h] \in D /\ D \subseteq Frames /\ Closed(D)
      /\ \A x \in D : x = own[h] \/ \E p \in D : own[p] = x
  BY BelowFacts
<1>2. h \in Holders /\ D \subseteq Holders  BY <1>1 DEF Holders
<1>3. \A f \in Frames : f \notin D => st'[f] = st[f]  BY DEF Destroy
<1> HIDE DEF D
<1>4. ASSUME k \notin D, k # h, own[k] # Null PROVE own[k] \in Frames \ D
  BY <1>1, <1>2, <1>4 DEF Inv, TypeOK, Owned
<1>5. ASSUME own[k] \in Frames \ D PROVE k \notin D /\ k # h
  BY <1>1, <1>5, GeneratorAssumption DEF Closed
<1> QED  BY <1>3, <1>4, <1>5 DEF D
\* A Generator or an iterator lets go of what it holds.
LEMMA DropInv ==
  ASSUME Inv, NEW h \in Gens \cup Its, own[h] # Null,
         run = Null, run' = run, ~except, except' = except, bad = Fine, bad' = bad,
         call = Idle \/ (call.op = "begin" /\ call.holder = h), call' = Idle,
         own' = [Without(Below(own[h])) EXCEPT ![h] = Null],
         Destroy(Below(own[h]))
  PROVE  Inv'
<1> USE GeneratorAssumption
<1> DEFINE D == Below(own[h])
<1>1. own[h] \in D /\ D \subseteq Frames /\ h \in Holders /\ h \notin Frames
  BY BelowFacts DEF Holders
<1>2. \A k \in Holders : own'[k] = IF k \in D \/ k = h THEN Null ELSE own[k]
  BY <1>1 DEF Without
<1>3. \A k \in Holders :
        /\ own'[k] # Null => own[k] = own'[k] /\ own[k] \in Frames \ D
                               /\ st'[own[k]] = st[own[k]]
        /\ own[k] \in Frames \ D => own'[k] = own[k]
  BY <1>2, DestroyOwned
<1>4. /\ \A f \in Frames : st'[f] = IF f \in D THEN "free" ELSE st[f]
      /\ \A f \in Frames : stack'[f] = IF f \in D THEN <<>> ELSE stack[f]
      /\ threw' = threw \ D
  BY DEF Destroy
<1>5. PointersAgree' /\ Disjoint' /\ InnermostInv' /\ OutsideInv' /\ ResumesSuspended'
  <2>1. \A p \in Frames : own'[p] = IF p \in Below(own[h]) THEN Null ELSE own[p]
    BY <1>1, <1>2 DEF Holders
  <2> QED  BY <2>1, DestroyInv
<1>6. TypeOK'
  <2>1. own' \in [Holders -> Frames \cup {Null}]  BY DEF Inv, TypeOK, Without
  <2>2. <<>> \in Seq(Frames)  OBVIOUS
  <2> QED  BY <2>1, <2>2 DEF Inv, TypeOK, Destroy, States
<1> HIDE DEF D
<1>7. Owned'
  <2>1. \A k, l \in Holders : own'[k] # Null /\ own'[k] = own'[l] => k = l
    BY <1>3 DEF Inv, Owned
  <2>2. ASSUME NEW f \in Frames
        PROVE  st'[f] # "free" <=> \E k \in Holders : own'[k] = f
    <3>1. CASE f \in D  BY <1>3, <1>4, <3>1
    <3>2. CASE f \notin D  BY <1>3, <1>4, <3>2 DEF Inv, Owned
    <3> QED  BY <3>1, <3>2
  <2> QED  BY <2>1, <2>2 DEF Owned, Holders
<1>8. RunInv'  BY DEF RunInv, Idle
<1>9. HolderInv'
  <2>1. ASSUME NEW g \in Gens, own'[g] # Null
        PROVE  st'[own'[g]] = "initial" \/ own'[g] \in threw'
    <3>1. g # h /\ own'[g] = own[g]  BY <1>2, <1>3, <2>1 DEF Holders
    <3>2. own[g] \in Frames \ D /\ st'[own[g]] = st[own[g]]
      BY <1>3, <2>1 DEF Holders
    <3>3. call.holder # g  BY <3>1 DEF Idle
    <3> QED  BY <1>4, <2>1, <3>1, <3>2, <3>3 DEF Inv, HolderInv
  <2>2. ASSUME NEW i \in Its, own'[i] # Null
        PROVE  st'[own'[i]] = "done" \/ stack'[own'[i]] # <<>>
    <3>1. own[i] = own'[i] /\ own[i] \in Frames \ D /\ st'[own[i]] = st[own[i]]
      BY <1>3, <2>2 DEF Holders
    <3> QED  BY <1>4, <2>2, <3>1 DEF Inv, HolderInv
  <2>3. \A f \in threw' : st'[f] = "done"
    BY <1>4 DEF Inv, TypeOK, HolderInv
  <2> QED  BY <2>1, <2>2, <2>3 DEF HolderInv
<1> QED  BY <1>5, <1>6, <1>7, <1>8, <1>9 DEF Inv

LEMMA MoveAssignInv ==
  ASSUME Inv, NEW d \in Gens, NEW s \in Gens, MoveAssign(d, s)
  PROVE  Inv'
<1> USE GeneratorAssumption DEF MoveAssign, Consumer
<1> DEFINE D == Below(own[d])
<1>1. /\ own[d] \in D /\ D \subseteq Frames /\ d \in Holders /\ s \in Holders
      /\ d \notin Frames /\ s \notin Frames
  BY BelowFacts DEF Holders
<1>2. /\ own'[d] = own[s] /\ own'[s] = Null
      /\ \A k \in Holders : k # d /\ k # s =>
           own'[k] = IF k \in D THEN Null ELSE own[k]
  BY <1>1 DEF Without
<1>3. ASSUME NEW k \in Holders
      PROVE  /\ k \notin D /\ k # d /\ own[k] # Null =>
                  own[k] \in Frames \ D /\ st'[own[k]] = st[own[k]]
             /\ own[k] \in Frames \ D => k \notin D /\ k # d
  BY DestroyOwned
<1>4. /\ \A f \in Frames : st'[f] = IF f \in D THEN "free" ELSE st[f]
      /\ \A f \in Frames : stack'[f] = IF f \in D THEN <<>> ELSE stack[f]
      /\ threw' = threw \ D
  BY DEF Destroy
<1>5. PointersAgree' /\ Disjoint' /\ InnermostInv' /\ OutsideInv' /\ ResumesSuspended'
  <2>1. \A p \in Frames : own'[p] = IF p \in Below(own[d]) THEN Null ELSE own[p]
    BY <1>1, <1>2 DEF Holders
  <2> QED  BY <2>1, DestroyInv
<1>6. TypeOK'
  <2>1. own' \in [Holders -> Frames \cup {Null}]
    BY <1>1 DEF Inv, TypeOK, Without
  <2>2. <<>> \in Seq(Frames)  OBVIOUS
  <2> QED  BY <2>1, <2>2 DEF Inv, TypeOK, Destroy, States
<1> HIDE DEF D
<1>7. Owned'
  <2>1. \A k, l \in Holders : own'[k] # Null /\ own'[k] = own'[l] => k = l
    BY <1>1, <1>2 DEF Inv, Owned
  <2>2. ASSUME NEW f \in Frames
        PROVE  st'[f] # "free" <=> \E k \in Holders : own'[k] = f
    <3>1. CASE f \in D
      <4>1. ASSUME NEW k \in Holders, own'[k] = f PROVE FALSE
        <5>1. CASE k = d  BY <1>1, <1>2, <1>3, <3>1, <4>1, <5>1
        <5>2. CASE k # d  BY <1>2, <1>3, <3>1, <4>1, <5>2
        <5> QED  BY <5>1, <5>2
      <4> QED  BY <1>4, <3>1, <4>1
    <3>2. CASE f \notin D
      <4>1. ASSUME NEW k \in Holders, own'[k] = f PROVE \E l \in Holders : own[l] = f
        BY <1>1, <1>2, <4>1
      <4>2. ASSUME NEW k \in Holders, own[k] = f PROVE \E l \in Holders : own'[l] = f
        <5>1. k \notin D /\ k # d  BY <1>3, <3>2, <4>2
        <5>2. own'[IF k = s THEN d ELSE k] = f  BY <1>1, <1>2, <4>2, <5>1
        <5> QED  BY <1>1, <5>2
      <4> QED  BY <1>4, <3>2, <4>1, <4>2 DEF Inv, Owned
    <3> QED  BY <3>1, <3>2
  <2> QED  BY <2>1, <2>2 DEF Owned, Holders
<1>8. RunInv'  BY DEF Inv, RunInv, Idle
<1>9. HolderInv'
  <2>1. ASSUME NEW g \in Gens, own'[g] # Null
        PROVE  st'[own'[g]] = "initial" \/ own'[g] \in threw'
    <3>1. PICK k \in Gens : k # d /\ own'[g] = own[k]
      <4>1. CASE g = d  BY <1>2, <4>1
      <4>2. CASE g # d  BY <1>1, <1>2, <2>1, <4>2 DEF Holders
      <4> QED  BY <4>1, <4>2
    <3>2. k \in Holders /\ k \notin D  BY <1>1 DEF Holders
    <3>3. own[k] \in Frames \ D /\ st'[own[k]] = st[own[k]]
      BY <1>3, <2>1, <3>1, <3>2
    <3> QED  BY <1>4, <2>1, <3>1, <3>3 DEF Inv, HolderInv, Idle
  <2>2. ASSUME NEW i \in Its, own'[i] # Null
        PROVE  st'[own'[i]] = "done" \/ stack'[own'[i]] # <<>>
    <3>1. i \in Holders /\ i # d /\ i # s /\ i \notin D  BY <1>1 DEF Holders
    <3>2. own'[i] = own[i]  BY <1>2, <3>1
    <3>3. own[i] \in Frames \ D /\ st'[own[i]] = st[own[i]]
      BY <1>3, <2>2, <3>1, <3>2
    <3> QED  BY <1>4, <2>2, <3>2, <3>3 DEF Inv, HolderInv
  <2>3. \A f \in threw' : st'[f] = "done"
    BY <1>4 DEF Inv, TypeOK, HolderInv
  <2> QED  BY <2>1, <2>2, <2>3 DEF HolderInv
<1> QED  BY <1>5, <1>6, <1>7, <1>8, <1>9 DEF Inv

\* What g still holds is destroyed; all else is as after Drop.
LEMMA SelfMoveInv ==
  ASSUME Inv, NEW g \in Gens, SelfMove(g)
  PROVE  SelfMoved'
<1> USE GeneratorAssumption DEF SelfMove, Consumer
<1> DEFINE D == Below(own[g])
<1>1. own[g] \in D /\ D \subseteq Frames /\ g \in Holders /\ g \notin Frames
  BY BelowFacts DEF Holders
<1>2. \A k \in Holders : own'[k] = IF k \in D THEN Null ELSE own[k]
  BY DEF Without
<1>3. \A k \in Holders :
        /\ k # g /\ own'[k] # Null => own[k] = own'[k] /\ own[k] \in Frames \ D
        /\ own[k] \in Frames \ D => own'[k] = own[k]
  BY <1>2, DestroyOwned
<1>4. \A f \in Frames : st'[f] = IF f \in D THEN "free" ELSE st[f]
  BY DEF Destroy
<1>5. PointersAgree'
  <2>1. \A p \in Frames : own'[p] = IF p \in Below(own[g]) THEN Null ELSE own[p]
    BY <1>2 DEF Holders
  <2> QED  BY <2>1, DestroyInv
<1>6. TypeOK'
  <2>1. own' \in [Holders -> Frames \cup {Null}]  BY DEF Inv, TypeOK, Without
  <2>2. <<>> \in Seq(Frames)  OBVIOUS
  <2> QED  BY <1>1, <2>1, <2>2 DEF Inv, TypeOK, Destroy, States
<1> HIDE DEF D
<1>7. own'[g] = own[g]  BY <1>1, <1>2
<1>8. OwnedOnce'
  <2>1. \A k, l \in Holders : own'[k] # Null /\ own'[k] = own'[l] => k = l
    BY <1>1, <1>3, <1>7 DEF Inv, Owned
  <2>2. ASSUME NEW f \in Frames
        PROVE  \/ st'[f] # "free" <=> \E k \in Holders : own'[k] = f
               \/ bad' = [op |-> "selfmove", frame |-> f]
    <3>1. CASE f = own[g]  BY <3>1
    <3>2. CASE f \in D /\ f # own[g]  BY <1>3, <1>4, <1>7, <3>2
    <3>3. CASE f \notin D  BY <1>1, <1>3, <1>4, <1>7, <3>3 DEF Inv, Owned
    <3> QED  BY <3>1, <3>2, <3>3
  <2> QED  BY <2>1, <2>2 DEF OwnedOnce, Holders
<1>9. ResumesSuspended'  BY DEF ResumesSuspended
<1> QED  BY <1>5, <1>6, <1>8, <1>9 DEF SelfMoved

\* The nesting is what it was when nothing it is made of has changed.
LEMMA PointersKept ==
  ASSUME Inv, stack' = stack, st' = st, top' = top, parent' = parent, root' = root,
         \A p \in Frames : own'[p] = own[p]
  PROVE  PointersAgree'
<1> SUFFICES ASSUME NEW r \in Frames, stack[r] # <<>>
             PROVE  /\ top[r] = Innermost(stack[r]) /\ stack[r][1] = r
                    /\ parent[r] = Null
                    /\ \A k \in 1 .. Len(stack[r]) - 1 :
                         /\ own'[stack[r][k]] = stack[r][k + 1]
                         /\ st[stack[r][k]] = "nesting"
                         /\ parent[stack[r][k + 1]] = stack[r][k]
                         /\ root[stack[r][k + 1]] = r
  BY DEF PointersAgree, Innermost
<1>1. PointersAgree  BY DEF Inv
<1>2. Len(stack[r]) \in Nat  BY NonEmptySeq DEF Inv, TypeOK
<1>3. ASSUME NEW k \in 1 .. Len(stack[r]) - 1
      PROVE  own'[stack[r][k]] = own[stack[r][k]]
  <2>1. k \in 1 .. Len(stack[r])  BY <1>2
  <2> QED  BY <2>1, StackState
<1> QED  BY <1>1, <1>3 DEF PointersAgree

\* A handle moves from s to d while no coroutine runs.
LEMMA TransferInv ==
  ASSUME Inv, NEW d \in Gens \cup Its, NEW s \in Gens \cup Its,
         own[d] = Null, own[s] # Null, run = Null,
         own' = [own EXCEPT ![d] = own[s], ![s] = Null],
         UNCHANGED <<st, promise, run, except, threw, bad, stack>>
  PROVE  /\ own' \in [Holders -> Frames \cup {Null}]
         /\ Owned' /\ PointersAgree' /\ ResumesSuspended'
         /\ Disjoint' /\ InnermostInv' /\ OutsideInv'
<1> USE GeneratorAssumption DEF promise
<1>1. /\ d \in Holders /\ s \in Holders /\ d # s
      /\ d \notin Frames /\ s \notin Frames
  BY DEF Holders
<1>2. own' \in [Holders -> Frames \cup {Null}]  BY <1>1 DEF Inv, TypeOK
<1>3. /\ own'[d] = own[s] /\ own'[s] = Null
      /\ \A k \in Holders : k # d /\ k # s => own'[k] = own[k]
  BY <1>1 DEF Inv, TypeOK
<1>4. \A p \in Frames : own'[p] = own[p]  BY <1>1, <1>3 DEF Holders
<1>5. Owned'
  <2>1. \A k, l \in Holders : own'[k] # Null /\ own'[k] = own'[l] => k = l
    <3>1. \A k \in Holders : own'[k] # Null =>
            k # s /\ own'[k] = own[IF k = d THEN s ELSE k]
      BY <1>1, <1>3
    <3> SUFFICES ASSUME NEW k \in Holders, NEW l \in Holders,
                        own'[k] # Null, own'[k] = own'[l]
                 PROVE  k = l
      OBVIOUS
    <3>2. PICK a \in Holders : a = IF k = d THEN s ELSE k  BY <1>1
    <3>3. PICK b \in Holders : b = IF l = d THEN s ELSE l  BY <1>1
    <3>4. own[a] # Null /\ own[a] = own[b]  BY <3>1, <3>2, <3>3
    <3>5. a = b  BY <3>4 DEF Inv, Owned
    <3> QED  BY <3>1, <3>2, <3>3, <3>5
  <2>2. ASSUME NEW f \in Frames
        PROVE  (\E k \in Holders : own'[k] = f) <=> (\E k \in Holders : own[k] = f)
    <3>1. ASSUME NEW k \in Holders, own'[k] = f PROVE \E l \in Holders : own[l] = f
      BY <1>1, <1>3, <3>1
    <3>2. ASSUME NEW k \in Holders, own[k] = f PROVE \E l \in Holders : own'[l] = f
      <4>1. own'[IF k = s THEN d ELSE k] = f  BY <1>1, <1>3, <3>2
      <4> QED  BY <1>1, <4>1
    <3> QED  BY <3>1, <3>2
  <2> QED  BY <2>1, <2>2 DEF Inv, Owned, Holders
<1>6. \A r \in Frames : \A k \in 1 .. Len(stack[r]) : stack[r][k] \in Frames
  BY StackState
<1>7. \A r \in Frames : stack[r] # <<>> =>
        /\ Len(stack[r]) \in Nat /\ Len(stack[r]) \in 1 .. Len(stack[r])
        /\ \A k \in 1 .. Len(stack[r]) - 1 : k \in 1 .. Len(stack[r])
  BY NonEmptySeq DEF Inv, TypeOK
<1>8. PointersAgree'  BY <1>4, PointersKept
<1>9. InnermostInv'
  BY <1>4, <1>6, <1>7 DEF Inv, InnermostInv, Innermost
<1>10. OutsideInv'  BY <1>4 DEF Inv, OutsideInv, InStack
<1>11. Disjoint' /\ ResumesSuspended'
  BY DEF Inv, Disjoint, ResumesSuspended
<1> QED  BY <1>2, <1>5, <1>8, <1>9, <1>10, <1>11

LEMMA MoveInv ==
  ASSUME Inv, NEW d \in Gens \cup Its, NEW s \in Gens \cup Its, Move(d, s),
         d \in Gens <=> s \in Gens
  PROVE  Inv'
<1> USE GeneratorAssumption DEF Move, Consumer
<1>1. /\ own' \in [Holders -> Frames \cup {Null}]
      /\ Owned' /\ PointersAgree' /\ ResumesSuspended'
      /\ Disjoint' /\ InnermostInv' /\ OutsideInv'
  BY TransferInv
<1>2. TypeOK'  BY <1>1 DEF Inv, TypeOK, promise
<1>3. RunInv'  BY DEF Inv, RunInv, Idle
<1>4. HolderInv'
  <2>1. own'[d] = own[s] /\ own'[s] = Null
        /\ \A k \in Holders : k # d /\ k # s => own'[k] = own[k]
    BY DEF Inv, TypeOK, Holders
  <2>2. ASSUME NEW g \in Gens, own'[g] # Null
        PROVE  st[own'[g]] = "initial" \/ own'[g] \in threw
    <3>1. g \in Holders /\ g # s  BY <2>1, <2>2 DEF Holders
    <3>2. PICK k \in Gens : own'[g] = own[k]  BY <2>1, <3>1
    <3>3. call.holder # k  BY DEF Idle
    <3> QED  BY <2>2, <3>2, <3>3 DEF Inv, HolderInv
  <2>3. ASSUME NEW i \in Its, own'[i] # Null
        PROVE  st[own'[i]] = "done" \/ stack[own'[i]] # <<>>
    <3>1. i \in Holders /\ i # s  BY <2>1, <2>3 DEF Holders
    <3>2. PICK k \in Its : own'[i] = own[k]  BY <2>1, <3>1
    <3> QED  BY <2>3, <3>2 DEF Inv, HolderInv
  <2> QED  BY <2>2, <2>3 DEF Inv, HolderInv
<1> QED  BY <1>1, <1>2, <1>3, <1>4 DEF Inv

LEMMA BeginReturnInv ==
  ASSUME Inv, BeginReturn
  PROVE  Inv'
<1> USE GeneratorAssumption DEF BeginReturn
<1>1. /\ call.holder \in Gens /\ call.to \in Its /\ Root \in Frames
      /\ own[call.holder] = Root /\ ~except
      /\ stack[Root] # <<>> \/ st[Root] = "done"
  BY DEF Inv, TypeOK, RunInv, Root, Idle
<1>2. CASE own[call.to] # Null
  BY <1>1, <1>2, DropInv DEF Root
<1>3. CASE own[call.to] = Null
  <2>1. /\ own' = [own EXCEPT ![call.to] = own[call.holder], ![call.holder] = Null]
        /\ UNCHANGED <<st, promise, run, except, threw, bad, stack>>
    BY <1>3 DEF Root
  <2>2. /\ own' \in [Holders -> Frames \cup {Null}]
        /\ Owned' /\ PointersAgree' /\ ResumesSuspended'
        /\ Disjoint' /\ InnermostInv' /\ OutsideInv'
    BY <1>1, <1>3, <2>1, TransferInv
  <2>3. TypeOK'  BY <2>1, <2>2 DEF Inv, TypeOK, promise
  <2>4. RunInv'  BY <1>1, <2>1 DEF RunInv, Idle
  <2>5. HolderInv'
    <3>1. /\ own'[call.to] = Root /\ own'[call.holder] = Null
          /\ \A k \in Holders : k # call.to /\ k # call.holder => own'[k] = own[k]
      BY <1>1, <2>1 DEF Inv, TypeOK, Holders
    <3>2. ASSUME NEW g \in Gens, own'[g] # Null
          PROVE  st[own'[g]] = "initial" \/ own'[g] \in threw
      <4>1. g # call.holder /\ own'[g] = own[g]
        BY <1>1, <3>1, <3>2 DEF Holders
      <4> QED  BY <3>2, <4>1 DEF Inv, HolderInv
    <3>3. ASSUME NEW i \in Its, own'[i] # Null
          PROVE  st[own'[i]] = "done" \/ stack[own'[i]] # <<>>
      <4>1. CASE i = call.to  BY <1>1, <3>1, <4>1
      <4>2. CASE i # call.to
        <5>1. own'[i] = own[i]  BY <1>1, <3>1, <4>2 DEF Holders
        <5> QED  BY <3>3, <5>1 DEF Inv, HolderInv
      <4> QED  BY <4>1, <4>2
    <3> QED  BY <2>1, <3>2, <3>3 DEF Inv, HolderInv
  <2> QED  BY <2>2, <2>3, <2>4, <2>5 DEF Inv
<1> QED  BY <1>2, <1>3

LEMMA BeginInv ==
  ASSUME Inv, NEW g \in Gens, NEW i \in Its, Begin(g, i)
  PROVE  Inv'
<1> USE GeneratorAssumption DEF Begin, Consumer, promise
<1> DEFINE f == own[g]
<1>1. f \in Frames /\ g \in Holders  BY DEF Inv, TypeOK, Holders
<1>2. call.holder # g  BY DEF Idle
<1>3. CASE ~Resumable(f)
  <2>1. f \in threw  BY <1>1, <1>2, <1>3 DEF Inv, HolderInv, Resumable
  <2>2. bad' = [op |-> "begin", frame |-> f] /\ UNCHANGED <<own, st, promise, run,
          except, call, threw, stack>>
    BY <1>3
  <2>3. TypeOK'  BY <1>1, <2>2 DEF Inv, TypeOK
  <2>4. ResumesSuspended'  BY <2>1, <2>2 DEF ResumesSuspended
  <2> HIDE DEF Begin, Consumer
  <2>5. Owned' /\ PointersAgree'
    BY <2>2 DEF Inv, Owned, PointersAgree, Innermost
  <2>6. Disjoint' /\ InnermostInv' /\ OutsideInv' /\ RunInv' /\ HolderInv'
    BY <2>2 DEF Inv, Disjoint, InnermostInv, OutsideInv, RunInv, HolderInv,
                Root, Innermost, InStack
  <2> QED  BY <2>3, <2>4, <2>5, <2>6 DEF Inv
<1>4. CASE Resumable(f)
  <2>1. ~InStack(f)
    <3> SUFFICES ASSUME NEW r \in Frames, NEW k \in 1 .. Len(stack[r]),
                        stack[r][k] = f
                 PROVE  FALSE
      BY DEF InStack
    <3>1. st[f] \notin {"initial", "done"}  BY StackState
    <3> QED  BY <1>2, <3>1 DEF Inv, HolderInv
  <2>2. /\ call' = [op |-> "begin", holder |-> g, to |-> i]
        /\ run' = f /\ run = Null /\ f # Null
        /\ st' = [st EXCEPT ![f] = "running"]
        /\ stack' = [stack EXCEPT ![f] = <<f>>]
        /\ UNCHANGED <<own, promise, except, threw, bad>>
    BY <1>4
  <2>3. /\ st[f] = "initial" /\ own[f] = Null /\ parent[f] = Null
        /\ stack[f] = <<>> /\ top[f] = f
    <3>1. stack[f] = <<>>
      <4> SUFFICES ASSUME stack[f] # <<>> PROVE FALSE
        OBVIOUS
      <4>1. 1 \in 1 .. Len(stack[f])  BY <1>1, NonEmptySeq DEF Inv, TypeOK
      <4> QED  BY <1>1, <2>1, <4>1 DEF Inv, PointersAgree, InStack
    <3> QED  BY <1>1, <1>4, <2>1, <3>1 DEF Inv, OutsideInv, Resumable
  <2>4. Root' = f  BY <2>2 DEF Root
  <2>5. /\ stack'[f] = <<f>> /\ st'[f] = "running"
        /\ \A r \in Frames : r # f => stack'[r] = stack[r] /\ st'[r] = st[r]
    BY <1>1, <2>2 DEF Inv, TypeOK
  <2>6. Len(<<f>>) = 1 /\ <<f>>[1] = f /\ <<f>> # <<>> /\ <<f>> \in Seq(Frames)
    BY <1>1
  <2>7. \A r \in Frames : \A k \in 1 .. Len(stack[r]) :
          stack[r][k] # f /\ stack[r][k] \in Frames /\ r # f
    BY <2>1, <2>3, StackState DEF InStack
  <2>8. \A r \in Frames : stack[r] # <<>> =>
          /\ Len(stack[r]) \in Nat /\ Len(stack[r]) \in 1 .. Len(stack[r])
          /\ \A k \in 1 .. Len(stack[r]) - 1 : k \in 1 .. Len(stack[r])
    BY NonEmptySeq DEF Inv, TypeOK
  <2> HIDE DEF Begin, Consumer, f
  <2>9. TypeOK'  BY <1>1, <2>2, <2>6 DEF Inv, TypeOK, States
  <2>10. Owned'
    <3>1. \A r \in Frames : st'[r] = "free" <=> st[r] = "free"
      BY <2>3, <2>5
    <3> QED  BY <2>2, <3>1 DEF Inv, Owned
  <2>11. PointersAgree'
    <3> SUFFICES ASSUME NEW r \in Frames, stack'[r] # <<>>
                 PROVE  /\ top[r] = Innermost(stack'[r]) /\ stack'[r][1] = r
                        /\ parent[r] = Null
                        /\ \A k \in 1 .. Len(stack'[r]) - 1 :
                             /\ own[stack'[r][k]] = stack'[r][k + 1]
                             /\ st'[stack'[r][k]] = "nesting"
                             /\ parent[stack'[r][k + 1]] = stack'[r][k]
                             /\ root[stack'[r][k + 1]] = r
      BY <2>2 DEF PointersAgree, Innermost
    <3>1. CASE r = f  BY <2>3, <2>5, <2>6, <3>1 DEF Innermost
    <3>2. CASE r # f
      <4>1. stack'[r] = stack[r] /\ stack[r] # <<>>  BY <2>5, <3>2
      <4>2. \A k \in 1 .. Len(stack[r]) - 1 : st'[stack[r][k]] = st[stack[r][k]]
        BY <2>5, <2>7, <2>8, <4>1
      <4>3. /\ top[r] = Innermost(stack[r]) /\ stack[r][1] = r /\ parent[r] = Null
            /\ \A k \in 1 .. Len(stack[r]) - 1 :
                 /\ own[stack[r][k]] = stack[r][k + 1]
                 /\ st[stack[r][k]] = "nesting"
                 /\ parent[stack[r][k + 1]] = stack[r][k]
                 /\ root[stack[r][k + 1]] = r
        BY <4>1 DEF Inv, PointersAgree
      <4> QED  BY <4>1, <4>2, <4>3
    <3> QED  BY <3>1, <3>2
  <2>12. Disjoint'
    <3> SUFFICES ASSUME NEW r \in Frames, NEW q \in Frames,
                        NEW j \in 1 .. Len(stack'[r]), NEW k \in 1 .. Len(stack'[q]),
                        stack'[r][j] = stack'[q][k]
                 PROVE  r = q /\ j = k
      BY DEF Disjoint
    <3>1. CASE r = f /\ q = f  BY <2>5, <2>6, <3>1
    <3>2. CASE r = f /\ q # f  BY <2>5, <2>6, <2>7, <3>2
    <3>3. CASE r # f /\ q = f  BY <2>5, <2>6, <2>7, <3>3
    <3>4. CASE r # f /\ q # f  BY <2>5, <3>4 DEF Inv, Disjoint
    <3> QED  BY <3>1, <3>2, <3>3, <3>4
  <2>13. InnermostInv'
    <3> SUFFICES ASSUME NEW r \in Frames, stack'[r] # <<>>
                 PROVE  /\ own[Innermost(stack'[r])] = Null
                        /\ st'[Innermost(stack'[r])] =
                             IF r = f THEN "running" ELSE "yielded"
      BY <2>2, <2>4 DEF InnermostInv, Innermost
    <3>1. CASE r = f  BY <2>3, <2>5, <2>6, <3>1 DEF Innermost
    <3>2. CASE r # f
      <4>1. stack[r] # <<>> /\ stack'[r] = stack[r]  BY <2>5, <3>2
      <4>2. Innermost(stack[r]) \in Frames /\ Innermost(stack[r]) # f
        BY <2>7, <2>8, <4>1 DEF Innermost
      <4> QED  BY <2>2, <2>5, <3>2, <4>1, <4>2 DEF Inv, InnermostInv
    <3> QED  BY <3>1, <3>2
  <2>14. OutsideInv'
    <3>1. ASSUME NEW x \in Frames, ~InStack(x)' PROVE x # f /\ ~InStack(x)
      <4>1. x # f  BY <1>1, <2>5, <2>6, <3>1 DEF InStack
      <4>2. ~InStack(x)
        BY <2>5, <2>7, <3>1 DEF InStack
      <4> QED  BY <4>1, <4>2
    <3>2. \A x \in Frames : stack'[x] = <<>> => stack[x] = <<>>
      BY <2>3, <2>5
    <3> QED  BY <2>2, <2>5, <3>1, <3>2 DEF Inv, OutsideInv
  <2>15. RunInv'  BY <1>1, <2>2, <2>4, <2>5, <2>6 DEF RunInv, Innermost, Idle
  <2>16. HolderInv'
    <3>1. \A k \in Gens \cup Its : own[k] # Null /\ k # g =>
            own[k] \in Frames /\ own[k] # f
      BY <1>1 DEF Inv, TypeOK, Owned, Holders, f
    <3>2. f \notin threw  BY <2>3 DEF Inv, HolderInv
    <3>3. ASSUME NEW k \in Gens, own[k] # Null, k # g
          PROVE  st'[own[k]] = "initial" \/ own[k] \in threw
      <4>1. st'[own[k]] = st[own[k]] /\ call.holder # k
        BY <1>2, <2>5, <3>1, <3>3, <2>2 DEF Begin, Consumer, Idle
      <4> QED  BY <3>3, <4>1 DEF Inv, HolderInv
    <3>4. ASSUME NEW j \in Its, own[j] # Null
          PROVE  st'[own[j]] = "done" \/ stack'[own[j]] # <<>>
      <4>1. j # g  OBVIOUS
      <4>2. st'[own[j]] = st[own[j]] /\ stack'[own[j]] = stack[own[j]]
        BY <2>5, <3>1, <3>4, <4>1
      <4> QED  BY <3>4, <4>2 DEF Inv, HolderInv
    <3>5. \A x \in threw : st'[x] = "done"
      BY <2>5, <3>2 DEF Inv, TypeOK, HolderInv
    <3> QED  BY <2>2, <3>3, <3>4, <3>5 DEF HolderInv
  <2>17. ResumesSuspended'  BY <2>2 DEF Inv, ResumesSuspended
  <2> QED  BY <2>9, <2>10, <2>11, <2>12, <2>13, <2>14, <2>15, <2>16, <2>17 DEF Inv
<1> QED  BY <1>3, <1>4
\* Where a body runs.
LEMMA BodyFacts ==
  ASSUME Inv, NEW f \in Frames, Body(f)
  PROVE  /\ call.holder \in Gens \cup Its /\ Root \in Frames
         /\ stack[Root] \in Seq(Frames) /\ stack[Root] # <<>>
         /\ Len(stack[Root]) \in Nat /\ Len(stack[Root]) >= 1
         /\ stack[Root][1] = Root /\ f = stack[Root][Len(stack[Root])]
         /\ top[Root] = f /\ st[f] = "running" /\ own[f] = Null
         /\ \A r \in Frames : \A k \in 1 .. Len(stack[r]) :
              stack[r][k] = f => r = Root /\ k = Len(stack[Root])
         /\ parent[f] = Null => Len(stack[Root]) = 1 /\ f = Root
         /\ parent[f] # Null =>
              /\ Len(stack[Root]) > 1 /\ root[f] = Root
              /\ parent[f] = stack[Root][Len(stack[Root]) - 1]
              /\ parent[f] \in Frames /\ own[parent[f]] = f
              /\ st[parent[f]] = "nesting"
<1> USE GeneratorAssumption DEF Body
<1> DEFINE R == Root
           s == stack[R]
           n == Len(s)
<1>1. R \in Frames /\ s # <<>> /\ f = s[n] /\ call # Idle
  BY DEF Inv, RunInv, Innermost
<1>2. call.holder \in Gens \cup Its
  BY <1>1 DEF Inv, TypeOK
<1>3. s \in Seq(Frames)  BY <1>1 DEF Inv, TypeOK
<1>4. n \in Nat /\ n >= 1 /\ \A k \in 1 .. n : s[k] \in Frames
  BY <1>1, <1>3, NonEmptySeq
<1>5. PointersAgree  BY DEF Inv
<1>6. s[1] = R /\ top[R] = f /\ parent[R] = Null
  BY <1>1, <1>5 DEF PointersAgree, Innermost
<1>7. st[f] = "running" /\ own[f] = Null
  BY <1>1 DEF Inv, InnermostInv, Innermost
<1>8. \A r \in Frames : \A k \in 1 .. Len(stack[r]) : stack[r][k] = f => r = R /\ k = n
  <2>1. n \in 1 .. n  BY <1>4
  <2> QED  BY <1>1, <2>1 DEF Inv, Disjoint
<1>9. CASE n = 1
  BY <1>1, <1>2, <1>3, <1>4, <1>6, <1>7, <1>8, <1>9
<1>10. CASE n > 1
  <2>1. n - 1 \in 1 .. n - 1 /\ (n - 1) + 1 = n /\ n - 1 \in 1 .. n  BY <1>4, <1>10
  <2>2. /\ own[s[n - 1]] = f /\ st[s[n - 1]] = "nesting"
        /\ parent[f] = s[n - 1] /\ root[f] = R
    BY <1>1, <1>5, <2>1 DEF PointersAgree
  <2>3. s[n - 1] \in Frames  BY <1>4, <2>1
  <2> QED  BY <1>1, <1>2, <1>3, <1>4, <1>6, <1>7, <1>8, <1>10, <2>2, <2>3
<1>11. n = 1 \/ n > 1
  <2> HIDE DEF n
  <2> QED  BY <1>4
<1> QED  BY <1>9, <1>10, <1>11

LEMMA CatchInv ==
  ASSUME Inv, NEW f \in Frames, Catch(f)
  PROVE  Inv'
<1> USE GeneratorAssumption DEF Catch, Body, promise
<1>1. TypeOK'  BY DEF Inv, TypeOK
<1>2. Owned' /\ ResumesSuspended' /\ Disjoint' /\ OutsideInv'
  BY DEF Inv, Owned, ResumesSuspended, Disjoint, OutsideInv, InStack
<1>3. PointersAgree'  BY PointersKept
<1>4. InnermostInv' /\ RunInv' /\ HolderInv'
  BY DEF Inv, InnermostInv, RunInv, HolderInv, Innermost, Root
<1> QED  BY <1>1, <1>2, <1>3, <1>4 DEF Inv

\* A frame that is innermost in its stack changes between running and waiting
\* at a yield; only the innermost invariant looks at that.
LEMMA SwitchInv ==
  ASSUME Inv, NEW r \in Frames, stack[r] # <<>>, NEW x \in {"running", "yielded"},
         st' = [st EXCEPT ![Innermost(stack[r])] = x],
         own' = own, stack' = stack, top' = top, parent' = parent, root' = root,
         threw' = threw, bad' = bad
  PROVE  /\ st' \in [Frames -> States] /\ Owned' /\ PointersAgree'
         /\ ResumesSuspended' /\ Disjoint' /\ OutsideInv'
         /\ Innermost(stack[r]) \in Frames
         /\ \A q \in Frames : stack[q] # <<>> /\ q # r =>
              Innermost(stack[q]) # Innermost(stack[r])
         /\ \A q \in Frames : st[q] \in {"initial", "done"} => st'[q] = st[q]
<1> DEFINE f == Innermost(stack[r])
<1>1. \A q \in Frames : stack[q] # <<>> =>
        /\ Len(stack[q]) \in Nat /\ Len(stack[q]) \in 1 .. Len(stack[q])
        /\ \A k \in 1 .. Len(stack[q]) - 1 : k \in 1 .. Len(stack[q])
  BY NonEmptySeq DEF Inv, TypeOK
<1>2. /\ f \in Frames /\ st[f] \in {"nesting", "running", "yielded"} /\ InStack(f)
      /\ f = stack[r][Len(stack[r])]
  BY <1>1, StackState DEF Innermost, InStack
<1>3. \A q \in Frames : stack[q] # <<>> /\ q # r => Innermost(stack[q]) # f
  BY <1>1, <1>2 DEF Inv, Disjoint, Innermost
<1> HIDE DEF f
<1>4. st'[f] = x /\ \A q \in Frames : q # f => st'[q] = st[q]
  BY <1>2 DEF Inv, TypeOK, f
<1>5. st' \in [Frames -> States]  BY DEF Inv, TypeOK, States
<1>6. Owned'
  <2>1. \A q \in Frames : st'[q] = "free" <=> st[q] = "free"  BY <1>2, <1>4
  <2> QED  BY <2>1 DEF Inv, Owned
<1>7. PointersAgree'
  <2> SUFFICES ASSUME NEW q \in Frames, stack[q] # <<>>
               PROVE  /\ top[q] = Innermost(stack[q]) /\ stack[q][1] = q
                      /\ parent[q] = Null
                      /\ \A k \in 1 .. Len(stack[q]) - 1 :
                           /\ own[stack[q][k]] = stack[q][k + 1]
                           /\ st'[stack[q][k]] = "nesting"
                           /\ parent[stack[q][k + 1]] = stack[q][k]
                           /\ root[stack[q][k + 1]] = q
    BY DEF PointersAgree, Innermost
  <2>1. ASSUME NEW k \in 1 .. Len(stack[q]) - 1
        PROVE  st'[stack[q][k]] = st[stack[q][k]]
    <3>1. k \in 1 .. Len(stack[q]) /\ k # Len(stack[q])  BY <1>1
    <3>2. Len(stack[r]) \in 1 .. Len(stack[r])  BY <1>1
    <3>3. stack[q][k] # f  BY <1>2, <3>1, <3>2 DEF Inv, Disjoint
    <3> QED  BY <1>4, <3>1, <3>3, StackState
  <2>2. PointersAgree  BY DEF Inv
  <2> QED  BY <2>1, <2>2 DEF PointersAgree
<1>8. ResumesSuspended' /\ Disjoint'  BY DEF Inv, ResumesSuspended, Disjoint
<1>9. OutsideInv'  BY <1>2, <1>4 DEF Inv, OutsideInv, InStack
<1> QED  BY <1>2, <1>3, <1>4, <1>5, <1>6, <1>7, <1>8, <1>9 DEF f

LEMMA IncrementInv ==
  ASSUME Inv, NEW i \in Its, Increment(i)
  PROVE  Inv' /\ Resumable(top[own[i]]) /\ stack[own[i]] # <<>>
<1> USE GeneratorAssumption DEF Increment, Consumer, promise
<1> DEFINE r == own[i]
           f == Innermost(stack[r])
<1>1. r \in Frames /\ i \in Holders  BY DEF Inv, TypeOK, Holders
<1>2. stack[r] # <<>>  BY DEF Inv, HolderInv
<1>3. top[r] = f /\ st[f] = "yielded"
  BY <1>1, <1>2 DEF Inv, PointersAgree, InnermostInv
<1>4. Resumable(top[r])  BY <1>3 DEF Resumable
<1>5. /\ call' = [op |-> "next", holder |-> i, to |-> Null]
      /\ run' = f /\ run = Null /\ call = Idle
      /\ st' = [st EXCEPT ![f] = "running"]
      /\ UNCHANGED <<own, promise, except, threw, bad, stack>>
  BY <1>3, <1>4
<1>6. /\ st' \in [Frames -> States] /\ Owned' /\ PointersAgree'
      /\ ResumesSuspended' /\ Disjoint' /\ OutsideInv' /\ f \in Frames
      /\ \A q \in Frames : stack[q] # <<>> /\ q # r => Innermost(stack[q]) # f
      /\ \A q \in Frames : st[q] \in {"initial", "done"} => st'[q] = st[q]
  BY <1>1, <1>2, <1>5, SwitchInv
<1> HIDE DEF Increment, Consumer, f
<1>7. TypeOK'  BY <1>5, <1>6 DEF Inv, TypeOK
<1>8. Root' = r  BY <1>5 DEF Root
<1>9. InnermostInv'
  <2> SUFFICES ASSUME NEW q \in Frames, stack[q] # <<>>
               PROVE  /\ own[Innermost(stack[q])] = Null
                      /\ st'[Innermost(stack[q])] =
                           IF q = r THEN "running" ELSE "yielded"
    BY <1>5, <1>6, <1>8 DEF InnermostInv, Innermost
  <2>1. own[Innermost(stack[q])] = Null /\ st[Innermost(stack[q])] = "yielded"
    BY <1>5 DEF Inv, InnermostInv
  <2>2. Innermost(stack[q]) \in Frames
    BY NonEmptySeq DEF Inv, TypeOK, Innermost
  <2> QED  BY <1>5, <1>6, <2>1, <2>2 DEF Inv, TypeOK, f
<1>10. RunInv'
  BY <1>1, <1>2, <1>5, <1>6, <1>8 DEF RunInv, Innermost, Idle, f
<1>11. HolderInv'
  <2>1. \A h \in Gens \cup Its : own[h] # Null => own[h] \in Frames
    BY DEF Inv, TypeOK, Holders
  <2>2. threw \subseteq Frames  BY DEF Inv, TypeOK
  <2>3. \A g \in Gens : own[g] # Null => st'[own[g]] = "initial" \/ own[g] \in threw
    BY <1>5, <1>6, <2>1 DEF Inv, HolderInv, Idle
  <2>4. \A j \in Its : own[j] # Null => st'[own[j]] = "done" \/ stack[own[j]] # <<>>
    BY <1>6, <2>1 DEF Inv, HolderInv
  <2>5. \A x \in threw : st'[x] = "done"  BY <1>6, <2>2 DEF Inv, HolderInv
  <2> QED  BY <1>5, <2>3, <2>4, <2>5 DEF HolderInv
<1> QED  BY <1>2, <1>4, <1>6, <1>7, <1>9, <1>10, <1>11 DEF Inv

LEMMA YieldInv ==
  ASSUME Inv, NEW f \in Frames, NEW v \in Values, Yield(f, v)
  PROVE  Inv'
<1> USE GeneratorAssumption
<1>1. Body(f) /\ ~except  BY DEF Yield
<1>2. /\ Root \in Frames /\ stack[Root] # <<>> /\ f = Innermost(stack[Root])
      /\ call.holder \in Gens \cup Its
  BY <1>1, BodyFacts DEF Innermost
<1>3. /\ run' = Null /\ run = f /\ f # Null
      /\ value' = [value EXCEPT ![f] = v]
      /\ st' = [st EXCEPT ![f] = "yielded"]
      /\ call' = IF call.op = "begin" THEN call ELSE Idle
      /\ own' = own /\ top' = top /\ parent' = parent /\ root' = root
      /\ except' = except /\ bad' = bad /\ stack' = stack /\ threw' = threw
  BY <1>1 DEF Yield, BackToConsumer, Body
<1>4. /\ st' \in [Frames -> States] /\ Owned' /\ PointersAgree'
      /\ ResumesSuspended' /\ Disjoint' /\ OutsideInv'
      /\ \A q \in Frames : stack[q] # <<>> /\ q # Root => Innermost(stack[q]) # f
      /\ \A q \in Frames : st[q] \in {"initial", "done"} => st'[q] = st[q]
  BY <1>2, <1>3, SwitchInv
<1>5. TypeOK'  BY <1>3, <1>4 DEF Inv, TypeOK
<1>6. InnermostInv'
  <2> SUFFICES ASSUME NEW q \in Frames, stack[q] # <<>>
               PROVE  /\ own[Innermost(stack[q])] = Null
                      /\ st'[Innermost(stack[q])] = "yielded"
    BY <1>3 DEF InnermostInv, Innermost
  <2>1. /\ own[Innermost(stack[q])] = Null
        /\ q # Root => st[Innermost(stack[q])] = "yielded"
    BY <1>3 DEF Inv, InnermostInv
  <2>2. Innermost(stack[q]) \in Frames
    BY NonEmptySeq DEF Inv, TypeOK, Innermost
  <2> QED  BY <1>2, <1>3, <1>4, <2>1, <2>2 DEF Inv, TypeOK
<1>7. RunInv'
  <2>1. call'.op = "begin" => call' = call  BY <1>3 DEF Idle
  <2>2. call'.op # "next"  BY <1>3 DEF Inv, TypeOK, Idle
  <2> QED  BY <1>1, <1>2, <1>3, <2>1, <2>2 DEF RunInv, Root
<1>8. HolderInv'
  <2>1. \A h \in Gens \cup Its : own[h] # Null => own[h] \in Frames
    BY DEF Inv, TypeOK, Holders
  <2>2. threw \subseteq Frames  BY DEF Inv, TypeOK
  <2>3. \A g \in Gens : call.holder = g => call' = call
    BY <1>3 DEF Inv, TypeOK, Idle
  <2>4. \A g \in Gens : own[g] # Null =>
          call'.holder = g \/ st'[own[g]] = "initial" \/ own[g] \in threw
    BY <1>4, <2>1, <2>3 DEF Inv, HolderInv
  <2>5. \A j \in Its : own[j] # Null => st'[own[j]] = "done" \/ stack[own[j]] # <<>>
    BY <1>4, <2>1 DEF Inv, HolderInv
  <2>6. \A x \in threw : st'[x] = "done"  BY <1>4, <2>2 DEF Inv, HolderInv
  <2> QED  BY <1>3, <2>4, <2>5, <2>6 DEF HolderInv
<1> QED  BY <1>4, <1>5, <1>6, <1>7, <1>8 DEF Inv
\* NestedAwaiter::await_suspend extends the stack of the root by the child.
LEMMA AwaitSuspendInv ==
  ASSUME Inv, NEW f \in Frames, Body(f), NEW c \in Frames,
         st[c] \in {"free", "initial"}, AwaitSuspend(f, c), ~except,
         \A p \in Frames : own'[p] = IF p = f THEN c ELSE own[p],
         own'[call.holder] = own[call.holder],
         except' = except, call' = call, threw' = threw, bad' = bad
  PROVE  /\ stack' \in [Frames -> Seq(Frames)] /\ c # f
         /\ PointersAgree' /\ Disjoint' /\ InnermostInv' /\ OutsideInv'
         /\ RunInv' /\ ResumesSuspended'
         /\ top' = [top EXCEPT ![Root] = c] /\ root' = [root EXCEPT ![c] = Root]
         /\ ~InStack(c)
         /\ \A q \in Frames : stack'[q] = <<>> <=> stack[q] = <<>>
<1> USE GeneratorAssumption
<1> DEFINE R == Root
           s == stack[R]
           n == Len(s)
           t == Append(s, c)
<1>1. /\ call.holder \in Gens \cup Its /\ R \in Frames
      /\ s \in Seq(Frames) /\ s # <<>> /\ n \in Nat /\ n >= 1
      /\ s[1] = R /\ f = s[n] /\ top[R] = f /\ st[f] = "running" /\ own[f] = Null
      /\ \A r \in Frames : \A k \in 1 .. Len(stack[r]) :
           stack[r][k] = f => r = R /\ k = n
      /\ parent[f] = Null => f = R
      /\ parent[f] # Null => root[f] = R
  BY BodyFacts
<1>2. \A r \in Frames : \A k \in 1 .. Len(stack[r]) :
        stack[r][k] # c /\ stack[r][k] \in Frames /\ stack[r] # <<>>
  BY StackState
<1>3. ~InStack(c) /\ c # f /\ own[c] = Null /\ c # R /\ stack[c] = <<>>
  <2>1. ~InStack(c) /\ c # f  BY <1>1, <1>2 DEF InStack
  <2>2. 1 \in 1 .. n  BY <1>1
  <2>3. c # R  BY <1>1, <1>2, <2>2
  <2>4. stack[c] = <<>>
    <3> SUFFICES ASSUME stack[c] # <<>> PROVE FALSE
      OBVIOUS
    <3>1. 1 \in 1 .. Len(stack[c])  BY NonEmptySeq DEF Inv, TypeOK
    <3>2. stack[c][1] = c  BY DEF Inv, PointersAgree
    <3> QED  BY <1>2, <3>1, <3>2
  <2> QED  BY <2>1, <2>3, <2>4 DEF Inv, OutsideInv
<1>4. /\ parent' = [parent EXCEPT ![c] = f] /\ root' = [root EXCEPT ![c] = R]
      /\ top' = [top EXCEPT ![R] = c] /\ run' = c
      /\ st' = [st EXCEPT ![f] = "nesting", ![c] = "running"]
      /\ stack' = [stack EXCEPT ![R] = t]
  BY <1>1 DEF AwaitSuspend
<1>5. /\ t \in Seq(Frames) /\ t # <<>> /\ Len(t) = n + 1 /\ t[n + 1] = c
      /\ \A k \in 1 .. n : t[k] = s[k]
  BY <1>1, AppendSeq
<1>6. /\ stack'[R] = t /\ \A q \in Frames : q # R => stack'[q] = stack[q]
      /\ top'[R] = c /\ \A q \in Frames : q # R => top'[q] = top[q]
      /\ parent'[c] = f /\ root'[c] = R
      /\ \A q \in Frames : q # c => parent'[q] = parent[q] /\ root'[q] = root[q]
      /\ st'[f] = "nesting" /\ st'[c] = "running"
      /\ \A q \in Frames : q # c /\ q # f => st'[q] = st[q]
  BY <1>1, <1>3, <1>4 DEF Inv, TypeOK
<1>7. Root' = R  BY DEF Root
<1>8. PointersAgree  BY DEF Inv
<1> HIDE DEF R, s, n, t
<1>9. PointersAgree'
  <2> SUFFICES ASSUME NEW r \in Frames, stack'[r] # <<>>
               PROVE  /\ top'[r] = Innermost(stack'[r]) /\ stack'[r][1] = r
                      /\ parent'[r] = Null
                      /\ \A k \in 1 .. Len(stack'[r]) - 1 :
                           /\ own'[stack'[r][k]] = stack'[r][k + 1]
                           /\ st'[stack'[r][k]] = "nesting"
                           /\ parent'[stack'[r][k + 1]] = stack'[r][k]
                           /\ root'[stack'[r][k + 1]] = r
    BY DEF PointersAgree, Innermost
  <2>1. CASE r = R
    <3>1. top'[R] = Innermost(t) /\ t[1] = R  BY <1>1, <1>5, <1>6 DEF Innermost
    <3>2. parent'[R] = Null  BY <1>1, <1>3, <1>6, <1>8 DEF PointersAgree, s
    <3>3. ASSUME NEW k \in 1 .. Len(t) - 1
          PROVE  /\ own'[t[k]] = t[k + 1] /\ st'[t[k]] = "nesting"
                 /\ parent'[t[k + 1]] = t[k] /\ root'[t[k + 1]] = R
      <4>0. k \in 1 .. n  BY <1>1, <1>5
      <4>1. CASE k = n
        <5>1. t[k] = f /\ t[k + 1] = c  BY <1>1, <1>5, <4>0, <4>1
        <5> QED  BY <1>6, <5>1
      <4>2. CASE k # n
        <5>1. k \in 1 .. n - 1 /\ k + 1 \in 1 .. n  BY <1>1, <4>0, <4>2
        <5>2. t[k] = s[k] /\ t[k + 1] = s[k + 1]  BY <1>5, <4>0, <5>1
        <5>3. /\ own[s[k]] = s[k + 1] /\ st[s[k]] = "nesting"
              /\ parent[s[k + 1]] = s[k] /\ root[s[k + 1]] = R
          BY <1>1, <1>8, <5>1 DEF PointersAgree, s, n
        <5>4. s[k] \in Frames /\ s[k + 1] \in Frames /\ s[k] # c /\ s[k + 1] # c
          BY <1>1, <1>2, <4>0, <5>1 DEF s, n
        <5>5. s[k] # f  BY <1>1, <4>0, <4>2 DEF s, n
        <5> QED  BY <1>6, <5>2, <5>3, <5>4, <5>5
      <4> QED  BY <4>1, <4>2
    <3> QED  BY <1>6, <2>1, <3>1, <3>2, <3>3
  <2>2. CASE r # R
    <3>1. stack'[r] = stack[r] /\ stack[r] # <<>> /\ top'[r] = top[r]
      BY <1>6, <2>2
    <3>2. r # c  BY <1>3, <3>1
    <3>3. top[r] = Innermost(stack[r]) /\ stack[r][1] = r /\ parent[r] = Null
      BY <1>8, <3>1 DEF PointersAgree
    <3>4. ASSUME NEW k \in 1 .. Len(stack[r]) - 1
          PROVE  /\ own'[stack[r][k]] = stack[r][k + 1]
                 /\ st'[stack[r][k]] = "nesting"
                 /\ parent'[stack[r][k + 1]] = stack[r][k]
                 /\ root'[stack[r][k + 1]] = r
      <4>0. Len(stack[r]) \in Nat  BY <3>1, NonEmptySeq DEF Inv, TypeOK
      <4>1. k \in 1 .. Len(stack[r]) /\ k + 1 \in 1 .. Len(stack[r])  BY <4>0
      <4>2. /\ own[stack[r][k]] = stack[r][k + 1] /\ st[stack[r][k]] = "nesting"
            /\ parent[stack[r][k + 1]] = stack[r][k] /\ root[stack[r][k + 1]] = r
        BY <1>8, <3>1 DEF PointersAgree
      <4>3. /\ stack[r][k] \in Frames /\ stack[r][k + 1] \in Frames
            /\ stack[r][k] # c /\ stack[r][k + 1] # c /\ stack[r][k] # f
        BY <1>1, <1>2, <2>2, <4>1
      <4> QED  BY <1>6, <4>2, <4>3
    <3> QED  BY <1>6, <3>1, <3>2, <3>3, <3>4
  <2> QED  BY <2>1, <2>2
<1>10. Disjoint'
  <2> SUFFICES ASSUME NEW r \in Frames, NEW q \in Frames,
                      NEW j \in 1 .. Len(stack'[r]), NEW k \in 1 .. Len(stack'[q]),
                      stack'[r][j] = stack'[q][k]
               PROVE  r = q /\ j = k
    BY DEF Disjoint
  <2>1. ASSUME NEW x \in Frames, NEW l \in 1 .. Len(stack'[x])
        PROVE  \/ x = R /\ l = n + 1 /\ stack'[x][l] = c
               \/ /\ l \in 1 .. Len(stack[x]) /\ stack'[x][l] = stack[x][l]
                  /\ stack[x][l] # c
    <3>1. CASE x # R  BY <1>2, <1>6, <3>1
    <3>2. CASE x = R /\ l = n + 1  BY <1>5, <1>6, <3>2
    <3>3. CASE x = R /\ l # n + 1
      <4>1. l \in 1 .. n  BY <1>1, <1>5, <1>6, <3>3
      <4> QED  BY <1>2, <1>5, <1>6, <3>3, <4>1 DEF s, n
    <3> QED  BY <3>1, <3>2, <3>3
  <2>2. CASE stack'[r][j] = c
    <3>1. r = R /\ j = n + 1  BY <2>1, <2>2
    <3>2. stack'[q][k] = c  BY <2>2
    <3>3. q = R /\ k = n + 1  BY <2>1, <3>2
    <3> QED  BY <3>1, <3>3
  <2>3. CASE stack'[r][j] # c
    <3>1. j \in 1 .. Len(stack[r]) /\ stack'[r][j] = stack[r][j]  BY <2>1, <2>3
    <3>2. k \in 1 .. Len(stack[q]) /\ stack'[q][k] = stack[q][k]  BY <2>1, <2>3
    <3>3. stack[r][j] = stack[q][k]  BY <3>1, <3>2
    <3>4. Disjoint  BY DEF Inv
    <3> QED  BY <3>1, <3>2, <3>3, <3>4 DEF Disjoint
  <2> QED  BY <2>2, <2>3
<1>11. InnermostInv'
  <2> SUFFICES ASSUME NEW r \in Frames, stack'[r] # <<>>
               PROVE  /\ own'[Innermost(stack'[r])] = Null
                      /\ st'[Innermost(stack'[r])] =
                           IF r = R THEN "running" ELSE "yielded"
    BY <1>4, <1>7 DEF InnermostInv, Innermost
  <2>1. CASE r = R
    <3>1. Innermost(stack'[r]) = c  BY <1>5, <1>6, <2>1 DEF Innermost
    <3> QED  BY <1>3, <1>6, <2>1, <3>1
  <2>2. CASE r # R
    <3>1. stack'[r] = stack[r] /\ stack[r] # <<>>  BY <1>6, <2>2
    <3>2. Len(stack[r]) \in 1 .. Len(stack[r])  BY <3>1, NonEmptySeq DEF Inv, TypeOK
    <3>3. /\ Innermost(stack[r]) \in Frames /\ Innermost(stack[r]) # c
          /\ Innermost(stack[r]) # f
      BY <1>1, <1>2, <2>2, <3>2 DEF Innermost
    <3>4. own[Innermost(stack[r])] = Null /\ st[Innermost(stack[r])] = "yielded"
      BY <2>2, <3>1 DEF Inv, InnermostInv, R
    <3> QED  BY <1>6, <2>2, <3>1, <3>3, <3>4
  <2> QED  BY <2>1, <2>2
<1>12. OutsideInv'
  <2>1. ASSUME NEW x \in Frames, ~InStack(x)'
        PROVE  x # c /\ x # f /\ ~InStack(x)
    <3>0. n \in 1 .. n + 1 /\ n + 1 \in 1 .. n + 1 /\ t[n] = f  BY <1>1, <1>5
    <3>1. x # c /\ x # f  BY <1>1, <1>5, <1>6, <2>1, <3>0 DEF InStack
    <3>2. ASSUME NEW r \in Frames, NEW k \in 1 .. Len(stack[r]), stack[r][k] = x
          PROVE  FALSE
      <4>1. CASE r # R  BY <1>6, <2>1, <3>2, <4>1 DEF InStack
      <4>2. CASE r = R
        <5>1. k \in 1 .. n + 1 /\ t[k] = x  BY <1>1, <1>5, <3>2, <4>2 DEF s, n
        <5> QED  BY <1>1, <1>5, <1>6, <2>1, <5>1 DEF InStack
      <4> QED  BY <4>1, <4>2
    <3> QED  BY <3>1, <3>2 DEF InStack
  <2>2. ASSUME NEW x \in Frames, stack'[x] = <<>> PROVE top'[x] = x
    <3>1. x # R /\ stack[x] = <<>>  BY <1>5, <1>6, <2>2
    <3> QED  BY <1>6, <3>1 DEF Inv, OutsideInv
  <2> QED  BY <1>6, <2>1, <2>2 DEF Inv, OutsideInv
<1>13. RunInv'
  <2>1. run' # Null /\ Root' \in Frames /\ stack'[Root'] # <<>> /\ call # Idle
    BY <1>1, <1>4, <1>5, <1>6, <1>7 DEF Idle
  <2>2. run' = Innermost(stack'[Root'])  BY <1>4, <1>5, <1>6, <1>7 DEF Innermost
  <2> QED  BY <2>1, <2>2 DEF RunInv, Innermost
<1>14. ResumesSuspended'  BY DEF Inv, ResumesSuspended
<1>15. stack' \in [Frames -> Seq(Frames)]  BY <1>4, <1>5 DEF Inv, TypeOK
<1>16. \A q \in Frames : stack'[q] = <<>> <=> stack[q] = <<>>
  BY <1>1, <1>5, <1>6 DEF s
<1> QED  BY <1>3, <1>4, <1>9, <1>10, <1>11, <1>12, <1>13, <1>14, <1>15, <1>16 DEF R
LEMMA NestNewInv ==
  ASSUME Inv, NEW f \in Frames, NEW c \in Frames, NestNew(f, c)
  PROVE  Inv'
<1> USE GeneratorAssumption
<1>1. /\ Body(f) /\ ~except /\ st[c] = "free" /\ AwaitSuspend(f, c)
      /\ own' = [own EXCEPT ![f] = c]
      /\ UNCHANGED <<value, except, call, threw, bad>>
  BY DEF NestNew
<1>2. f \in Holders /\ own[f] = Null /\ call.holder \in Gens \cup Its
      /\ st[f] = "running" /\ \A h \in Holders : own[h] # c
  BY <1>1, BodyFacts DEF Inv, Owned, Holders
<1>3. /\ own' \in [Holders -> Frames \cup {Null}] /\ own'[f] = c
      /\ \A h \in Holders : h # f => own'[h] = own[h]
  BY <1>1, <1>2 DEF Inv, TypeOK
<1>4. /\ \A p \in Frames : own'[p] = IF p = f THEN c ELSE own[p]
      /\ own'[call.holder] = own[call.holder]
  BY <1>2, <1>3 DEF Holders
<1>5. /\ stack' \in [Frames -> Seq(Frames)] /\ c # f
      /\ PointersAgree' /\ Disjoint' /\ InnermostInv' /\ OutsideInv'
      /\ RunInv' /\ ResumesSuspended'
      /\ top' = [top EXCEPT ![Root] = c] /\ root' = [root EXCEPT ![c] = Root]
      /\ \A q \in Frames : stack'[q] = <<>> <=> stack[q] = <<>>
  BY <1>1, <1>4, AwaitSuspendInv
<1>6. /\ parent' = [parent EXCEPT ![c] = f] /\ run' = c
      /\ st' = [st EXCEPT ![f] = "nesting", ![c] = "running"]
  BY <1>1 DEF AwaitSuspend
<1>7. Root \in Frames  BY <1>1, BodyFacts
<1>8. TypeOK'  BY <1>1, <1>3, <1>5, <1>6, <1>7 DEF Inv, TypeOK, States
<1>9. /\ st'[f] = "nesting" /\ st'[c] = "running"
      /\ \A q \in Frames : q # c /\ q # f => st'[q] = st[q]
  BY <1>5, <1>6 DEF Inv, TypeOK
<1>10. Owned'
  <2>1. \A h, k \in Holders : own'[h] # Null /\ own'[h] = own'[k] => h = k
    BY <1>2, <1>3 DEF Inv, Owned
  <2>2. ASSUME NEW x \in Frames, x # c
        PROVE  (\E h \in Holders : own'[h] = x) <=> (\E h \in Holders : own[h] = x)
    BY <1>2, <1>3, <2>2
  <2>3. \A x \in Frames : st'[x] # "free" <=> \E h \in Holders : own'[h] = x
    BY <1>2, <1>3, <1>9, <2>2 DEF Inv, Owned
  <2> QED  BY <2>1, <2>3 DEF Owned, Holders
<1>11. HolderInv'
  <2>1. \A h \in Gens \cup Its :
          own'[h] = own[h] /\ (own[h] # Null => own[h] \in Frames /\ own[h] # c)
    BY <1>2, <1>3 DEF Inv, TypeOK, Holders
  <2>2. \A x \in Frames : x # c /\ st[x] \in {"initial", "done"} => st'[x] = st[x]
    BY <1>2, <1>9
  <2>3. \A g \in Gens : own'[g] # Null =>
          call'.holder = g \/ st'[own'[g]] = "initial" \/ own'[g] \in threw'
    BY <1>1, <2>1, <2>2 DEF Inv, HolderInv
  <2>4. ASSUME NEW i \in Its, own'[i] # Null
        PROVE  st'[own'[i]] = "done" \/ stack'[own'[i]] # <<>>
    <3>1. own'[i] = own[i] /\ own[i] \in Frames /\ own[i] # c  BY <2>1, <2>4
    <3>2. st[own[i]] = "done" \/ stack[own[i]] # <<>>
      BY <2>4, <3>1 DEF Inv, HolderInv
    <3> QED  BY <1>5, <2>2, <3>1, <3>2
  <2>5. \A x \in threw' : st'[x] = "done"
    BY <1>1, <2>2 DEF Inv, TypeOK, HolderInv
  <2> QED  BY <2>3, <2>4, <2>5 DEF HolderInv
<1> QED  BY <1>5, <1>8, <1>10, <1>11 DEF Inv

LEMMA NestGenInv ==
  ASSUME Inv, NEW f \in Frames, NEW g \in Gens, NestGen(f, g)
  PROVE  Inv'
<1> USE GeneratorAssumption
<1> DEFINE c == own[g]
<1>1. /\ Body(f) /\ ~except /\ c # Null /\ call.holder # g
      /\ UNCHANGED <<value, except, call, threw>>
  BY DEF NestGen
<1>2. /\ f \in Holders /\ g \in Holders /\ f # g /\ c \in Frames /\ own[f] = Null
      /\ call.holder \in Gens \cup Its /\ st[f] = "running"
  BY <1>1, BodyFacts DEF Inv, TypeOK, Holders
<1>3. st[c] = "initial" \/ c \in threw  BY <1>1 DEF Inv, HolderInv
<1>4. CASE ~Resumable(c)
  <2>1. bad' = [op |-> "nest", frame |-> c]
        /\ UNCHANGED <<own, st, top, parent, root, run, stack>>
    BY <1>4 DEF NestGen
  <2>2. TypeOK'  BY <1>1, <1>2, <2>1 DEF Inv, TypeOK
  <2>3. ResumesSuspended'
    BY <1>1, <1>3, <1>4, <2>1 DEF ResumesSuspended, Resumable
  <2>4. Owned' /\ Disjoint' /\ OutsideInv'
    BY <2>1 DEF Inv, Owned, Disjoint, OutsideInv, InStack
  <2>5. PointersAgree'  BY <2>1, PointersKept
  <2>6. InnermostInv' /\ RunInv' /\ HolderInv'
    BY <1>1, <2>1 DEF Inv, InnermostInv, RunInv, HolderInv, Root, Innermost
  <2> QED  BY <2>2, <2>3, <2>4, <2>5, <2>6 DEF Inv
<1>5. CASE Resumable(c)
  <2>1. /\ AwaitSuspend(f, c) /\ own' = [own EXCEPT ![f] = c, ![g] = Null]
        /\ bad' = bad
    BY <1>5 DEF NestGen
  <2>2. st[c] = "initial"  BY <1>3, <1>5 DEF Inv, HolderInv, Resumable
  <2>3. /\ own' \in [Holders -> Frames \cup {Null}] /\ own'[f] = c /\ own'[g] = Null
        /\ \A h \in Holders : h # f /\ h # g => own'[h] = own[h]
    BY <1>2, <2>1 DEF Inv, TypeOK
  <2>4. /\ \A p \in Frames : own'[p] = IF p = f THEN c ELSE own[p]
        /\ own'[call.holder] = own[call.holder]
    <3>1. \A p \in Frames : p \in Holders /\ p # g  BY DEF Holders
    <3>2. call.holder \in Holders /\ call.holder # f
      BY <1>2 DEF Holders
    <3> QED  BY <1>1, <2>3, <3>1, <3>2
  <2> HIDE DEF c
  <2>5. /\ stack' \in [Frames -> Seq(Frames)] /\ c # f
        /\ PointersAgree' /\ Disjoint' /\ InnermostInv' /\ OutsideInv'
        /\ RunInv' /\ ResumesSuspended'
        /\ top' = [top EXCEPT ![Root] = c] /\ root' = [root EXCEPT ![c] = Root]
        /\ \A q \in Frames : stack'[q] = <<>> <=> stack[q] = <<>>
    BY <1>1, <1>2, <2>1, <2>2, <2>4, AwaitSuspendInv
  <2>6. /\ parent' = [parent EXCEPT ![c] = f] /\ run' = c
        /\ st' = [st EXCEPT ![f] = "nesting", ![c] = "running"]
    BY <2>1 DEF AwaitSuspend
  <2>7. Root \in Frames  BY <1>1, BodyFacts
  <2>8. TypeOK'  BY <1>1, <1>2, <2>1, <2>3, <2>5, <2>6, <2>7 DEF Inv, TypeOK, States
  <2>9. /\ st'[f] = "nesting" /\ st'[c] = "running"
        /\ \A q \in Frames : q # c /\ q # f => st'[q] = st[q]
    BY <1>2, <2>5, <2>6 DEF Inv, TypeOK
  <2>10. \A h \in Holders : own[h] = c => h = g
    BY <1>2 DEF Inv, Owned, c
  <2>11. Owned'
    <3>1. \A h, k \in Holders : own'[h] # Null /\ own'[h] = own'[k] => h = k
      BY <1>2, <2>3, <2>10 DEF Inv, Owned
    <3>2. ASSUME NEW x \in Frames, x # c
          PROVE  (\E h \in Holders : own'[h] = x) <=> (\E h \in Holders : own[h] = x)
      BY <1>2, <2>3, <3>2 DEF c
    <3>3. \A x \in Frames : st'[x] # "free" <=> \E h \in Holders : own'[h] = x
      BY <1>2, <2>3, <2>9, <3>2 DEF Inv, Owned
    <3> QED  BY <3>1, <3>3 DEF Owned, Holders
  <2>12. HolderInv'
    <3>1. \A h \in Gens \cup Its : own'[h] # Null =>
            own'[h] = own[h] /\ own[h] \in Frames /\ own[h] # c
      BY <1>2, <2>3, <2>10 DEF Inv, TypeOK, Holders
    <3>2. \A x \in Frames : x # c /\ st[x] \in {"initial", "done"} => st'[x] = st[x]
      BY <1>2, <2>9
    <3>3. \A k \in Gens : own'[k] # Null =>
            call'.holder = k \/ st'[own'[k]] = "initial" \/ own'[k] \in threw'
      BY <1>1, <3>1, <3>2 DEF Inv, HolderInv
    <3>4. \A i \in Its : own'[i] # Null =>
            st'[own'[i]] = "done" \/ stack'[own'[i]] # <<>>
      BY <2>5, <3>1, <3>2 DEF Inv, HolderInv
    <3>5. \A x \in threw' : st'[x] = "done"
      BY <1>1, <2>2, <3>2 DEF Inv, TypeOK, HolderInv
    <3> QED  BY <3>3, <3>4, <3>5 DEF HolderInv
  <2> QED  BY <2>5, <2>8, <2>11, <2>12 DEF Inv
<1> QED  BY <1>4, <1>5
\* A root ends.
LEMMA FinalRootInv ==
  ASSUME Inv, NEW f \in Frames, Body(f), NEW thrown \in BOOLEAN,
         FinalRoot(f, thrown)
  PROVE  Inv' /\ f = Root /\ Len(stack[Root]) = 1
<1> USE GeneratorAssumption
<1>1. /\ call.holder \in Gens \cup Its /\ Root = f /\ own[f] = Null
      /\ stack[f] # <<>> /\ Len(stack[f]) = 1 /\ stack[f][1] = f
      /\ top[f] = f /\ st[f] = "running" /\ parent[f] = Null
      /\ \A r \in Frames : \A k \in 1 .. Len(stack[r]) : stack[r][k] = f => r = f
  BY BodyFacts DEF FinalRoot
<1>2. /\ st' = [st EXCEPT ![f] = "done"] /\ stack' = [stack EXCEPT ![f] = <<>>]
      /\ except' = FALSE /\ run' = Null /\ run = f /\ f # Null
      /\ call' = IF call.op = "begin" /\ ~thrown THEN call ELSE Idle
      /\ threw' = IF call.op = "begin" /\ thrown THEN threw \cup {f} ELSE threw
      /\ own' = own /\ value' = value /\ top' = top /\ parent' = parent
      /\ root' = root /\ bad' = bad /\ bad = Fine
  BY <1>1 DEF FinalRoot, BackToConsumer, promise, Body
<1>3. /\ st'[f] = "done" /\ stack'[f] = <<>>
      /\ \A q \in Frames : q # f => st'[q] = st[q] /\ stack'[q] = stack[q]
  BY <1>2 DEF Inv, TypeOK
<1>4. own[call.holder] = f /\ call.holder \in Holders
      /\ \A h \in Holders : own[h] = f => h = call.holder
  BY <1>1 DEF Inv, Owned, Holders, Root
<1>5. TypeOK'
  <2>1. <<>> \in Seq(Frames)  OBVIOUS
  <2> QED  BY <1>2, <2>1 DEF Inv, TypeOK, States
<1>6. Owned'
  <2>1. \A q \in Frames : st'[q] = "free" <=> st[q] = "free"  BY <1>1, <1>3
  <2> QED  BY <1>2, <2>1 DEF Inv, Owned
<1>7. \A r \in Frames : stack'[r] # <<>> =>
        /\ r # f /\ stack'[r] = stack[r] /\ stack[r] # <<>>
        /\ Len(stack[r]) \in Nat /\ Len(stack[r]) \in 1 .. Len(stack[r])
        /\ \A k \in 1 .. Len(stack[r]) - 1 : k \in 1 .. Len(stack[r])
        /\ \A k \in 1 .. Len(stack[r]) : stack[r][k] \in Frames /\ stack[r][k] # f
  BY <1>1, <1>3, NonEmptySeq DEF Inv, TypeOK
<1>8. PointersAgree'
  <2> SUFFICES ASSUME NEW r \in Frames, stack'[r] # <<>>
               PROVE  /\ top[r] = Innermost(stack'[r]) /\ stack'[r][1] = r
                      /\ parent[r] = Null
                      /\ \A k \in 1 .. Len(stack'[r]) - 1 :
                           /\ own[stack'[r][k]] = stack'[r][k + 1]
                           /\ st'[stack'[r][k]] = "nesting"
                           /\ parent[stack'[r][k + 1]] = stack'[r][k]
                           /\ root[stack'[r][k + 1]] = r
    BY <1>2 DEF PointersAgree, Innermost
  <2>1. \A k \in 1 .. Len(stack[r]) - 1 : st'[stack[r][k]] = st[stack[r][k]]
    BY <1>3, <1>7
  <2>2. PointersAgree /\ stack[r] # <<>> /\ stack'[r] = stack[r]  BY <1>7 DEF Inv
  <2> QED  BY <2>1, <2>2 DEF PointersAgree
<1>9. Disjoint'
  <2> SUFFICES ASSUME NEW r \in Frames, NEW q \in Frames,
                      NEW j \in 1 .. Len(stack'[r]), NEW k \in 1 .. Len(stack'[q]),
                      stack'[r][j] = stack'[q][k]
               PROVE  r = q /\ j = k
    BY DEF Disjoint
  <2>1. stack'[r] # <<>> /\ stack'[q] # <<>>  OBVIOUS
  <2>2. stack'[r] = stack[r] /\ stack'[q] = stack[q]  BY <1>7, <2>1
  <2>3. Disjoint  BY DEF Inv
  <2> QED  BY <2>2, <2>3 DEF Disjoint
<1>10. InnermostInv'
  <2> SUFFICES ASSUME NEW r \in Frames, stack'[r] # <<>>
               PROVE  /\ own[Innermost(stack[r])] = Null
                      /\ st'[Innermost(stack[r])] = "yielded"
    BY <1>2, <1>7 DEF InnermostInv, Innermost
  <2>1. Innermost(stack[r]) \in Frames /\ Innermost(stack[r]) # f
    BY <1>7 DEF Innermost
  <2> QED  BY <1>1, <1>3, <1>7, <2>1 DEF Inv, InnermostInv
<1>11. OutsideInv'
  <2>1. ASSUME NEW x \in Frames, x # f, InStack(x) PROVE InStack(x)'
    <3>1. PICK r \in Frames : \E k \in 1 .. Len(stack[r]) : stack[r][k] = x
      BY <2>1 DEF InStack
    <3>2. PICK k \in 1 .. Len(stack[r]) : stack[r][k] = x  BY <3>1
    <3>3. r # f
      <4> SUFFICES ASSUME r = f PROVE FALSE
        OBVIOUS
      <4>1. k = 1  BY <1>1
      <4> QED  BY <1>1, <2>1, <3>2, <4>1
    <3> QED  BY <1>3, <3>2, <3>3 DEF InStack
  <2>2. ASSUME NEW x \in Frames, ~InStack(x)'
        PROVE  st'[x] \in {"free", "initial", "done"} /\ own[x] = Null
                 /\ parent[x] = Null
    BY <1>1, <1>3, <2>1, <2>2 DEF Inv, OutsideInv
  <2>3. \A x \in Frames : stack'[x] = <<>> => top[x] = x
    BY <1>1, <1>3 DEF Inv, OutsideInv
  <2> QED  BY <1>2, <2>2, <2>3 DEF OutsideInv
<1>12. RunInv'
  <2>1. call'.op # "next"  BY <1>2 DEF Inv, TypeOK, Idle
  <2>2. call'.op = "begin" => Root' = f  BY <1>2, <1>4 DEF Idle, Root
  <2> QED  BY <1>2, <1>3, <2>1, <2>2 DEF RunInv
<1>13. HolderInv'
  <2>1. ASSUME NEW g \in Gens, own[g] # Null
        PROVE  call'.holder = g \/ st'[own[g]] = "initial" \/ own[g] \in threw'
    <3>1. g \in Holders /\ own[g] \in Frames  BY <2>1 DEF Inv, TypeOK, Holders
    <3>2. CASE own[g] = f
      <4>1. g = call.holder /\ call.op = "begin"
        BY <1>4, <3>1, <3>2 DEF Inv, TypeOK, Idle
      <4> QED  BY <1>2, <3>2, <4>1
    <3>3. CASE own[g] # f
      <4>1. g # call.holder  BY <1>4, <3>3
      <4> QED  BY <1>2, <1>3, <2>1, <3>1, <3>3, <4>1 DEF Inv, HolderInv
    <3> QED  BY <3>2, <3>3
  <2>2. ASSUME NEW i \in Its, own[i] # Null
        PROVE  st'[own[i]] = "done" \/ stack'[own[i]] # <<>>
    <3>1. own[i] \in Frames  BY <2>2 DEF Inv, TypeOK, Holders
    <3>2. st[own[i]] = "done" \/ stack[own[i]] # <<>>
      BY <2>2 DEF Inv, HolderInv
    <3> QED  BY <1>3, <3>1, <3>2
  <2>3. ASSUME NEW x \in threw' PROVE st'[x] = "done"
    BY <1>2, <1>3 DEF Inv, TypeOK, HolderInv
  <2> QED  BY <1>2, <2>1, <2>2, <2>3 DEF HolderInv
<1>14. ResumesSuspended'  BY <1>2 DEF ResumesSuspended, Fine
<1> QED  BY <1>1, <1>5, <1>6, <1>8, <1>9, <1>10, <1>11, <1>12, <1>13, <1>14 DEF Inv
\* A nested generator ends: its parent goes on, the frame is gone.
LEMMA FinalNestedInv ==
  ASSUME Inv, NEW f \in Frames, Body(f), NEW thrown \in BOOLEAN,
         FinalNested(f, thrown)
  PROVE  Inv'
<1> USE GeneratorAssumption
<1> DEFINE R == Root
           s == stack[R]
           n == Len(s)
           t == SubSeq(s, 1, n - 1)
           p == parent[f]
<1>1. /\ call.holder \in Gens \cup Its /\ R \in Frames
      /\ s \in Seq(Frames) /\ s # <<>> /\ n \in Nat /\ n > 1
      /\ s[1] = R /\ f = s[n] /\ st[f] = "running" /\ own[f] = Null
      /\ \A r \in Frames : \A k \in 1 .. Len(stack[r]) :
           stack[r][k] = f => r = R /\ k = n
      /\ root[f] = R /\ p = s[n - 1] /\ p \in Frames /\ own[p] = f
      /\ st[p] = "nesting"
  BY BodyFacts DEF FinalNested
<1>2. /\ run' = p /\ except' = thrown /\ own' = [own EXCEPT ![p] = Null]
      /\ st' = [st EXCEPT ![f] = "free", ![p] = "running"]
      /\ value' = [value EXCEPT ![f] = Null]
      /\ top' = [top EXCEPT ![R] = p, ![f] = f]
      /\ parent' = [parent EXCEPT ![f] = Null]
      /\ root' = [root EXCEPT ![f] = Null]
      /\ threw' = threw \ {f} /\ stack' = [stack EXCEPT ![R] = t]
      /\ call' = call /\ bad' = bad /\ bad = Fine /\ call # Idle
  BY <1>1 DEF FinalNested, Body, Inv, RunInv
<1>3. /\ t \in Seq(Frames) /\ t # <<>> /\ Len(t) = n - 1
      /\ \A k \in 1 .. n - 1 : t[k] = s[k]
  BY <1>1, FrontSeq
<1>4. f # p /\ f # R /\ p \in Holders /\ call.holder \in Holders /\ call.holder # p
  <2>1. 1 \in 1 .. n /\ 1 # n  BY <1>1
  <2>2. f # R  BY <1>1, <2>1
  <2> QED  BY <1>1, <2>2 DEF Holders
<1>5. /\ \A r \in Frames : \A k \in 1 .. Len(stack[r]) : stack[r][k] \in Frames
      /\ \A r \in Frames : \A k \in 1 .. Len(stack[r]) :
           stack[r][k] = p => r = R /\ k = n - 1
  <2>1. n - 1 \in 1 .. n  BY <1>1
  <2>2. Disjoint  BY DEF Inv
  <2> QED  BY <1>1, <2>1, <2>2, StackState DEF Disjoint
<1> HIDE DEF R, s, n, t, p
<1>6. /\ stack'[R] = t /\ \A q \in Frames : q # R => stack'[q] = stack[q]
      /\ top'[R] = p /\ top'[f] = f
      /\ \A q \in Frames : q # R /\ q # f => top'[q] = top[q]
      /\ parent'[f] = Null /\ root'[f] = Null
      /\ \A q \in Frames : q # f => parent'[q] = parent[q] /\ root'[q] = root[q]
      /\ st'[f] = "free" /\ st'[p] = "running"
      /\ \A q \in Frames : q # p /\ q # f => st'[q] = st[q]
      /\ own'[p] = Null /\ \A h \in Holders : h # p => own'[h] = own[h]
  BY <1>1, <1>2, <1>4 DEF Inv, TypeOK
<1>7. Root' = R  BY <1>2, <1>4, <1>6 DEF Root, R
<1>8. PointersAgree  BY DEF Inv
<1>9. \A q \in Frames : q \in Holders  BY DEF Holders
<1>10. TypeOK'
  BY <1>1, <1>2, <1>3, <1>4 DEF Inv, TypeOK, States
<1>11. Owned'
  <2>1. \A h, k \in Holders : own'[h] # Null /\ own'[h] = own'[k] => h = k
    BY <1>4, <1>6 DEF Inv, Owned
  <2>2. \A h \in Holders : own[h] = f => h = p
    BY <1>1, <1>4 DEF Inv, Owned
  <2>3. ASSUME NEW x \in Frames
        PROVE  st'[x] # "free" <=> \E h \in Holders : own'[h] = x
    <3>1. CASE x = f  BY <1>4, <1>6, <2>2, <3>1
    <3>2. CASE x # f
      <4>1. (\E h \in Holders : own'[h] = x) <=> (\E h \in Holders : own[h] = x)
        BY <1>1, <1>4, <1>6, <3>2
      <4> QED  BY <1>1, <1>6, <3>2, <4>1 DEF Inv, Owned
    <3> QED  BY <3>1, <3>2
  <2> QED  BY <2>1, <2>3 DEF Owned, Holders
<1>12. PointersAgree'
  <2> SUFFICES ASSUME NEW r \in Frames, stack'[r] # <<>>
               PROVE  /\ top'[r] = Innermost(stack'[r]) /\ stack'[r][1] = r
                      /\ parent'[r] = Null
                      /\ \A k \in 1 .. Len(stack'[r]) - 1 :
                           /\ own'[stack'[r][k]] = stack'[r][k + 1]
                           /\ st'[stack'[r][k]] = "nesting"
                           /\ parent'[stack'[r][k + 1]] = stack'[r][k]
                           /\ root'[stack'[r][k + 1]] = r
    BY DEF PointersAgree, Innermost
  <2>1. CASE r = R
    <3>0. 1 \in 1 .. n - 1 /\ n - 1 \in 1 .. n - 1  BY <1>1
    <3>1. t[1] = R /\ Innermost(t) = p  BY <1>1, <1>3, <3>0 DEF Innermost
    <3>2. parent[R] = Null  BY <1>1, <1>8 DEF PointersAgree, s
    <3>3. ASSUME NEW k \in 1 .. Len(t) - 1
          PROVE  /\ own'[t[k]] = t[k + 1] /\ st'[t[k]] = "nesting"
                 /\ parent'[t[k + 1]] = t[k] /\ root'[t[k + 1]] = R
      <4>1. /\ k \in 1 .. n - 1 /\ k + 1 \in 1 .. n - 1 /\ k \in 1 .. n
            /\ k + 1 \in 1 .. n /\ k # n /\ k + 1 # n /\ k # n - 1
        <5>1. Len(t) = n - 1 /\ n \in Nat /\ n > 1  BY <1>1, <1>3
        <5>2. k \in 1 .. n - 2  BY <5>1
        <5> QED  BY <5>1, <5>2
      <4>2. t[k] = s[k] /\ t[k + 1] = s[k + 1]  BY <1>3, <4>1
      <4>3. /\ own[s[k]] = s[k + 1] /\ st[s[k]] = "nesting"
            /\ parent[s[k + 1]] = s[k] /\ root[s[k + 1]] = R
        BY <1>1, <1>8, <4>1 DEF PointersAgree, s, n
      <4>4. s[k] \in Frames /\ s[k + 1] \in Frames  BY <1>1, <1>5, <4>1 DEF s, n
      <4>5. s[k] # f /\ s[k + 1] # f /\ s[k] # p  BY <1>1, <1>5, <4>1 DEF s, n
      <4> QED  BY <1>6, <1>9, <4>2, <4>3, <4>4, <4>5
    <3> QED  BY <1>4, <1>6, <2>1, <3>1, <3>2, <3>3
  <2>2. CASE r # R
    <3>1. stack'[r] = stack[r] /\ stack[r] # <<>>  BY <1>6, <2>2
    <3>2. top[r] = Innermost(stack[r]) /\ stack[r][1] = r /\ parent[r] = Null
      BY <1>8, <3>1 DEF PointersAgree
    <3>3. Len(stack[r]) \in Nat /\ 1 \in 1 .. Len(stack[r])
      BY <3>1, NonEmptySeq DEF Inv, TypeOK
    <3>4. r # f  BY <1>1, <2>2, <3>2, <3>3
    <3>5. ASSUME NEW k \in 1 .. Len(stack[r]) - 1
          PROVE  /\ own'[stack[r][k]] = stack[r][k + 1]
                 /\ st'[stack[r][k]] = "nesting"
                 /\ parent'[stack[r][k + 1]] = stack[r][k]
                 /\ root'[stack[r][k + 1]] = r
      <4>1. k \in 1 .. Len(stack[r]) /\ k + 1 \in 1 .. Len(stack[r])  BY <3>3
      <4>2. /\ own[stack[r][k]] = stack[r][k + 1] /\ st[stack[r][k]] = "nesting"
            /\ parent[stack[r][k + 1]] = stack[r][k] /\ root[stack[r][k + 1]] = r
        BY <1>8, <3>1 DEF PointersAgree
      <4>3. /\ stack[r][k] \in Frames /\ stack[r][k + 1] \in Frames
            /\ stack[r][k] # f /\ stack[r][k + 1] # f /\ stack[r][k] # p
        BY <1>1, <1>5, <2>2, <4>1
      <4> QED  BY <1>6, <1>9, <4>2, <4>3
    <3> QED  BY <1>6, <2>2, <3>1, <3>2, <3>4, <3>5
  <2> QED  BY <2>1, <2>2
<1>13. \A x \in Frames : \A l \in 1 .. Len(stack'[x]) :
         /\ l \in 1 .. Len(stack[x]) /\ stack'[x][l] = stack[x][l]
         /\ stack[x][l] # f
  <2> SUFFICES ASSUME NEW x \in Frames, NEW l \in 1 .. Len(stack'[x])
               PROVE  /\ l \in 1 .. Len(stack[x]) /\ stack'[x][l] = stack[x][l]
                      /\ stack[x][l] # f
    OBVIOUS
  <2>1. CASE x # R  BY <1>1, <1>6, <2>1
  <2>2. CASE x = R
    <3>1. l \in 1 .. n - 1 /\ l \in 1 .. n /\ l # n  BY <1>1, <1>3, <1>6, <2>2
    <3> QED  BY <1>1, <1>3, <1>6, <2>2, <3>1 DEF s, n
  <2> QED  BY <2>1, <2>2
<1>14. Disjoint'
  <2> SUFFICES ASSUME NEW r \in Frames, NEW q \in Frames,
                      NEW j \in 1 .. Len(stack'[r]), NEW k \in 1 .. Len(stack'[q]),
                      stack'[r][j] = stack'[q][k]
               PROVE  r = q /\ j = k
    BY DEF Disjoint
  <2>1. j \in 1 .. Len(stack[r]) /\ stack'[r][j] = stack[r][j]  BY <1>13
  <2>2. k \in 1 .. Len(stack[q]) /\ stack'[q][k] = stack[q][k]  BY <1>13
  <2>3. stack[r][j] = stack[q][k]  BY <2>1, <2>2
  <2>4. Disjoint  BY DEF Inv
  <2> QED  BY <2>1, <2>2, <2>3, <2>4 DEF Disjoint
<1>15. InnermostInv'
  <2> SUFFICES ASSUME NEW r \in Frames, stack'[r] # <<>>
               PROVE  /\ own'[Innermost(stack'[r])] = Null
                      /\ st'[Innermost(stack'[r])] =
                           IF r = R THEN "running" ELSE "yielded"
    BY <1>1, <1>2, <1>7 DEF InnermostInv, Innermost
  <2>1. CASE r = R
    <3>1. n - 1 \in 1 .. n - 1  BY <1>1
    <3>2. Innermost(stack'[r]) = p  BY <1>1, <1>3, <1>6, <2>1, <3>1 DEF Innermost
    <3> QED  BY <1>6, <2>1, <3>2
  <2>2. CASE r # R
    <3>1. stack'[r] = stack[r] /\ stack[r] # <<>>  BY <1>6, <2>2
    <3>2. Len(stack[r]) \in 1 .. Len(stack[r])  BY <3>1, NonEmptySeq DEF Inv, TypeOK
    <3>3. /\ Innermost(stack[r]) \in Frames /\ Innermost(stack[r]) # p
          /\ Innermost(stack[r]) # f
      BY <1>1, <1>5, <2>2, <3>2 DEF Innermost
    <3>4. own[Innermost(stack[r])] = Null /\ st[Innermost(stack[r])] = "yielded"
      BY <2>2, <3>1 DEF Inv, InnermostInv, R
    <3> QED  BY <1>6, <1>9, <2>2, <3>1, <3>3, <3>4
  <2> QED  BY <2>1, <2>2
<1>16. OutsideInv'
  <2>1. ASSUME NEW x \in Frames, x # f, InStack(x) PROVE InStack(x)'
    <3>1. PICK r \in Frames : \E k \in 1 .. Len(stack[r]) : stack[r][k] = x
      BY <2>1 DEF InStack
    <3>2. PICK k \in 1 .. Len(stack[r]) : stack[r][k] = x  BY <3>1
    <3>3. CASE r # R  BY <1>6, <3>2, <3>3 DEF InStack
    <3>4. CASE r = R
      <4>1. k \in 1 .. n /\ s[k] = x  BY <3>2, <3>4 DEF s, n
      <4>2. k # n  BY <1>1, <2>1, <4>1
      <4>3. k \in 1 .. n - 1  BY <1>1, <4>1, <4>2
      <4>4. k \in 1 .. Len(t) /\ t[k] = x  BY <1>3, <4>1, <4>3
      <4> QED  BY <1>1, <1>6, <4>4 DEF InStack
    <3> QED  BY <3>3, <3>4
  <2>2. InStack(p)
    <3>1. n - 1 \in 1 .. n  BY <1>1
    <3> QED  BY <1>1, <3>1 DEF InStack, s, n
  <2>3. ASSUME NEW x \in Frames, ~InStack(x)'
        PROVE  st'[x] \in {"free", "initial", "done"} /\ own'[x] = Null
                 /\ parent'[x] = Null
    <3>1. CASE x = f  BY <1>1, <1>4, <1>6, <1>9, <3>1
    <3>2. CASE x # f
      <4>1. ~InStack(x)  BY <2>1, <2>3, <3>2
      <4>2. x # p  BY <2>2, <4>1
      <4> QED  BY <1>6, <1>9, <3>2, <4>1, <4>2 DEF Inv, OutsideInv
    <3> QED  BY <3>1, <3>2
  <2>4. ASSUME NEW x \in Frames, stack'[x] = <<>> PROVE top'[x] = x
    <3>1. x # R /\ stack[x] = <<>>  BY <1>3, <1>6, <2>4
    <3> QED  BY <1>6, <3>1 DEF Inv, OutsideInv
  <2> QED  BY <2>3, <2>4 DEF OutsideInv
<1>17. RunInv'
  <2>1. run' # Null /\ Root' \in Frames /\ stack'[Root'] # <<>> /\ call' # Idle
    BY <1>1, <1>2, <1>3, <1>6, <1>7
  <2>2. n - 1 \in 1 .. n - 1  BY <1>1
  <2>3. run' = Innermost(stack'[Root'])
    BY <1>1, <1>2, <1>3, <1>6, <1>7, <2>2 DEF Innermost
  <2> QED  BY <2>1, <2>3 DEF RunInv, Innermost
<1>18. HolderInv'
  <2>1. \A h \in Gens \cup Its :
          own'[h] = own[h] /\ (own[h] # Null => own[h] \in Frames /\ own[h] # f)
    <3>1. \A h \in Gens \cup Its : h \in Holders /\ h # p  BY <1>1 DEF Holders
    <3>2. \A h \in Holders : own[h] = f => h = p
      BY <1>1, <1>4 DEF Inv, Owned
    <3> QED  BY <1>6, <3>1, <3>2 DEF Inv, TypeOK
  <2>2. \A x \in Frames : x # f /\ st[x] \in {"initial", "done"} => st'[x] = st[x]
    BY <1>1, <1>6
  <2>3. ASSUME NEW g \in Gens, own[g] # Null
        PROVE  call.holder = g \/ st'[own[g]] = "initial" \/ own[g] \in threw \ {f}
    BY <2>1, <2>2, <2>3 DEF Inv, HolderInv
  <2>4. ASSUME NEW i \in Its, own[i] # Null
        PROVE  st'[own[i]] = "done" \/ stack'[own[i]] # <<>>
    <3>1. own[i] \in Frames /\ own[i] # f  BY <2>1, <2>4
    <3>2. st[own[i]] = "done" \/ stack[own[i]] # <<>>
      BY <2>4 DEF Inv, HolderInv
    <3> QED  BY <1>3, <1>6, <2>2, <3>1, <3>2
  <2>5. ASSUME NEW x \in threw \ {f} PROVE st'[x] = "done"
    BY <2>2 DEF Inv, TypeOK, HolderInv
  <2> QED  BY <1>2, <2>1, <2>3, <2>4, <2>5 DEF HolderInv
<1>19. ResumesSuspended'  BY <1>2 DEF ResumesSuspended, Fine
<1> QED  BY <1>10, <1>11, <1>12, <1>14, <1>15, <1>16, <1>17, <1>18, <1>19 DEF Inv

\* One case for each disjunct of Next.
LEMMA NextInv ==
  ASSUME Inv, [Next]_vars
  PROVE  Inv' \/ SelfMoved'
<1>1. CASE \E g \in Gens, f \in Frames : Create(g, f)  BY <1>1, CreateInv
<1>2. CASE \E g \in Gens, i \in Its : Begin(g, i)  BY <1>2, BeginInv
<1>3. CASE BeginReturn  BY <1>3, BeginReturnInv
<1>4. CASE \E i \in Its : Increment(i)  BY <1>4, IncrementInv
<1>5. CASE \E h \in Gens \cup Its : Drop(h)
  <2>1. PICK h \in Gens \cup Its : Drop(h)  BY <1>5
  <2>2. run = Null /\ call = Idle /\ call' = Idle /\ ~except
    BY <2>1 DEF Drop, Consumer, Inv, RunInv
  <2> QED  BY <2>1, <2>2, DropInv DEF Drop, Consumer
<1>6. CASE \E d, s \in Gens : Move(d, s) \/ MoveAssign(d, s)
  BY <1>6, MoveInv, MoveAssignInv
<1>7. CASE \E d, s \in Its : Move(d, s)
  BY <1>7, MoveInv, GeneratorAssumption
<1>8. CASE \E f \in Frames, v \in Values : Yield(f, v)  BY <1>8, YieldInv
<1>9. CASE \E f, c \in Frames : NestNew(f, c)  BY <1>9, NestNewInv
<1>10. CASE \E f \in Frames, g \in Gens : NestGen(f, g)  BY <1>10, NestGenInv
<1>11. CASE \E f \in Frames : Return(f) \/ Throw(f) \/ Catch(f)
  BY <1>11, FinalRootInv, FinalNestedInv, CatchInv DEF Return, Throw, Final
<1>12. CASE UNCHANGED vars
  BY <1>12 DEF vars, promise, Inv, TypeOK, Owned, PointersAgree,
     ResumesSuspended, Disjoint, InnermostInv, OutsideInv, InStack, RunInv,
     HolderInv, Root, Innermost
<1>13. CASE \E g \in Gens : SelfMove(g)  BY <1>13, SelfMoveInv
<1> QED
  BY <1>1, <1>2, <1>3, <1>4, <1>5, <1>6, <1>7, <1>8, <1>9, <1>10, <1>11, <1>12,
     <1>13 DEF Next

\* Nothing is defined after that, and the model ends.
LEMMA SelfMovedEnds ==
  ASSUME SelfMoved, [Next]_vars
  PROVE  UNCHANGED vars
<1>1. bad # Fine  BY DEF SelfMoved, Fine
<1>2. ~Next
  <2>1. ~Consumer /\ \A f \in Frames : ~Body(f)  BY <1>1 DEF Consumer, Body
  <2> QED
    BY <1>1, <2>1 DEF Next, Create, Begin, BeginReturn, Increment, Drop, SelfMove, Move,
       MoveAssign, Yield, NestNew, NestGen, Return, Throw, Catch
<1> QED  BY <1>2

\* In every reachable state the inductive invariant holds, or a Generator has
\* been moved to itself in the last step.
THEOREM Invariance == Spec => [](Inv \/ SelfMoved)
<1>1. Inv /\ [Next]_vars => Inv' \/ SelfMoved'  BY NextInv
<1>2. SelfMoved /\ [Next]_vars => SelfMoved'
  <2> SUFFICES ASSUME SelfMoved, UNCHANGED vars PROVE SelfMoved'
    BY SelfMovedEnds
  <2> QED
    BY DEF vars, promise, SelfMoved, TypeOK, OwnedOnce, PointersAgree, ResumesSuspended,
       Innermost
<1> QED  BY InitInv, <1>1, <1>2, PTL DEF Spec

\* Every promise field keeps its type, and info_ is null or names frames.
THEOREM TypeCorrect == Spec => []TypeOK
<1>1. Inv \/ SelfMoved => TypeOK  BY DEF Inv, SelfMoved
<1> QED  BY Invariance, <1>1, PTL

\* ~Generator, the moves, begin() and the awaiters leave every coroutine
\* frame with exactly one owner, and no owner with a destroyed frame, as long
\* as no Generator is moved to itself.
THEOREM FramesOwnedOnce == Spec => []OwnedOnce
<1>1. Inv \/ SelfMoved => OwnedOnce  BY DEF Inv, SelfMoved, Owned, OwnedOnce
<1> QED  BY Invariance, <1>1, PTL

\* NestedAwaiter and FinalAwaiter keep top_ and info_ true to the nesting.
THEOREM NestingPointers == Spec => []PointersAgree
<1>1. Inv \/ SelfMoved => PointersAgree  BY DEF Inv, SelfMoved
<1> QED  BY Invariance, <1>1, PTL

\* Only begin() and elements_of on a Generator whose begin() threw resume a
\* coroutine that is not suspended; operator++ never does.
THEOREM OnlyThrownResumedWrongly == Spec => []ResumesSuspended
<1>1. Inv \/ SelfMoved => ResumesSuspended  BY DEF Inv, SelfMoved
<1> QED  BY Invariance, <1>1, PTL

---------------------------------------------------------------------------
(* Every step of the coroutines is a step of the abstract stream. *)

\* The consumer sees nothing of a stack that a step leaves alone.
LEMMA SeenKept ==
  ASSUME UNCHANGED <<stack, value, top, run>>, run = Null \/ Root' = Root
  PROVE  Seen' = Seen
BY DEF Seen

\* What a stack shows does not depend on the frames of another one.
LEMMA TopInStack ==
  ASSUME Inv, NEW r \in Frames, stack[r] # <<>>
  PROVE  /\ top[r] = stack[r][Len(stack[r])] /\ top[r] \in Frames
         /\ Len(stack[r]) \in 1 .. Len(stack[r])
<1>1. stack[r] \in Seq(Frames)  BY DEF Inv, TypeOK
<1> QED  BY <1>1, NonEmptySeq DEF Inv, PointersAgree, Innermost

LEMMA BeginStep ==
  ASSUME Inv, NEW g \in Gens, NEW i \in Its, Begin(g, i)
  PROVE  [Stream!Next]_(Stream!vars)
<1> USE GeneratorAssumption DEF Begin, Consumer
<1> DEFINE f == own[g]
<1>1. f \in Frames /\ g \in Holders  BY DEF Inv, TypeOK, Holders
<1>2. CASE ~Resumable(f)
  <2>1. UNCHANGED <<stack, value, top, run, except>>  BY <1>2 DEF promise
  <2> QED  BY <2>1, SeenKept DEF Stream!vars
<1>3. CASE Resumable(f)
  <2>1. st[f] = "initial"
    BY <1>1, <1>3 DEF Inv, HolderInv, Resumable, Idle
  <2>2. ~Stream!Active(f)  BY <2>1, StackState DEF Stream!Active
  <2>3. stack[f] = <<>>
    <3> SUFFICES ASSUME stack[f] # <<>> PROVE FALSE  OBVIOUS
    <3>1. 1 \in 1 .. Len(stack[f])  BY <1>1, NonEmptySeq DEF Inv, TypeOK
    <3> QED  BY <1>1, <2>2, <3>1 DEF Stream!Active, Inv, PointersAgree
  <2>4. /\ stack' = [stack EXCEPT ![f] = <<f>>] /\ run' = f /\ except' = except
        /\ own' = own /\ value' = value /\ top' = top /\ call'.holder = g
    BY <1>3 DEF promise
  <2>5. Root' = f  BY <2>4 DEF Root
  <2>6. Seen' = Seen
    BY <1>1, <2>3, <2>4, <2>5 DEF Seen, Inv, TypeOK
  <2>7. Stream!Begin(f)
    BY <1>1, <2>2, <2>4, <2>6 DEF Stream!Begin
  <2> QED  BY <1>1, <2>7 DEF Stream!Next
<1> QED  BY <1>2, <1>3

LEMMA IncrementStep ==
  ASSUME Inv, NEW i \in Its, Increment(i)
  PROVE  Stream!Next
<1> USE GeneratorAssumption DEF Increment, Consumer, promise
<1> DEFINE r == own[i]
<1>1. r \in Frames /\ i \in Holders  BY DEF Inv, TypeOK, Holders
<1>2. Resumable(top[r]) /\ stack[r] # <<>>  BY IncrementInv
<1>3. top[r] = Stream!Innermost(r)
  BY <1>1, <1>2 DEF Inv, PointersAgree, Innermost, Stream!Innermost
<1>4. /\ run' = top[r] /\ own' = own /\ call'.holder = i /\ stack' = stack
      /\ value' = value /\ top' = top /\ except' = except
  BY <1>2
<1>5. Root' = r  BY <1>4 DEF Root
<1>6. top[r] \in Frames  BY <1>1 DEF Inv, TypeOK
<1>7. Seen' = [Seen EXCEPT ![r] = Null]
  BY <1>1, <1>4, <1>5, <1>6 DEF Seen
<1>8. Stream!Resume(r)  BY <1>2, <1>3, <1>4, <1>7 DEF Stream!Resume
<1> QED  BY <1>1, <1>8 DEF Stream!Next

\* The frame that runs is the innermost one of the abstract stream.
LEMMA RunsRoot ==
  ASSUME Inv, NEW f \in Frames, Body(f)
  PROVE  Root \in Frames /\ Stream!Runs(Root) /\ Seen[Root] = Null
BY BodyFacts, GeneratorAssumption DEF Body, Stream!Runs, Stream!Innermost, Seen

LEMMA YieldStep ==
  ASSUME Inv, NEW f \in Frames, NEW v \in Values, Yield(f, v)
  PROVE  Stream!Next
<1> USE GeneratorAssumption
<1>1. /\ Body(f) /\ ~except /\ value' = [value EXCEPT ![f] = v] /\ run' = Null
      /\ UNCHANGED <<top, except, stack>>
  BY DEF Yield, BackToConsumer
<1>2. Root \in Frames /\ Stream!Runs(Root)  BY <1>1, RunsRoot
<1>3. top[Root] = f /\ stack[Root] # <<>>  BY <1>1, BodyFacts
<1>4. \A r \in Frames : r # Root /\ stack[r] # <<>> => top[r] # f
  BY <1>1, BodyFacts, TopInStack
<1>5. run # Null  BY <1>1 DEF Body
<1>6. \A r \in Frames : Seen'[r] = IF r = Root THEN v ELSE Seen[r]
  BY <1>1, <1>2, <1>3, <1>4, <1>5 DEF Seen, Inv, TypeOK
<1>7. Seen' = [Seen EXCEPT ![Root] = v]
  BY <1>6, <1>2 DEF Seen
<1>8. Stream!Yield(Root, v)  BY <1>1, <1>2, <1>7 DEF Stream!Yield
<1> QED  BY <1>2, <1>8 DEF Stream!Next

LEMMA NestStep ==
  ASSUME Inv, NEW f \in Frames, NEW c \in Frames, Body(f), ~except,
         ~InStack(c), AwaitSuspend(f, c), value' = value, except' = except,
         Root' = Root
  PROVE  Stream!Next
<1> USE GeneratorAssumption
<1>1. Root \in Frames /\ Stream!Runs(Root) /\ Seen[Root] = Null
  BY RunsRoot
<1>2. /\ run' = c /\ stack' = [stack EXCEPT ![Root] = Append(@, c)]
      /\ top' = [top EXCEPT ![Root] = c]
  BY BodyFacts DEF AwaitSuspend
<1>3. ~Stream!Active(c)  BY DEF InStack, Stream!Active
<1>4. run # Null /\ run' # Null  BY <1>2 DEF Body
<1>5. \A r \in Frames : Seen'[r] = Seen[r]
  BY <1>1, <1>2, <1>4 DEF Seen, Inv, TypeOK
<1>6. Seen' = Seen  BY <1>5 DEF Seen
<1>7. Stream!Nest(Root, c)  BY <1>1, <1>2, <1>3, <1>6 DEF Stream!Nest
<1> QED  BY <1>1, <1>7 DEF Stream!Next

LEMMA NestNewStep ==
  ASSUME Inv, NEW f \in Frames, NEW c \in Frames, NestNew(f, c)
  PROVE  Stream!Next
<1> USE GeneratorAssumption
<1>1. /\ Body(f) /\ ~except /\ st[c] = "free" /\ AwaitSuspend(f, c)
      /\ own' = [own EXCEPT ![f] = c]
      /\ UNCHANGED <<value, except, call>>
  BY DEF NestNew
<1>2. ~InStack(c)  BY <1>1, StackState DEF InStack
<1>3. Root' = Root  BY <1>1, BodyFacts DEF Root, Inv, TypeOK, Holders
<1> QED  BY <1>1, <1>2, <1>3, NestStep

LEMMA NestGenStep ==
  ASSUME Inv, NEW f \in Frames, NEW g \in Gens, NestGen(f, g)
  PROVE  [Stream!Next]_(Stream!vars)
<1> USE GeneratorAssumption
<1> DEFINE c == own[g]
<1>1. /\ Body(f) /\ ~except /\ c # Null /\ call.holder # g
      /\ UNCHANGED <<value, except, call>>
  BY DEF NestGen
<1>2. g \in Holders /\ c \in Frames  BY <1>1 DEF Inv, TypeOK, Holders
<1>3. CASE ~Resumable(c)
  <2>1. UNCHANGED <<own, stack, top, run>>  BY <1>3 DEF NestGen
  <2>2. Root' = Root  BY <1>1, <2>1 DEF Root
  <2> QED  BY <1>1, <2>1, <2>2, SeenKept DEF Stream!vars
<1>4. CASE Resumable(c)
  <2>1. own' = [own EXCEPT ![f] = c, ![g] = Null] /\ AwaitSuspend(f, c)
    BY <1>4 DEF NestGen
  <2>2. Root' = Root
    BY <1>1, <1>2, <2>1, BodyFacts DEF Root, Inv, TypeOK, Holders
  <2>3. st[c] = "initial"
    BY <1>1, <1>2, <1>4 DEF Inv, HolderInv, Resumable
  <2>4. ~InStack(c)  BY <2>3, StackState DEF InStack
  <2> QED  BY <1>1, <1>2, <2>1, <2>2, <2>4, NestStep
<1> QED  BY <1>3, <1>4
LEMMA FinalRootStep ==
  ASSUME Inv, NEW f \in Frames, Body(f), NEW thrown \in BOOLEAN,
         except => thrown, FinalRoot(f, thrown)
  PROVE  Stream!Next
<1> USE GeneratorAssumption
<1>1. Root \in Frames /\ Stream!Runs(Root) /\ Seen[Root] = Null
  BY RunsRoot
<1>2. f = Root /\ Len(stack[Root]) = 1 /\ stack[Root] \in Seq(Frames)
  BY FinalRootInv, BodyFacts
<1>3. /\ run' = Null /\ except' = FALSE
      /\ stack' = [stack EXCEPT ![Root] = <<>>]
      /\ UNCHANGED <<value, top>>
  BY DEF FinalRoot, BackToConsumer, promise
<1>4. run # Null  BY DEF Body
<1>5. \A r \in Frames : Seen'[r] = Seen[r]
  BY <1>1, <1>3, <1>4 DEF Seen, Inv, TypeOK
<1>6. Seen' = Seen  BY <1>5 DEF Seen
<1>7. SubSeq(stack[Root], 1, Len(stack[Root]) - 1) = <<>>  BY <1>2
<1>8. Stream!End(Root, thrown)
  <2>1. Len(stack[Root]) - 1 = 0  BY <1>2
  <2>2. stack' = [stack EXCEPT ![Root] = SubSeq(@, 1, Len(stack[Root]) - 1)]
    BY <1>3, <1>7
  <2>3. except' = (thrown /\ Len(stack[Root]) - 1 # 0)  BY <1>3, <2>1
  <2>4. run' = IF Len(stack[Root]) - 1 = 0 THEN Null
               ELSE stack[Root][Len(stack[Root]) - 1]
    BY <1>3, <2>1
  <2> QED  BY <1>1, <1>6, <2>2, <2>3, <2>4, Zenon DEF Stream!End
<1> QED  BY <1>1, <1>8 DEF Stream!Next

LEMMA FinalNestedStep ==
  ASSUME Inv, NEW f \in Frames, Body(f), NEW thrown \in BOOLEAN,
         except => thrown, FinalNested(f, thrown)
  PROVE  Stream!Next
<1> USE GeneratorAssumption
<1>1. Root \in Frames /\ Stream!Runs(Root) /\ Seen[Root] = Null
  BY RunsRoot
<1> DEFINE R == Root
           n == Len(stack[R]) - 1
<1>2. /\ parent[f] # Null /\ parent[f] = stack[R][n] /\ parent[f] \in Frames
      /\ root[f] = R /\ n # 0 /\ call.holder \in Gens \cup Its
  BY BodyFacts DEF FinalNested
<1>3. /\ run' = stack[R][n] /\ except' = thrown /\ call' = call
      /\ own' = [own EXCEPT ![parent[f]] = Null]
      /\ stack' = [stack EXCEPT ![R] = SubSeq(@, 1, n)]
      /\ value' = [value EXCEPT ![f] = Null]
      /\ top' = [top EXCEPT ![R] = parent[f], ![f] = f]
  BY <1>2 DEF FinalNested
<1>4. Root' = R  BY <1>2, <1>3 DEF Root, Inv, TypeOK, Holders
<1>5. run # Null /\ run' # Null  BY <1>2, <1>3 DEF Body
<1>6. ASSUME NEW r \in Frames, r # R, stack[r] # <<>>
      PROVE  top[r] \in Frames /\ top[r] # f /\ r # f
  <2>1. top[r] \in Frames /\ top[r] # f  BY <1>6, BodyFacts, TopInStack
  <2>2. 1 \in 1 .. Len(stack[r]) /\ stack[r][1] = r
    BY <1>6, NonEmptySeq DEF Inv, TypeOK, PointersAgree
  <2> QED  BY <1>6, <2>1, <2>2, BodyFacts
<1>7. \A r \in Frames : Seen'[r] = Seen[r]
  <2> HIDE DEF R, n
  <2>1. R \in Frames /\ Seen[R] = Null  BY <1>1 DEF R
  <2>2. Seen'[R] = Null  BY <1>4, <1>5, <2>1 DEF Seen
  <2>3. ASSUME NEW r \in Frames, r # R PROVE Seen'[r] = Seen[r]
    <3>1. stack'[r] = stack[r]  BY <1>3, <2>1, <2>3 DEF Inv, TypeOK
    <3>2. CASE stack[r] = <<>>  BY <3>1, <3>2 DEF Seen
    <3>3. CASE stack[r] # <<>>
      <4>1. top[r] \in Frames /\ top[r] # f /\ r # f  BY <1>6, <2>3, <3>3
      <4>2. top'[r] = top[r] /\ value'[top[r]] = value[top[r]]
        BY <1>3, <2>1, <2>3, <4>1 DEF Inv, TypeOK
      <4>3. r # Root /\ r # Root'  BY <1>4, <2>3 DEF R
      <4> QED  BY <3>1, <3>3, <4>2, <4>3 DEF Seen
    <3> QED  BY <3>2, <3>3
  <2> QED  BY <2>1, <2>2, <2>3
<1>8. Seen' = Seen  BY <1>7 DEF Seen
<1>9. Stream!End(R, thrown)
  BY <1>1, <1>2, <1>3, <1>8 DEF Stream!End
<1> QED  BY <1>1, <1>9 DEF Stream!Next

\* Destroying what h holds drops the stream of that root, if it has one.
LEMMA DestroyStep ==
  ASSUME Inv, NEW h \in Gens \cup Its, own[h] # Null, run = Null,
         run' = run, except' = except, Destroy(Below(own[h]))
  PROVE  [Stream!Next]_(Stream!vars)
<1> USE GeneratorAssumption
<1> DEFINE f == own[h]
           D == Below(f)
<1>1. f \in Frames  BY DEF Inv, TypeOK, Holders
<1>2. /\ f \in D
      /\ \A r \in Frames : \A k \in 1 .. Len(stack[r]) : stack[r][k] \in D <=> r = f
      /\ \A r \in D : stack[r] # <<>> => r = f
  BY BelowFacts
<1>3. /\ stack' = [x \in Frames |-> IF x \in D THEN <<>> ELSE stack[x]]
      /\ top' = [x \in Frames |-> IF x \in D THEN x ELSE top[x]]
      /\ value' = [x \in Frames |-> IF x \in D THEN Null ELSE value[x]]
  BY DEF Destroy
<1> HIDE DEF f, D
<1>4. stack' = [stack EXCEPT ![f] = <<>>]
  <2>1. \A x \in Frames : stack'[x] = IF x = f THEN <<>> ELSE stack[x]
    BY <1>1, <1>2, <1>3
  <2> QED  BY <1>1, <1>3, <2>1 DEF Inv, TypeOK
<1>5. ASSUME NEW r \in Frames PROVE Seen'[r] = IF r = f THEN Null ELSE Seen[r]
  <2>1. CASE r = f \/ stack[r] = <<>>
    <3>1. stack'[r] = <<>>  BY <1>1, <1>4, <2>1 DEF Inv, TypeOK
    <3> QED  BY <2>1, <3>1 DEF Seen
  <2>2. CASE r # f /\ stack[r] # <<>>
    <3>1. stack'[r] = stack[r] /\ r \notin D  BY <1>2, <1>3, <2>2
    <3>2. top[r] \in Frames /\ top[r] \notin D  BY <1>2, <2>2, TopInStack
    <3>3. top'[r] = top[r] /\ value'[top[r]] = value[top[r]]
      BY <1>3, <3>1, <3>2
    <3> QED  BY <2>2, <3>1, <3>3 DEF Seen
  <2> QED  BY <2>1, <2>2
<1>6. Seen' = [Seen EXCEPT ![f] = Null]  BY <1>5 DEF Seen
<1>7. CASE stack[f] # <<>>
  <2>1. Stream!Drop(f)  BY <1>4, <1>6, <1>7 DEF Stream!Drop
  <2> QED  BY <1>1, <2>1 DEF Stream!Next
<1>8. CASE stack[f] = <<>>
  <2>1. stack' = stack  BY <1>1, <1>4, <1>8 DEF Inv, TypeOK
  <2>2. Seen[f] = Null  BY <1>1, <1>8 DEF Seen
  <2>3. Seen' = Seen  BY <1>6, <2>2 DEF Seen
  <2> QED  BY <2>1, <2>3 DEF Stream!vars
<1> QED  BY <1>7, <1>8

LEMMA BeginReturnStep ==
  ASSUME Inv, BeginReturn
  PROVE  [Stream!Next]_(Stream!vars)
<1> USE GeneratorAssumption DEF BeginReturn
<1>1. call.holder \in Gens /\ Root # Null /\ own[call.holder] = Root
  BY DEF Inv, TypeOK, RunInv, Root, Idle
<1>2. CASE UNCHANGED <<st, promise, threw, stack>>
  BY <1>2, SeenKept DEF Stream!vars, promise
<1>3. CASE Destroy(Below(Root))
  BY <1>1, <1>3, DestroyStep
<1> QED  BY <1>2, <1>3

\* One case for each disjunct of Next.
LEMMA NextStep ==
  ASSUME Inv, [Next]_vars
  PROVE  [Stream!Next]_(Stream!vars)
<1>1. CASE \E g \in Gens, f \in Frames : Create(g, f)
  BY <1>1, SeenKept DEF Create, Consumer, Stream!vars, promise
<1>2. CASE \E g \in Gens, i \in Its : Begin(g, i)  BY <1>2, BeginStep
<1>3. CASE BeginReturn  BY <1>3, BeginReturnStep
<1>4. CASE \E i \in Its : Increment(i)  BY <1>4, IncrementStep
<1>5. CASE \E h \in Gens \cup Its : Drop(h)
  BY <1>5, DestroyStep DEF Drop, Consumer
<1>6. CASE \E d, s \in Gens \cup Its : Move(d, s)
  BY <1>6, SeenKept DEF Move, Consumer, Stream!vars, promise
<1>7. CASE \E d, s \in Gens : MoveAssign(d, s)
  BY <1>7, DestroyStep DEF MoveAssign, Consumer
<1>8. CASE \E f \in Frames, v \in Values : Yield(f, v)  BY <1>8, YieldStep
<1>9. CASE \E f, c \in Frames : NestNew(f, c)  BY <1>9, NestNewStep
<1>10. CASE \E f \in Frames, g \in Gens : NestGen(f, g)  BY <1>10, NestGenStep
<1>11. CASE \E f \in Frames : Return(f) \/ Throw(f)
  BY <1>11, FinalRootStep, FinalNestedStep DEF Return, Throw, Final
<1>12. CASE \E f \in Frames : Catch(f)
  <2>1. PICK f \in Frames : Catch(f)  BY <1>12
  <2>2. Root \in Frames /\ Stream!Runs(Root)  BY <2>1, RunsRoot DEF Catch
  <2>3. Seen' = Seen  BY <2>1, SeenKept DEF Catch, promise, Root
  <2>4. Stream!Catch(Root)  BY <2>1, <2>2, <2>3 DEF Catch, Stream!Catch
  <2> QED  BY <2>2, <2>4 DEF Stream!Next
<1>13. CASE UNCHANGED vars
  BY <1>13, SeenKept DEF vars, promise, Root, Stream!vars
<1>14. CASE \E g \in Gens : SelfMove(g)
  BY <1>14, DestroyStep DEF SelfMove, Consumer
<1> QED
  BY <1>1, <1>2, <1>3, <1>4, <1>5, <1>6, <1>7, <1>8, <1>9, <1>10, <1>11,
     <1>12, <1>13, <1>14
  DEF Next

\* Generator, its iterator and its awaiters implement the abstract stream of
\* nested generators: what operator* shows and where operator++ continues are
\* those of the innermost generator, also after exceptions and drops.
THEOREM StreamRefinement == Spec => ImplementsStream
<1>1. Init => Stream!Init
  BY DEF Init, Seen, Stream!Init
<1>2. Inv /\ [Next]_vars => [Stream!Next]_(Stream!vars)  BY NextStep
<1>3. SelfMoved /\ [Next]_vars => [Stream!Next]_(Stream!vars)
  <2> SUFFICES ASSUME UNCHANGED vars PROVE UNCHANGED Stream!vars
    BY SelfMovedEnds
  <2> QED  BY DEF vars, promise, Root, Seen, Stream!vars
<1> QED  BY Invariance, <1>1, <1>2, <1>3, PTL DEF Spec, ImplementsStream, Stream!Spec
=============================================================================
