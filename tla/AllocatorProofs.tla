---------------------------- MODULE AllocatorProofs ----------------------------
(***************************************************************************)
(* The retypes the tool generates succeed when the monitor performs them,  *)
(* and put the fixed pages where they were asked for: for all untyped      *)
(* objects, sizes and sequences of requests.                               *)
(***************************************************************************)
EXTENDS ObjectAllocator, RegionProofs

RetypeSet == [ut: DOMAIN Untyped, size: Nat \ {0}, slot: Nat, count: Nat]
ObjectSet == [type: DOMAIN AllocSize \cup {"untyped"}, phys: Nat, fixed: BOOLEAN]

\* What the tool thinks of the kernel at some point of the boot.
States == [free: [DOMAIN Untyped -> Nat], slot: Nat]

(***************************************************************************)
(* In the tool's reckoning the retype r brings the kernel from x to y, and *)
(* the objects it makes are those of objs.  For device memory the          *)
(* reckoning is exact, otherwise it is an upper bound.                     *)
(***************************************************************************)
Performs(r, x, y, objs) ==
  /\ \A v \in DOMAIN Untyped : v # r.ut => y.free[v] = x.free[v]
  /\ RoundUp(x.free[r.ut], r.size) + r.count * r.size <= y.free[r.ut]
  /\ y.free[r.ut] <= Untyped[r.ut].end
  /\ Untyped[r.ut].device =>
       /\ x.free[r.ut] % r.size = 0
       /\ y.free[r.ut] = x.free[r.ut] + r.count * r.size
  /\ r.slot = x.slot /\ y.slot = x.slot + r.count
  /\ \A s \in Slots(r) :
       /\ s \in DOMAIN objs
       /\ objs[s].fixed => /\ Untyped[r.ut].device /\ r.count = 1
                           /\ objs[s].phys = x.free[r.ut]

\* at holds the states before, between and after the invocations invs.
Passes(at, invs, n, objs) ==
  /\ \A k \in 0 .. n : at[k] \in States
  /\ \A k \in 1 .. n : Performs(invs[k], at[k - 1], at[k], objs)

Reaches(invs, x, y, objs) ==
  /\ invs \in Seq(RetypeSet)
  /\ \E at : Passes(at, invs, Len(invs), objs) /\ at[0] = x /\ at[Len(invs)] = y

\* What the tool believes now is what the kernel reaches from where it is.
Begins(x) ==
  /\ x \in States /\ x.slot > 0
  /\ DOMAIN placed = 1 .. x.slot - 1
  /\ \A u \in DOMAIN Untyped :
       free[u] <= x.free[u] /\ (Untyped[u].device => free[u] = x.free[u])

Ends(y) ==
  /\ y \in States /\ y.slot = cap_slot
  /\ \A u \in DOMAIN Untyped :
       IF Untyped[u].device THEN y.free[u] = watermark[u] ELSE y.free[u] <= allocation_point[u]

AllocTypes ==
  /\ invocations \in Seq(RetypeSet)
  /\ objects \in Seq(ObjectSet) /\ cap_slot \in Nat \ {0} /\ DOMAIN objects = 1 .. cap_slot - 1
  /\ {allocation_point, watermark, free} \subseteq [DOMAIN Untyped -> Nat]
  /\ DOMAIN placed \subseteq DOMAIN objects

AllocInv ==
  /\ AllocTypes
  /\ \E x, y : Begins(x) /\ Reaches(invocations, x, y, objects) /\ Ends(y)
  /\ FixedWhereAsked

-----------------------------------------------------------------------------
(* Sequences of retypes.                                                    *)

LEMMA ConcatOf ==
  ASSUME NEW S, NEW s \in Seq(S), NEW t \in Seq(S), NEW l \in Nat, NEW n \in Nat,
         l = Len(s), n = Len(t)
  PROVE  /\ s \o t \in Seq(S) /\ Len(s \o t) = l + n /\ DOMAIN (s \o t) = 1 .. l + n
         /\ \A k \in 1 .. l : (s \o t)[k] = s[k]
         /\ \A k \in l + 1 .. l + n : (s \o t)[k] = t[k - l]
  OBVIOUS

\* More objects do not matter for what was reckoned before.
LEMMA MoreObjects ==
  ASSUME NEW invs, NEW x, NEW y, NEW objs, Reaches(invs, x, y, objs),
         NEW more, DOMAIN objs \subseteq DOMAIN more, \A s \in DOMAIN objs : more[s] = objs[s]
  PROVE  Reaches(invs, x, y, more)
  <1>1. \A r, v, w : Performs(r, v, w, objs) => Performs(r, v, w, more)
    BY DEF Performs
  <1>2. QED
    BY <1>1 DEF Reaches, Passes

LEMMA ReachesNothing ==
  ASSUME NEW x \in States, NEW objs
  PROVE  Reaches(<<>>, x, x, objs)
  <1>1. PICK none : none = <<>>
    OBVIOUS
  <1>2. none \in Seq(RetypeSet) /\ Len(none) = 0
    BY <1>1
  <1>3. Passes([k \in {0} |-> x], none, 0, objs)
    BY DEF Passes
  <1>4. Reaches(none, x, x, objs)
    BY <1>2, <1>3 DEF Reaches
  <1>5. QED
    BY <1>1, <1>4

LEMMA ReachesConcat ==
  ASSUME NEW objs, NEW s, NEW t, NEW x, NEW y, NEW z,
         Reaches(s, x, y, objs), Reaches(t, y, z, objs)
  PROVE  Reaches(s \o t, x, z, objs)
  <1>1. PICK l \in Nat : l = Len(s)
    BY DEF Reaches
  <1>2. PICK n \in Nat : n = Len(t)
    BY DEF Reaches
  <1>3. PICK f : Passes(f, s, l, objs) /\ f[0] = x /\ f[l] = y
    BY <1>1 DEF Reaches
  <1>4. PICK g : Passes(g, t, n, objs) /\ g[0] = y /\ g[n] = z
    BY <1>2 DEF Reaches
  <1>5. PICK both : both = s \o t
    OBVIOUS
  <1>6. /\ both \in Seq(RetypeSet) /\ Len(both) = l + n
        /\ \A k \in 1 .. l : both[k] = s[k]
        /\ \A k \in l + 1 .. l + n : both[k] = t[k - l]
    <2>1. s \in Seq(RetypeSet) /\ t \in Seq(RetypeSet)
      BY DEF Reaches
    <2>2. QED
      BY <1>1, <1>2, <1>5, <2>1, ConcatOf
  <1> DEFINE at == [k \in 0 .. l + n |-> IF k <= l THEN f[k] ELSE g[k - l]]
  <1>7. /\ \A k \in 0 .. l : at[k] = f[k]
        /\ \A k \in l .. l + n : k - l \in 0 .. n /\ at[k] = g[k - l]
    BY <1>3, <1>4
  <1>8. at[0] = x /\ at[l + n] = z
    <2>1. (l + n) - l = n /\ l + n \in l .. l + n
      OBVIOUS
    <2>2. QED
      BY <1>3, <1>4, <1>7, <2>1
  <1> HIDE DEF at
  <1>9. \A k \in 0 .. l + n : at[k] \in States
    <2>1. \A k \in 0 .. l + n : k \in 0 .. l \/ k \in l .. l + n
      OBVIOUS
    <2>2. QED
      BY <1>3, <1>4, <1>7, <2>1 DEF Passes
  <1>10. ASSUME NEW k \in 1 .. l + n PROVE Performs(both[k], at[k - 1], at[k], objs)
    <2>1. CASE k \in 1 .. l
      <3>1. k \in 0 .. l /\ k - 1 \in 0 .. l
        BY <2>1
      <3>2. QED
        BY <1>3, <1>6, <1>7, <2>1, <3>1 DEF Passes
    <2>2. CASE k \in l + 1 .. l + n
      <3>1. k \in l .. l + n /\ k - 1 \in l .. l + n /\ (k - 1) - l = (k - l) - 1 /\ k - l \in 1 .. n
        BY <2>2
      <3>2. at[k] = g[k - l] /\ at[k - 1] = g[(k - l) - 1] /\ both[k] = t[k - l]
        BY <1>6, <1>7, <2>2, <3>1
      <3>3. QED
        BY <1>4, <3>1, <3>2 DEF Passes
    <2>3. QED
      BY <2>1, <2>2
  <1>11. Passes(at, both, l + n, objs)
    BY <1>9, <1>10 DEF Passes
  <1>12. Reaches(both, x, z, objs)
    BY <1>6, <1>8, <1>11 DEF Reaches
  <1>13. QED
    BY <1>5, <1>12

\* The first invocation, and the others.
LEMMA ReachesFirst ==
  ASSUME NEW objs, NEW invs, invs # <<>>, NEW x, NEW z, Reaches(invs, x, z, objs)
  PROVE  /\ Head(invs) \in RetypeSet
         /\ \E y \in States : /\ Performs(Head(invs), x, y, objs)
                              /\ Reaches(Tail(invs), y, z, objs)
  <1>1. invs \in Seq(RetypeSet)
    BY DEF Reaches
  <1>2. PICK n \in Nat : Len(invs) = n + 1
    <2>1. Len(invs) \in Nat /\ Len(invs) # 0
      BY <1>1
    <2>2. Len(invs) - 1 \in Nat /\ Len(invs) = (Len(invs) - 1) + 1
      BY <2>1
    <2>3. QED
      BY <2>2
  <1>3. PICK at : Passes(at, invs, n + 1, objs) /\ at[0] = x /\ at[n + 1] = z
    BY <1>2 DEF Reaches
  <1>4. PICK rest : rest = Tail(invs)
    OBVIOUS
  <1>5. /\ rest \in Seq(RetypeSet) /\ Len(rest) = n /\ Head(invs) = invs[1] /\ invs[1] \in RetypeSet
        /\ \A k \in 1 .. n : rest[k] = invs[k + 1]
    BY <1>1, <1>2, <1>4
  <1> DEFINE g == [k \in 0 .. n |-> at[k + 1]]
  <1>6. Passes(g, rest, n, objs)
    <2>1. \A k \in 0 .. n : k + 1 \in 0 .. n + 1 /\ k + 1 \in 1 .. n + 1
      OBVIOUS
    <2>2. \A k \in 0 .. n : g[k] \in States
      BY <1>3, <2>1 DEF Passes
    <2>3. ASSUME NEW k \in 1 .. n PROVE Performs(rest[k], g[k - 1], g[k], objs)
      <3>1. k - 1 \in 0 .. n /\ k \in 0 .. n /\ (k - 1) + 1 = k /\ (k + 1) - 1 = k
        OBVIOUS
      <3>2. g[k - 1] = at[k] /\ g[k] = at[k + 1]
        BY <3>1
      <3>3. Performs(invs[k + 1], at[(k + 1) - 1], at[k + 1], objs)
        BY <1>3, <2>1, <3>1 DEF Passes
      <3>4. QED
        BY <1>5, <3>1, <3>2, <3>3
    <2> HIDE DEF g
    <2>4. QED
      BY <2>2, <2>3 DEF Passes
  <1>7. g[0] = at[1] /\ g[n] = z
    BY <1>3
  <1>8. at[1] \in States /\ Performs(invs[1], x, at[1], objs)
    <2>1. 1 \in 0 .. n + 1 /\ 1 \in 1 .. n + 1 /\ 1 - 1 = 0
      OBVIOUS
    <2>2. QED
      BY <1>3, <2>1 DEF Passes
  <1> HIDE DEF g
  <1>9. Reaches(rest, at[1], z, objs)
    BY <1>5, <1>6, <1>7 DEF Reaches
  <1>10. QED
    BY <1>4, <1>5, <1>8, <1>9

LEMMA ReachesOne ==
  ASSUME NEW objs, NEW r \in RetypeSet, NEW x \in States, NEW y \in States, Performs(r, x, y, objs)
  PROVE  Reaches(<<r>>, x, y, objs)
  <1>1. PICK one : one = <<r>>
    OBVIOUS
  <1>2. one \in Seq(RetypeSet) /\ Len(one) = 1 /\ one[1] = r
    BY <1>1
  <1> DEFINE at == [k \in {0, 1} |-> IF k = 0 THEN x ELSE y]
  <1>3. at[0] = x /\ at[1] = y
    OBVIOUS
  <1> HIDE DEF at
  <1>4. \A k \in 0 .. 1 : at[k] \in States
    <2>1. \A k \in 0 .. 1 : k = 0 \/ k = 1
      OBVIOUS
    <2>2. QED
      BY <1>3, <2>1
  <1>5. \A k \in 1 .. 1 : Performs(one[k], at[k - 1], at[k], objs)
    <2>1. \A k \in 1 .. 1 : k = 1 /\ k - 1 = 0
      OBVIOUS
    <2>2. QED
      BY <1>2, <1>3, <2>1
  <1>6. Passes(at, one, 1, objs)
    BY <1>4, <1>5 DEF Passes
  <1>7. Reaches(one, x, y, objs)
    BY <1>2, <1>3, <1>6 DEF Reaches
  <1>8. QED
    BY <1>1, <1>7

-----------------------------------------------------------------------------
(* Normal memory: the batches of a request.                                 *)

\* done[n] is the number of objects of the first n batches of size f.
Batches(done, count, f, last) ==
  /\ done \in [0 .. last -> 0 .. count]
  /\ done[0] = 0 /\ done[last] = count
  /\ \A n \in 1 .. last :
       /\ done[n - 1] = (n - 1) * f /\ done[n - 1] < done[n]
       /\ done[n] - done[n - 1] = IF count - done[n - 1] < f THEN count - done[n - 1] ELSE f

LEMMA InBatches ==
  ASSUME NEW count \in Nat, NEW f \in Nat \ {0}
  PROVE  \E last \in Nat : last = (count + f - 1) \div f /\ \E done : Batches(done, count, f, last)
  <1>1. PICK m \in Nat : m = count + f - 1
    OBVIOUS
  <1>2. PICK last : last = m \div f
    OBVIOUS
  <1>3. PICK r : r = m % f
    OBVIOUS
  <1>4. last \in Nat /\ r \in 0 .. f - 1 /\ m = last * f + r
    BY <1>2, <1>3, Divided
  <1>5. \A n \in Nat : n * f \in Nat
    OBVIOUS
  <1>6. count <= last * f
    BY <1>1, <1>4, <1>5
  <1>7. ASSUME NEW n \in 1 .. last PROVE (n - 1) * f < count /\ n * f = (n - 1) * f + f
    <2>1. PICK e \in Nat : last = n + e
      <3>1. last - n \in Nat /\ last = n + (last - n)
        BY <1>4
      <3>2. QED
        BY <3>1
    <2>2. last * f = n * f + e * f /\ e * f \in Nat /\ n * f = (n - 1) * f + f /\ (n - 1) * f \in Nat
      BY <2>1
    <2>3. QED
      BY <1>1, <1>4, <2>2
  <1> DEFINE done == [n \in 0 .. last |-> IF n * f < count THEN n * f ELSE count]
  <1>8. done \in [0 .. last -> 0 .. count] /\ done[0] = 0 /\ done[last] = count
    <2>1. \A n \in 0 .. last : n * f \in Nat
      BY <1>4, <1>5
    <2>2. done \in [0 .. last -> 0 .. count]
      BY <2>1
    <2>3. 0 \in 0 .. last /\ last \in 0 .. last /\ 0 * f = 0
      BY <1>4
    <2>4. QED
      BY <1>6, <2>1, <2>2, <2>3
  <1>9. ASSUME NEW n \in 1 .. last
        PROVE  /\ done[n - 1] = (n - 1) * f /\ done[n - 1] < done[n]
               /\ done[n] - done[n - 1] = IF count - done[n - 1] < f THEN count - done[n - 1] ELSE f
    <2>1. n \in 0 .. last /\ n - 1 \in 0 .. last
      BY <1>4
    <2>2. PICK a, b \in Nat : b = (n - 1) * f /\ a = n * f
      BY <1>4, <1>5
    <2>3. a = b + f /\ b < count
      BY <1>7, <2>2
    <2>4. done[n - 1] = b /\ done[n] = (IF a < count THEN a ELSE count)
      BY <2>1, <2>2, <2>3
    <2> HIDE DEF done
    <2>5. QED
      BY <2>2, <2>3, <2>4
  <1> HIDE DEF done
  <1>10. Batches(done, count, f, last)
    BY <1>8, <1>9 DEF Batches
  <1>11. QED
    BY <1>1, <1>2, <1>4, <1>10
\* The kernel's size of a type divides the tool's.
LEMMA Sizes ==
  ASSUME NEW type \in DOMAIN AllocSize
  PROVE  \E size, ksize \in Nat \ {0} :
           /\ size = AllocSize[type] /\ ksize = KernelSize[type]
           /\ size % ksize = 0 /\ ksize <= size
  <1>1. PICK size, ksize \in Nat \ {0} :
          size = AllocSize[type] /\ ksize = KernelSize[type] /\ size % ksize = 0
    BY SizeAssumption
  <1>2. PICK k \in Nat : size = k * ksize
    BY <1>1, Quotient
  <1>3. k # 0
    BY <1>2
  <1>4. PICK e \in Nat : k = e + 1
    <2>1. k - 1 \in Nat /\ k = (k - 1) + 1
      BY <1>3
    <2>2. QED
      BY <2>1
  <1>5. size = e * ksize + ksize /\ e * ksize \in Nat
    BY <1>2, <1>4
  <1>6. ksize <= size
    BY <1>5
  <1>7. QED
    BY <1>1, <1>6

LEMMA SlotsAdd ==
  ASSUME NEW count \in Nat, NEW a \in 0 .. count, NEW b \in 0 .. count, a < b,
         NEW more \in Nat, more = b - a, NEW slot \in Nat
  PROVE  slot + b = (slot + a) + more
  OBVIOUS

\* What the tool aligns is aligned for the kernel.
LEMMA AlignedStart ==
  ASSUME NEW size \in Nat \ {0}, NEW ksize \in Nat \ {0}, size % ksize = 0,
         NEW start \in Nat, start % size = 0, NEW n \in Nat
  PROVE  (start + n * size) % ksize = 0
  <1>1. start % ksize = 0
    BY DivisorOfDivisor
  <1>2. PICK k \in Nat : size = k * ksize
    BY Quotient
  <1>3. PICK m, i \in Nat : m = n * size /\ i = n * k
    OBVIOUS
  <1>4. m % ksize = 0
    <2>1. m = i * ksize
      BY <1>2, <1>3
    <2>2. QED
      BY <2>1, MultipleOf
  <1>5. (start + m) % ksize = 0
    BY <1>1, <1>4, Multiples
  <1>6. QED
    BY <1>3, <1>5

\* The n objects from slot on have no address to be at.
Unfixed(objs, slot, n) ==
  \A s \in slot .. slot + n - 1 : s \in DOMAIN objs /\ ~objs[s].fixed

\* The invocations use the untyped object u only, and n slots.
Moves(invs, n, u, x, y, objs) ==
  /\ Reaches(invs, x, y, objs)
  /\ y.slot = x.slot + n
  /\ \A v \in DOMAIN Untyped : v # u => y.free[v] = x.free[v]

(***************************************************************************)
(* The retypes of a request bring the kernel to where the tool thinks.     *)
(***************************************************************************)
\* The slice of an untyped object where the tool puts its objects.
Slice(u, start, count, size) == start % size = 0 /\ start + count * size <= Untyped[u].end

LEMMA RetypesReach ==
  ASSUME NEW u \in DOMAIN Untyped, ~Untyped[u].device,
         NEW type \in DOMAIN AllocSize, NEW size \in Nat \ {0}, size = AllocSize[type],
         NEW count \in Nat, NEW x \in States, NEW objs, NEW slot \in Nat, slot = x.slot,
         NEW start \in Nat, x.free[u] <= start, Slice(u, start, count, size),
         Unfixed(objs, slot, count)
  PROVE  \E y \in States :
           /\ Moves(Retypes(u, type, slot, count), count, u, x, y, objs)
           /\ y.free[u] <= start + count * size
  <1>1. PICK ksize \in Nat \ {0} :
          ksize = KernelSize[type] /\ size % ksize = 0 /\ ksize <= size
    BY Sizes
  <1>aligned. ASSUME NEW a \in Nat, NEW p, p = start + a * size PROVE p % ksize = 0
    <2>1. start % size = 0
      BY DEF Slice
    <2>2. (start + a * size) % ksize = 0
      BY <1>1, <2>1, AlignedStart
    <2>3. QED
      BY <1>aligned, <2>2
  <1>2. FanOut \in Nat \ {0}
    BY SizeAssumption
  <1>3. PICK last \in Nat : /\ last = (count + FanOut - 1) \div FanOut
                           /\ \E done : Batches(done, count, FanOut, last)
    BY <1>2, InBatches
  <1>4. PICK done : /\ last = (count + FanOut - 1) \div FanOut
                   /\ Batches(done, count, FanOut, last)
    BY <1>3
  <1>5. PICK end \in Nat : end = Untyped[u].end
    BY UntypedAssumption
  <1> DEFINE batch(n) == RetypeOf(u, ksize, slot + done[n - 1], done[n] - done[n - 1])
  <1>6. PICK rs : rs = Retypes(u, type, slot, count)
    OBVIOUS
  <1>7. /\ rs \in Seq(RetypeSet) /\ Len(rs) = last
        /\ \A n \in 1 .. last : rs[n] = batch(n)
    <2>1. rs = [n \in 1 .. last |->
                  RetypeOf(u, ksize, slot + (n - 1) * FanOut,
                           IF count - (n - 1) * FanOut < FanOut
                           THEN count - (n - 1) * FanOut ELSE FanOut)]
      BY <1>1, <1>4, <1>6 DEF Retypes
    <2>2. ASSUME NEW n \in 1 .. last PROVE rs[n] = batch(n)
      <3>1. PICK d : d = (n - 1) * FanOut /\ d = done[n - 1]
               /\ done[n] - done[n - 1] = (IF count - d < FanOut THEN count - d ELSE FanOut)
        BY <1>4 DEF Batches
      <3>2. rs[n] = RetypeOf(u, ksize, slot + d, IF count - d < FanOut THEN count - d ELSE FanOut)
        BY <2>1, <3>1
      <3>3. QED
        BY <3>1, <3>2
    <2>3. ASSUME NEW n \in 1 .. last PROVE batch(n) \in RetypeSet
      <3>1. n \in 0 .. last /\ n - 1 \in 0 .. last
        BY <1>4
      <3>2. PICK a, b \in 0 .. count : a = done[n - 1] /\ b = done[n] /\ a < b
        BY <1>4, <3>1 DEF Batches
      <3>3. b - a \in Nat /\ slot + a \in Nat
        BY <3>2
      <3>4. QED
        BY <3>2, <3>3 DEF RetypeOf, RetypeSet
    <2> HIDE DEF batch
    <2>4. DOMAIN rs = 1 .. last /\ \A n \in 1 .. last : rs[n] \in RetypeSet
      BY <2>1, <2>2, <2>3
    <2>5. rs = [n \in 1 .. last |-> rs[n]]
      BY <2>1
    <2>6. QED
      BY <2>2, <2>4, <2>5
  <1> HIDE DEF batch
  <1> DEFINE at == [n \in 0 .. last |->
                     IF n = 0 THEN x
                     ELSE [free |-> [x.free EXCEPT ![u] = start + done[n] * size],
                           slot |-> slot + done[n]]]
  <1>8. ASSUME NEW n \in 0 .. last
        PROVE  /\ at[n] \in States /\ at[n].slot = slot + done[n]
               /\ \A v \in DOMAIN Untyped : v # u => at[n].free[v] = x.free[v]
               /\ at[n].free[u] <= start + done[n] * size
               /\ n # 0 => at[n].free[u] = start + done[n] * size
    <2>1. PICK d \in Nat : d = done[n]
      BY <1>4 DEF Batches
    <2>2. PICK p \in Nat : p = start + d * size
      OBVIOUS
    <2>3. CASE n = 0
      <3>1. d = 0 /\ at[n] = x
        BY <1>4, <2>1, <2>3 DEF Batches
      <3>2. p = start
        BY <2>2, <3>1
      <3>3. x.free[u] <= p
        BY <3>2
      <3>4. slot + d = slot
        BY <3>1
      <3> HIDE DEF at
      <3>5. QED
        BY <2>1, <2>2, <2>3, <3>1, <3>3, <3>4
    <2>4. CASE n # 0
      <3>1. at[n] = [free |-> [x.free EXCEPT ![u] = p], slot |-> slot + d]
        BY <2>1, <2>2, <2>4
      <3> HIDE DEF at
      <3>2. x.free \in [DOMAIN Untyped -> Nat]
        BY DEF States
      <3>3. at[n] \in States
        BY <3>1, <3>2 DEF States
      <3>4. at[n].slot = slot + d /\ at[n].free[u] = p
            /\ \A v \in DOMAIN Untyped : v # u => at[n].free[v] = x.free[v]
        BY <3>1, <3>2
      <3>5. QED
        BY <2>1, <2>2, <3>3, <3>4
    <2>5. QED
      BY <2>3, <2>4
  <1>9. at[0] = x
    OBVIOUS
  <1> HIDE DEF at
  <1>10. ASSUME NEW n \in 1 .. last PROVE Performs(rs[n], at[n - 1], at[n], objs)
    <2>1. n \in 0 .. last /\ n - 1 \in 0 .. last /\ n # 0
      BY <1>4
    <2>2. PICK a, b \in 0 .. count : a = done[n - 1] /\ b = done[n] /\ a < b
      BY <1>4, <2>1 DEF Batches
    <2>3. PICK more \in Nat : more = b - a
      BY <2>2
    <2>4. PICK r : r = rs[n]
      OBVIOUS
    <2>5. r.ut = u /\ r.size = ksize /\ r.slot = slot + a /\ r.count = more
      <3>1. r = RetypeOf(u, ksize, slot + a, more)
        BY <1>7, <2>2, <2>3, <2>4 DEF batch
      <3>2. QED
        BY <3>1 DEF RetypeOf
    <2>6. PICK p, q \in Nat : p = start + a * size /\ q = start + b * size
      BY <2>2
    <2>7. PICK w \in Nat : w = at[n - 1].free[u] /\ w <= p
      BY <1>8, <2>1, <2>2, <2>6 DEF States
    <2>8. at[n].free[u] = q
      BY <1>8, <2>1, <2>2, <2>6
    <2>9. p % ksize = 0
      <3>1. a \in Nat
        BY <2>2
      <3>2. QED
        BY <2>6, <3>1, <1>aligned
    <2>10. RoundUp(w, ksize) <= p /\ RoundUp(w, ksize) \in Nat
      BY <2>7, <2>9, RoundUpLeast, RoundUpMultiple
    <2>11. q = p + more * size
      BY <2>2, <2>3, <2>6
    <2>12. more * ksize <= more * size
      <3>1. PICK e \in Nat : size = ksize + e
        <4>1. size - ksize \in Nat /\ size = ksize + (size - ksize)
          BY <1>1
        <4>2. QED
          BY <4>1
      <3>2. more * size = more * ksize + more * e /\ more * e \in Nat /\ more * ksize \in Nat
        BY <3>1
      <3>3. QED
        BY <3>2
    <2>13. RoundUp(w, ksize) + more * ksize <= q
      <3>1. more * ksize \in Nat /\ more * size \in Nat
        OBVIOUS
      <3>2. QED
        BY <2>10, <2>11, <2>12, <3>1
    <2>14. q <= end
      <3>1. PICK e \in Nat : count = b + e
        <4>1. count - b \in Nat /\ count = b + (count - b)
          BY <2>2
        <4>2. QED
          BY <4>1
      <3>2. count * size = b * size + e * size /\ e * size \in Nat /\ b * size \in Nat
        BY <2>2, <3>1
      <3>3. start + count * size <= end
        BY <1>5 DEF Slice
      <3>4. QED
        BY <2>6, <3>2, <3>3
    <2>15. \A s \in Slots(r) : s \in slot .. slot + count - 1
      BY <2>2, <2>3, <2>5 DEF Slots
    <2>16. r.slot = at[n - 1].slot /\ at[n].slot = at[n - 1].slot + r.count
      <3>1. at[n - 1].slot = slot + a /\ at[n].slot = slot + b
        BY <1>8, <2>1, <2>2
      <3>2. slot + b = (slot + a) + more
        BY <2>2, <2>3, SlotsAdd
      <3>3. QED
        BY <2>5, <3>1, <3>2
    <2>17. \A v \in DOMAIN Untyped : v # u => at[n].free[v] = at[n - 1].free[v]
      BY <1>8, <2>1
    <2>18. Performs(r, at[n - 1], at[n], objs)
      BY <1>5, <2>5, <2>7, <2>8, <2>13, <2>14, <2>15, <2>16, <2>17 DEF Performs, Unfixed
    <2>19. QED
      BY <2>4, <2>18
  <1>11. Passes(at, rs, last, objs)
    BY <1>8, <1>10 DEF Passes
  <1>12. Reaches(rs, x, at[last], objs)
    BY <1>7, <1>9, <1>11 DEF Reaches
  <1>13. done[last] = count /\ last \in 0 .. last
    BY <1>4 DEF Batches
  <1>14. Moves(rs, count, u, x, at[last], objs)
    BY <1>8, <1>12, <1>13 DEF Moves
  <1>15. QED
    BY <1>6, <1>8, <1>13, <1>14
-----------------------------------------------------------------------------
(* Device memory: the padding of a request.                                 *)

\* The padding object at w is aligned and ends at the address asked for or before.
LEMMA PadFits ==
  ASSUME NEW w \in Nat \ {0}, NEW phys \in Nat, w < phys
  PROVE  \E s \in Nat \ {0} : s = PadSize(w, phys) /\ w + s <= phys /\ w % s = 0
  <1>1. PICK size \in Nat \ {0} : size = phys - w
    OBVIOUS
  <1>2. PICK most \in Nat, low \in Nat : most = Msb(size) /\ low = Lsb(w)
    BY MsbBounds, LsbDivides
  <1>3. PICK b \in Nat : PadSize(w, phys) = TwoTo[b] /\ b <= most /\ b <= low
    <2>1. PICK b \in Nat : b = IF low < most THEN low ELSE most
      OBVIOUS
    <2>2. PadSize(w, phys) = IF b < 0 THEN 0 ELSE TwoTo[b]
      BY <1>1, <1>2, <2>1 DEF PadSize
    <2>3. QED
      BY <2>1, <2>2
  <1>4. PICK s \in Nat \ {0} : s = TwoTo[b] /\ s <= size /\ w % s = 0
    BY <1>2, <1>3, PowerFits
  <1>5. w + s <= phys
    BY <1>1, <1>4
  <1>6. QED
    BY <1>3, <1>4, <1>5

NextPad(w, phys) == w + PadSize(w, phys)

\* g is the recursive function that pads.
Padded(g, wm, phys) ==
  g = [w \in wm .. phys |->
         IF w = phys THEN <<>> ELSE <<PadSize(w, phys)>> \o g[NextPad(w, phys)]]

LEMMA PaddingByFunction ==
  ASSUME NEW wm \in Nat, NEW phys \in Nat, wm < phys => wm # 0, wm <= phys
  PROVE  \E g : Padded(g, wm, phys) /\ Padding(wm, phys) = g[wm]
  <1> DEFINE S == wm .. phys
             T == Seq(Nat \ {0})
             next(w) == NextPad(w, phys)
             D == [f \in [S -> T] |-> [w \in S |->
                     IF w = phys THEN <<>> ELSE <<PadSize(w, phys)>> \o f[next(w)]]]
             m == [w \in S |-> phys - w]
  <1>1. ASSUME NEW w \in S, w # phys
        PROVE  next(w) \in S /\ m[next(w)] < m[w] /\ PadSize(w, phys) \in Nat \ {0}
    <2>1. w \in Nat \ {0} /\ w < phys
      BY <1>1
    <2>2. PICK s \in Nat \ {0} : s = PadSize(w, phys) /\ w + s <= phys
      BY <2>1, PadFits
    <2>3. next(w) = w + s
      BY <2>2 DEF NextPad
    <2> HIDE DEF next
    <2>4. next(w) \in S /\ w < next(w)
      BY <2>1, <2>2, <2>3
    <2>5. QED
      BY <2>1, <2>2, <2>4
  <1> HIDE DEF next
  <1>2. ASSUME NEW f \in [S -> T], NEW w \in S
        PROVE  D[f][w] \in T
    <2>1. CASE w = phys
      BY <2>1
    <2>2. CASE w # phys
      <3>1. PICK s \in Nat \ {0} : s = PadSize(w, phys)
        BY <1>1, <2>2
      <3>2. PICK t \in T : t = f[next(w)]
        BY <1>1, <2>2
      <3>3. <<s>> \o t \in T
        OBVIOUS
      <3>4. QED
        BY <2>2, <3>1, <3>2, <3>3
    <2>3. QED
      BY <2>1, <2>2
  <1>3. D \in [[S -> T] -> [S -> T]]
    BY <1>2
  <1>4. ASSUME NEW f \in [S -> T], NEW g \in [S -> T], NEW w \in S,
               \A c \in S : m[c] < m[w] => f[c] = g[c]
        PROVE  D[f][w] = D[g][w]
    <2>1. w # phys => f[next(w)] = g[next(w)]
      BY <1>1, <1>4
    <2>2. QED
      BY <2>1
  <1>5. Inserts!WellFounded(D, S, T, m)
    <2>1. m \in [S -> Nat]
      OBVIOUS
    <2>2. T # {}
      BY EmptySeq
    <2> HIDE DEF D, m, S, T
    <2>3. QED
      BY <1>3, <1>4, <2>1, <2>2 DEF Inserts!WellFounded
  <1>6. \E f : Inserts!Satisfies(f, D, S, T)
    <2> HIDE DEF D, m, S, T
    <2>1. QED
      BY <1>5, Inserts!FixedPoint
  <1>7. PICK f : Padded(f, wm, phys)
    BY <1>6 DEF Inserts!Satisfies, Padded, next
  <1>8. Padding(wm, phys) = (CHOOSE g : Padded(g, wm, phys))[wm]
    BY DEF Padding, Padded, NextPad
  <1>9. QED
    BY <1>7, <1>8

(***************************************************************************)
(* Padding objects of the sizes pads bring the watermark from w to phys:   *)
(* marks holds the watermarks, and each object is aligned.                 *)
(***************************************************************************)
PadTo(marks, pads, w, phys) ==
  /\ pads \in Seq(Nat \ {0})
  /\ marks \in [0 .. Len(pads) -> w .. phys]
  /\ marks[0] = w /\ marks[Len(pads)] = phys
  /\ \A n \in 1 .. Len(pads) :
       marks[n - 1] % pads[n] = 0 /\ marks[n] = marks[n - 1] + pads[n]

LEMMA PadFirst ==
  ASSUME NEW w \in Nat, NEW s \in Nat \ {0}, NEW phys \in Nat, w % s = 0,
         NEW next \in Nat, next = w + s, next <= phys,
         NEW pads, NEW marks, PadTo(marks, pads, next, phys)
  PROVE  \E more : PadTo(more, <<s>> \o pads, w, phys)
  <1>1. PICK n \in Nat : n = Len(pads)
    BY DEF PadTo
  <1>2. PICK all : all = <<s>> \o pads
    OBVIOUS
  <1>3. /\ all \in Seq(Nat \ {0}) /\ Len(all) = n + 1 /\ all[1] = s
        /\ \A k \in 2 .. n + 1 : all[k] = pads[k - 1]
    <2>1. PICK one : one = <<s>>
      OBVIOUS
    <2>2. one \in Seq(Nat \ {0}) /\ Len(one) = 1 /\ one[1] = s
      BY <2>1
    <2>3. pads \in Seq(Nat \ {0})
      BY DEF PadTo
    <2>4. PICK l \in Nat : l = 1
      OBVIOUS
    <2>5. /\ one \o pads \in Seq(Nat \ {0}) /\ Len(one \o pads) = l + n
          /\ \A k \in 1 .. l : (one \o pads)[k] = one[k]
          /\ \A k \in l + 1 .. l + n : (one \o pads)[k] = pads[k - l]
      <3>1. PICK S : S = Nat \ {0}
        OBVIOUS
      <3>2. one \in Seq(S) /\ pads \in Seq(S) /\ l = Len(one)
        BY <2>2, <2>3, <2>4, <3>1
      <3>3. /\ one \o pads \in Seq(S) /\ Len(one \o pads) = l + n
            /\ \A k \in 1 .. l : (one \o pads)[k] = one[k]
            /\ \A k \in l + 1 .. l + n : (one \o pads)[k] = pads[k - l]
        BY <1>1, <3>2, ConcatOf
      <3>4. QED
        BY <3>1, <3>3
    <2>6. QED
      BY <1>2, <2>1, <2>2, <2>4, <2>5
  <1> DEFINE more == [k \in 0 .. n + 1 |-> IF k = 0 THEN w ELSE marks[k - 1]]
  <1>4. more[0] = w /\ \A k \in 1 .. n + 1 : more[k] = marks[k - 1] /\ k - 1 \in 0 .. n
    OBVIOUS
  <1>5. marks \in [0 .. n -> next .. phys] /\ marks[0] = next /\ marks[n] = phys
    BY <1>1 DEF PadTo
  <1>6. more \in [0 .. n + 1 -> w .. phys]
    <2>1. \A k \in 0 .. n + 1 : more[k] \in w .. phys
      <3>1. \A k \in 0 .. n + 1 : k = 0 \/ k \in 1 .. n + 1
        OBVIOUS
      <3>2. \A k \in 1 .. n + 1 : more[k] \in next .. phys
        BY <1>4, <1>5
      <3>3. \A a \in next .. phys : a \in w .. phys
        OBVIOUS
      <3>4. w \in w .. phys
        OBVIOUS
      <3> HIDE DEF more
      <3>5. QED
        BY <1>4, <3>1, <3>2, <3>3, <3>4
    <2>2. QED
      BY <2>1
  <1>7. more[n + 1] = phys
    BY <1>4, <1>5
  <1> HIDE DEF more
  <1>8. ASSUME NEW k \in 1 .. n + 1
        PROVE  more[k - 1] % all[k] = 0 /\ more[k] = more[k - 1] + all[k]
    <2>1. CASE k = 1
      <3>1. more[k - 1] = w /\ all[k] = s /\ more[k] = next
        BY <1>3, <1>4, <1>5, <2>1
      <3>2. QED
        BY <3>1
    <2>2. CASE k \in 2 .. n + 1
      <3>1. k - 1 \in 1 .. n + 1 /\ k - 1 \in 1 .. n
        BY <2>2
      <3>2. more[k] = marks[k - 1] /\ more[k - 1] = marks[(k - 1) - 1] /\ all[k] = pads[k - 1]
        BY <1>3, <1>4, <2>2, <3>1
      <3>3. QED
        BY <1>1, <3>1, <3>2 DEF PadTo
    <2>3. QED
      BY <2>1, <2>2
  <1>9. PadTo(more, all, w, phys)
    BY <1>3, <1>4, <1>6, <1>7, <1>8 DEF PadTo
  <1>10. QED
    BY <1>2, <1>9
(***************************************************************************)
(* The padding brings the watermark to the address asked for.              *)
(***************************************************************************)
LEMMA PaddingReaches ==
  ASSUME NEW wm \in Nat, NEW phys \in Nat, wm < phys => wm # 0, wm <= phys
  PROVE  \E marks : PadTo(marks, Padding(wm, phys), wm, phys)
  <1>1. PICK g : Padded(g, wm, phys) /\ Padding(wm, phys) = g[wm]
    BY PaddingByFunction
  <1> DEFINE T == {n \in 0 .. phys - wm :
                     \A w \in phys - n .. phys : \E marks : PadTo(marks, g[w], w, phys)}
  <1>2. 0 \in T
    <2>1. PICK none : none = <<>>
      OBVIOUS
    <2>2. none \in Seq(Nat \ {0}) /\ Len(none) = 0
      BY <2>1
    <2> DEFINE marks == [n \in {0} |-> phys]
    <2>3. marks[0] = phys /\ marks \in [0 .. 0 -> phys .. phys]
      <3>1. 0 .. 0 = {0} /\ phys \in phys .. phys
        OBVIOUS
      <3>2. QED
        BY <3>1
    <2> HIDE DEF marks
    <2>4. PadTo(marks, none, phys, phys)
      BY <2>2, <2>3 DEF PadTo
    <2>5. g[phys] = none
      BY <1>1, <2>1 DEF Padded
    <2>6. \A w \in phys - 0 .. phys : w = phys
      OBVIOUS
    <2>7. 0 \in 0 .. phys - wm
      OBVIOUS
    <2>8. QED
      BY <2>4, <2>5, <2>6, <2>7
  <1>3. ASSUME NEW n \in 0 .. (phys - wm) - 1, n \in T PROVE n + 1 \in T
    <2>1. PICK w \in Nat \ {0} : w = phys - (n + 1) /\ wm <= w /\ w < phys
      <3>1. PICK w \in Nat : w = phys - (n + 1) /\ wm <= w /\ w < phys
        OBVIOUS
      <3>2. QED
        BY <3>1
    <2>2. PICK s \in Nat \ {0} : s = PadSize(w, phys) /\ w + s <= phys /\ w % s = 0
      BY <2>1, PadFits
    <2>3. PICK next \in Nat : next = w + s /\ next = NextPad(w, phys)
      BY <2>2 DEF NextPad
    <2>4. g[w] = <<s>> \o g[next]
      <3>1. w \in wm .. phys /\ w # phys
        BY <2>1
      <3>2. g[w] = IF w = phys THEN <<>> ELSE <<PadSize(w, phys)>> \o g[NextPad(w, phys)]
        <4> HIDE DEF T
        <4>1. Padded(g, wm, phys)
          BY <1>1
        <4>2. QED
          BY <3>1, <4>1, Zenon DEF Padded
      <3>3. QED
        BY <2>2, <2>3, <3>1, <3>2
    <2>5. next \in phys - n .. phys
      BY <2>1, <2>2, <2>3
    <2>6. PICK marks : PadTo(marks, g[next], next, phys)
      BY <1>3, <2>5
    <2>7. \E more : PadTo(more, g[w], w, phys)
      <3>1. next <= phys
        BY <2>5
      <3> HIDE DEF T
      <3>2. \E more : PadTo(more, <<s>> \o g[next], w, phys)
        BY <2>2, <2>3, <2>6, <3>1, PadFirst
      <3>3. QED
        BY <2>4, <3>2
    <2>8. \A v \in phys - (n + 1) .. phys : v = w \/ v \in phys - n .. phys
      BY <2>1
    <2>9. n + 1 \in 0 .. phys - wm
      OBVIOUS
    <2>10. QED
      BY <1>3, <2>7, <2>8, <2>9
  <1>4. phys - wm \in T
    <2> HIDE DEF T
    <2>1. PICK n \in Nat : n = phys - wm
      OBVIOUS
    <2>2. \A k \in 0 .. n - 1 : k \in T => k + 1 \in T
      BY <1>3, <2>1
    <2>3. QED
      BY <1>2, <2>1, <2>2, Inserts!UpTo
  <1>5. wm \in phys - (phys - wm) .. phys
    OBVIOUS
  <1>6. \E marks : PadTo(marks, g[wm], wm, phys)
    BY <1>4, <1>5
  <1>7. QED
    BY <1>1, <1>6

LEMMA Placed ==
  ASSUME NEW u \in DOMAIN Untyped, NEW phys \in Nat, Placeable(phys, u), watermark[u] \in Nat
  PROVE  \E marks : PadTo(marks, Padding(watermark[u], phys), watermark[u], phys)
  <1>1. PICK wm \in Nat : wm = watermark[u]
    OBVIOUS
  <1>2. wm <= phys /\ (wm < phys => PadSize(wm, phys) # 0)
    BY <1>1 DEF Placeable
  <1>3. ASSUME wm = 0, wm < phys PROVE FALSE
    <2>1. Lsb(wm) = -1
      BY <1>3 DEF Lsb
    <2>2. PICK size \in Nat \ {0} : size = phys - wm
      BY <1>3
    <2>3. Msb(size) \in Nat
      BY <2>2, MsbBounds
    <2>4. PadSize(wm, phys) = 0
      BY <2>1, <2>2, <2>3 DEF PadSize
    <2>5. QED
      BY <1>2, <1>3, <2>4
  <1>4. QED
    BY <1>1, <1>2, <1>3, PaddingReaches

PadRetypes(u, pads, slot) == [n \in DOMAIN pads |-> RetypeOf(u, pads[n], slot + (n - 1), 1)]

(***************************************************************************)
(* The retypes of the padding bring the kernel to the address asked for.   *)
(***************************************************************************)
LEMMA PadsReach ==
  ASSUME NEW u \in DOMAIN Untyped, NEW x \in States, NEW objs, NEW phys \in Nat,
         NEW wm \in Nat, NEW slot \in Nat, wm = x.free[u], slot = x.slot,
         NEW pads, NEW last \in Nat, last = Len(pads),
         NEW marks, PadTo(marks, pads, wm, phys), phys <= Untyped[u].end,
         Unfixed(objs, slot, last)
  PROVE  \E y \in States :
           Moves(PadRetypes(u, pads, slot), last, u, x, y, objs) /\ y.free[u] = phys
  <1>1. PICK end \in Nat : end = Untyped[u].end /\ phys <= end
    BY UntypedAssumption
  <1>2. PICK rs : rs = PadRetypes(u, pads, slot)
    OBVIOUS
  <1>3. pads \in Seq(Nat \ {0}) /\ \A n \in 1 .. last : pads[n] \in Nat \ {0}
    BY DEF PadTo
  <1>4. /\ rs \in Seq(RetypeSet) /\ Len(rs) = last
        /\ \A n \in 1 .. last : rs[n] = RetypeOf(u, pads[n], slot + (n - 1), 1)
    <2>1. DOMAIN pads = 1 .. last
      BY <1>3
    <2>2. rs = [n \in 1 .. last |-> RetypeOf(u, pads[n], slot + (n - 1), 1)]
      BY <1>2, <2>1 DEF PadRetypes
    <2>3. ASSUME NEW n \in 1 .. last PROVE RetypeOf(u, pads[n], slot + (n - 1), 1) \in RetypeSet
      <3>1. pads[n] \in Nat \ {0} /\ slot + (n - 1) \in Nat
        BY <1>3
      <3>2. QED
        BY <3>1 DEF RetypeOf, RetypeSet
    <2>4. \A n \in 1 .. last : rs[n] = RetypeOf(u, pads[n], slot + (n - 1), 1) /\ rs[n] \in RetypeSet
      BY <2>2, <2>3
    <2>5. rs = [n \in 1 .. last |-> rs[n]]
      BY <2>2
    <2>6. rs \in Seq(RetypeSet) /\ Len(rs) = last
      <3>1. \A n \in 1 .. last : rs[n] \in RetypeSet
        BY <2>4
      <3>2. QED
        BY <2>5, <3>1
    <2>7. QED
      BY <2>4, <2>6
  <1>5. marks \in [0 .. last -> Nat] /\ (\A n \in 0 .. last : marks[n] <= phys)
        /\ marks[0] = wm /\ marks[last] = phys
    <2>1. marks \in [0 .. last -> wm .. phys] /\ marks[0] = wm /\ marks[last] = phys
      BY <1>2 DEF PadTo
    <2>2. \A a \in wm .. phys : a \in Nat /\ a <= phys
      OBVIOUS
    <2>3. QED
      BY <2>1, <2>2
  <1> DEFINE at == [n \in 0 .. last |->
                     [free |-> [x.free EXCEPT ![u] = marks[n]], slot |-> slot + n]]
  <1>6. ASSUME NEW n \in 0 .. last
        PROVE  /\ at[n] \in States /\ at[n].slot = slot + n /\ at[n].free[u] = marks[n]
               /\ \A v \in DOMAIN Untyped : v # u => at[n].free[v] = x.free[v]
    <2>1. at[n] = [free |-> [x.free EXCEPT ![u] = marks[n]], slot |-> slot + n]
      OBVIOUS
    <2> HIDE DEF at
    <2>2. x.free \in [DOMAIN Untyped -> Nat] /\ marks[n] \in Nat /\ slot + n \in Nat
      BY <1>5 DEF States
    <2>3. at[n] \in States
      BY <2>1, <2>2 DEF States
    <2>4. QED
      BY <2>1, <2>2, <2>3
  <1>7. at[0] = x
    <2>1. at[0] = [free |-> [x.free EXCEPT ![u] = marks[0]], slot |-> slot + 0]
      OBVIOUS
    <2> HIDE DEF at
    <2>2. [x.free EXCEPT ![u] = marks[0]] = x.free
      <3>1. x.free \in [DOMAIN Untyped -> Nat]
        BY DEF States
      <3>2. QED
        BY <1>5, <3>1
    <2>3. slot + 0 = slot
      OBVIOUS
    <2>4. x = [free |-> x.free, slot |-> x.slot]
      BY DEF States
    <2>5. QED
      BY <2>1, <2>2, <2>3, <2>4
  <1> HIDE DEF at
  <1>8. ASSUME NEW n \in 1 .. last PROVE Performs(rs[n], at[n - 1], at[n], objs)
    <2>1. n \in 0 .. last /\ n - 1 \in 0 .. last
      OBVIOUS
    <2>2. PICK p \in Nat \ {0} : p = pads[n]
      BY <1>3
    <2>3. PICK a, b \in Nat : a = marks[n - 1] /\ b = marks[n]
      BY <1>5, <2>1
    <2>4. a % p = 0 /\ b = a + p /\ b <= phys
      BY <1>5, <2>1, <2>2, <2>3 DEF PadTo
    <2>5. PICK r : r = rs[n]
      OBVIOUS
    <2>6. r.ut = u /\ r.size = p /\ r.slot = slot + (n - 1) /\ r.count = 1
      <3>1. r = RetypeOf(u, p, slot + (n - 1), 1)
        BY <1>4, <2>2, <2>5
      <3>2. QED
        BY <3>1 DEF RetypeOf
    <2>7. RoundUp(a, p) = a /\ r.count * r.size = p
      BY <2>4, <2>6 DEF RoundUp
    <2>8. at[n - 1].free[u] = a /\ at[n].free[u] = b
      BY <1>6, <2>1, <2>3
    <2>9. at[n - 1].slot = slot + (n - 1) /\ at[n].slot = slot + n
      BY <1>6, <2>1
    <2>10. \A s \in Slots(r) : s \in DOMAIN objs /\ ~objs[s].fixed
      <3>1. \A s \in Slots(r) : s \in slot .. slot + last - 1
        BY <2>6 DEF Slots
      <3>2. QED
        BY <3>1 DEF Unfixed
    <2>11. \A v \in DOMAIN Untyped : v # u => at[n].free[v] = at[n - 1].free[v]
      BY <1>6, <2>1
    <2>12. a + p <= b /\ b <= end
      BY <1>1, <2>4
    <2>13. slot + n = (slot + (n - 1)) + 1
      OBVIOUS
    <2>14. Performs(r, at[n - 1], at[n], objs)
      BY <1>1, <2>4, <2>6, <2>7, <2>8, <2>9, <2>10, <2>11, <2>12, <2>13 DEF Performs
    <2>15. QED
      BY <2>5, <2>14
  <1>9. Passes(at, rs, last, objs)
    BY <1>6, <1>8 DEF Passes
  <1>10. Reaches(rs, x, at[last], objs)
    BY <1>4, <1>7, <1>9 DEF Reaches
  <1>11. last \in 0 .. last
    OBVIOUS
  <1>12. Moves(rs, last, u, x, at[last], objs)
    BY <1>6, <1>10, <1>11 DEF Moves
  <1>13. QED
    BY <1>2, <1>5, <1>6, <1>11, <1>12
-----------------------------------------------------------------------------
(* The tool's requests preserve the invariant.                              *)

\* What is known of objects that were there before more were added.
LEMMA KeepsOld ==
  ASSUME NEW olds \in Seq(ObjectSet), NEW news \in Seq(ObjectSet),
         NEW l \in Nat, NEW n \in Nat, l = Len(olds), n = Len(news)
  PROVE  /\ olds \o news \in Seq(ObjectSet) /\ Len(olds \o news) = l + n
         /\ DOMAIN (olds \o news) = 1 .. l + n
         /\ \A s \in 1 .. l : (olds \o news)[s] = olds[s]
         /\ \A s \in l + 1 .. l + n : (olds \o news)[s] = news[s - l]
  BY ConcatOf

LEMMA ObjectsStep ==
  ASSUME NEW type \in DOMAIN AllocSize, NEW count \in Nat, AllocInv, AllocateObjects(type, count)
  PROVE  AllocInv'
  <1>1. PICK size \in Nat \ {0} : size = AllocSize[type]
    BY SizeAssumption
  <1>2. PICK u \in DOMAIN Untyped, start \in Nat :
          /\ start = RoundUp(allocation_point[u], size)
          /\ FirstFit(u, size, count)
          /\ allocation_point' = [allocation_point EXCEPT ![u] = start + count * size]
          /\ invocations' = invocations \o Retypes(u, type, cap_slot, count)
          /\ objects' = objects \o
               [n \in 1..count |-> [type |-> type, phys |-> start + (n - 1) * size, fixed |-> FALSE]]
    <2>1. \A u \in DOMAIN Untyped : RoundUp(allocation_point[u], size) \in Nat
      BY <1>1, RoundUpMultiple DEF AllocInv, AllocTypes
    <2>2. QED
      BY <1>1, <2>1 DEF AllocateObjects
  <1>3. cap_slot' = cap_slot + count /\ UNCHANGED <<watermark, free, placed>>
    BY DEF AllocateObjects
  <1>4. PICK x, y : Begins(x) /\ Reaches(invocations, x, y, objects) /\ Ends(y)
    BY DEF AllocInv
  <1>5. allocation_point \in [DOMAIN Untyped -> Nat] /\ watermark \in [DOMAIN Untyped -> Nat]
        /\ free \in [DOMAIN Untyped -> Nat] /\ cap_slot \in Nat \ {0}
        /\ objects \in Seq(ObjectSet) /\ DOMAIN objects = 1 .. cap_slot - 1
    BY DEF AllocInv, AllocTypes
  <1>6. ~Untyped[u].device /\ start + count * size <= Untyped[u].end
    BY <1>2 DEF FirstFit, Fits
  <1>7. start \in Nat /\ start % size = 0 /\ y \in States /\ y.slot = cap_slot /\ y.free[u] <= start
    <2>1. PICK p \in Nat : p = allocation_point[u]
      BY <1>5
    <2>2. start \in Nat /\ start % size = 0 /\ p <= start
      BY <1>2, <2>1, RoundUpMultiple
    <2>3. y \in States /\ y.slot = cap_slot /\ y.free[u] <= p
      BY <1>4, <1>6, <2>1 DEF Ends
    <2>4. y.free[u] \in Nat
      BY <2>3 DEF States
    <2>5. QED
      BY <2>2, <2>3, <2>4
  <1>8. PICK news : news = [n \in 1..count |->
                       [type |-> type, phys |-> start + (n - 1) * size, fixed |-> FALSE]]
    OBVIOUS
  <1>9. news \in Seq(ObjectSet) /\ Len(news) = count /\ \A n \in 1 .. count : ~news[n].fixed
    <2>1. ASSUME NEW n \in 1 .. count PROVE news[n] \in ObjectSet /\ ~news[n].fixed
      <3>1. (n - 1) * size \in Nat
        OBVIOUS
      <3>2. PICK p \in Nat : p = start + (n - 1) * size
        BY <1>7, <3>1
      <3>3. news[n] = [type |-> type, phys |-> p, fixed |-> FALSE]
        BY <1>8, <3>2
      <3>4. QED
        BY <3>3 DEF ObjectSet
    <2>2. news = [n \in 1 .. count |-> news[n]]
      BY <1>8
    <2>3. \A n \in 1 .. count : news[n] \in ObjectSet
      BY <2>1
    <2>4. news \in Seq(ObjectSet) /\ Len(news) = count
      BY <2>2, <2>3
    <2>5. QED
      BY <2>1, <2>4
  <1>10. PICK l \in Nat : l = cap_slot - 1 /\ l = Len(objects)
    <2>1. cap_slot - 1 \in Nat /\ Len(objects) \in Nat /\ DOMAIN objects = 1 .. Len(objects)
      BY <1>5
    <2>2. cap_slot - 1 = Len(objects)
      BY <1>5, <2>1
    <2>3. QED
      BY <2>1, <2>2
  <1>11. /\ objects' \in Seq(ObjectSet) /\ DOMAIN objects' = 1 .. l + count
         /\ \A s \in 1 .. l : objects'[s] = objects[s]
         /\ \A s \in l + 1 .. l + count : ~objects'[s].fixed
    <2>1. objects' = objects \o news
      BY <1>2, <1>8
    <2>2. /\ objects' \in Seq(ObjectSet) /\ DOMAIN objects' = 1 .. l + count
          /\ \A s \in 1 .. l : objects'[s] = objects[s]
          /\ \A s \in l + 1 .. l + count : objects'[s] = news[s - l]
      <3>1. objects \in Seq(ObjectSet) /\ news \in Seq(ObjectSet) /\ l = Len(objects) /\ count = Len(news)
        BY <1>5, <1>9, <1>10
      <3>2. PICK both : both = objects \o news
        OBVIOUS
      <3>3. /\ both \in Seq(ObjectSet) /\ DOMAIN both = 1 .. l + count
            /\ \A s \in 1 .. l : both[s] = objects[s]
            /\ \A s \in l + 1 .. l + count : both[s] = news[s - l]
        BY <3>1, <3>2, KeepsOld
      <3>4. QED
        BY <2>1, <3>2, <3>3
    <2>3. \A s \in l + 1 .. l + count : s - l \in 1 .. count
      OBVIOUS
    <2>4. QED
      BY <1>9, <2>2, <2>3
  <1>12. PICK objs : objs = objects' /\ Unfixed(objs, cap_slot, count)
    <2>1. \A s \in cap_slot .. cap_slot + count - 1 : s \in l + 1 .. l + count
      BY <1>5, <1>10
    <2>2. QED
      BY <1>10, <1>11, <2>1 DEF Unfixed
  <1>13. DOMAIN objects = 1 .. l /\ DOMAIN objects \subseteq DOMAIN objects'
    BY <1>5, <1>10, <1>11
  <1>14. Reaches(invocations, x, y, objects')
    BY <1>4, <1>11, <1>13, MoreObjects
  <1>15. PICK z \in States :
           /\ Moves(Retypes(u, type, cap_slot, count), count, u, y, z, objs)
           /\ z.free[u] <= start + count * size
    <2>1. y \in States /\ cap_slot \in Nat /\ cap_slot = y.slot
      BY <1>5, <1>7
    <2>2. start \in Nat /\ start % size = 0 /\ y.free[u] <= start
      BY <1>7
    <2>3. QED
      BY <1>1, <1>6, <1>12, <2>1, <2>2, RetypesReach DEF Slice
  <1>16. Reaches(invocations', x, z, objects')
    BY <1>2, <1>12, <1>14, <1>15, ReachesConcat DEF Moves
  <1>17. Ends(z)'
    <2>1. z.slot = cap_slot'
      BY <1>3, <1>7, <1>15 DEF Moves
    <2>2. PICK p : p = start + count * size
      OBVIOUS
    <2>3. allocation_point' = [allocation_point EXCEPT ![u] = p] /\ z.free[u] <= p
      BY <1>2, <1>15, <2>2
    <2>4. ASSUME NEW v \in DOMAIN Untyped
          PROVE  IF Untyped[v].device THEN z.free[v] = watermark'[v]
                 ELSE z.free[v] <= allocation_point'[v]
      <3>1. CASE v = u
        BY <1>5, <1>6, <2>3, <3>1
      <3>2. CASE v # u
        BY <1>3, <1>4, <1>5, <1>15, <2>3, <3>2 DEF Ends, Moves
      <3>3. QED
        BY <3>1, <3>2
    <2>5. QED
      BY <2>1, <2>4 DEF Ends
  <1>18. Begins(x)'
    BY <1>3, <1>4 DEF Begins
  <1>19. AllocTypes'
    <2>1. invocations' \in Seq(RetypeSet)
      BY <1>16 DEF Reaches
    <2>2. cap_slot' \in Nat \ {0} /\ l + count = cap_slot' - 1
      BY <1>3, <1>5, <1>10
    <2>3. allocation_point' \in [DOMAIN Untyped -> Nat]
      <3>1. start + count * size \in Nat
        BY <1>7
      <3>2. QED
        BY <1>2, <1>5, <3>1
    <2>4. DOMAIN placed' \subseteq DOMAIN objects'
      BY <1>3, <1>13 DEF AllocInv, AllocTypes
    <2>5. {allocation_point', watermark', free'} \subseteq [DOMAIN Untyped -> Nat]
      BY <1>3, <1>5, <2>3
    <2>6. DOMAIN objects' = 1 .. cap_slot' - 1
      BY <1>11, <2>2
    <2>7. QED
      BY <1>11, <2>1, <2>2, <2>4, <2>5, <2>6 DEF AllocTypes
  <1>20. FixedWhereAsked'
    BY <1>3, <1>11, <1>13 DEF AllocInv, AllocTypes, FixedWhereAsked
  <1>21. QED
    BY <1>16, <1>17, <1>18, <1>19, <1>20 DEF AllocInv
LEMMA FixedStep ==
  ASSUME NEW f \in FixedPages, AllocInv, AllocateFixed(f[1], f[2])
  PROVE  AllocInv'
  <1>1. PICK phys \in Nat, type \in DOMAIN AllocSize, size \in Nat \ {0} :
          /\ phys = f[1] /\ type = f[2]
          /\ size = AllocSize[type] /\ size = KernelSize[type] /\ phys % size = 0
    BY FixedPagesAssumption, SizeAssumption
  <1> DEFINE Makes(v, sizes) ==
          /\ Placeable(phys, v)
          /\ invocations' = invocations \o
               [n \in DOMAIN sizes |-> RetypeOf(v, sizes[n], cap_slot + (n - 1), 1)] \o
               <<RetypeOf(v, KernelSize[type], cap_slot + Len(sizes), 1)>>
          /\ objects' = objects \o
               [n \in DOMAIN sizes |-> [type |-> "untyped", phys |-> 0, fixed |-> FALSE]] \o
               <<[type |-> type, phys |-> phys, fixed |-> TRUE]>>
          /\ cap_slot' = cap_slot + Len(sizes) + 1
          /\ watermark' = [watermark EXCEPT ![v] = phys + AllocSize[type]]
  <1>2. PICK u \in DOMAIN Untyped, pads \in {Padding(watermark[v], phys) : v \in DOMAIN Untyped} :
          pads = Padding(watermark[u], phys) /\ Makes(u, pads)
    <2>1. \E u \in DOMAIN Untyped : Makes(u, Padding(watermark[u], phys))
      BY <1>1 DEF AllocateFixed
    <2> HIDE DEF Makes
    <2>2. QED
      BY <2>1
  <1>3. UNCHANGED <<allocation_point, free, placed>>
    BY DEF AllocateFixed
  <1>4. PICK x, y : Begins(x) /\ Reaches(invocations, x, y, objects) /\ Ends(y)
    BY DEF AllocInv
  <1>5. allocation_point \in [DOMAIN Untyped -> Nat] /\ watermark \in [DOMAIN Untyped -> Nat]
        /\ free \in [DOMAIN Untyped -> Nat] /\ cap_slot \in Nat \ {0}
        /\ objects \in Seq(ObjectSet) /\ DOMAIN objects = 1 .. cap_slot - 1
    BY DEF AllocInv, AllocTypes
  <1>6. PICK end \in Nat : end = Untyped[u].end /\ phys + size <= end /\ Untyped[u].device
    <2>1. Untyped[u].device /\ Untyped[u].base <= f[1] /\ f[1] < Untyped[u].end
      BY <1>1, <1>2 DEF Placeable, In
    <2>2. f[1] + AllocSize[f[2]] <= Untyped[u].end
      BY <2>1, FixedPagesAssumption
    <2>3. QED
      BY <1>1, <2>1, <2>2, UntypedAssumption
  <1>7. PICK slot \in Nat \ {0} : slot = cap_slot
    BY <1>5
  <1>8. y \in States /\ y.slot = slot /\ y.free[u] = watermark[u]
    BY <1>4, <1>6, <1>7 DEF Ends
  <1>9. PICK marks : PadTo(marks, pads, y.free[u], phys)
    BY <1>2, <1>5, <1>8, Placed
  <1>10. PICK count \in Nat : count = Len(pads) /\ DOMAIN pads = 1 .. count
    BY <1>9 DEF PadTo
  <1>11. PICK l \in Nat : l = slot - 1 /\ l = Len(objects) /\ DOMAIN objects = 1 .. l
    <2>1. cap_slot - 1 \in Nat /\ Len(objects) \in Nat /\ DOMAIN objects = 1 .. Len(objects)
      BY <1>5
    <2>2. cap_slot - 1 = Len(objects)
      BY <1>5, <2>1
    <2>3. QED
      BY <1>7, <2>1, <2>2
  <1> DEFINE page == [type |-> type, phys |-> phys, fixed |-> TRUE]
  <1>12. /\ objects' \in Seq(ObjectSet) /\ DOMAIN objects' = 1 .. l + count + 1
         /\ \A s \in 1 .. l : objects'[s] = objects[s]
         /\ \A s \in l + 1 .. l + count : ~objects'[s].fixed
         /\ objects'[l + count + 1] = page
    <2>1. PICK padding : padding = [n \in 1 .. count |-> [type |-> "untyped", phys |-> 0, fixed |-> FALSE]]
      OBVIOUS
    <2>2. padding \in Seq(ObjectSet) /\ Len(padding) = count /\ \A n \in 1 .. count : ~padding[n].fixed
      <3>1. ASSUME NEW n \in 1 .. count PROVE padding[n] \in ObjectSet /\ ~padding[n].fixed
        <4>1. padding[n] = [type |-> "untyped", phys |-> 0, fixed |-> FALSE]
          BY <2>1
        <4>2. QED
          BY <4>1 DEF ObjectSet
      <3>2. padding = [n \in 1 .. count |-> padding[n]]
        BY <2>1
      <3>3. \A n \in 1 .. count : padding[n] \in ObjectSet
        BY <3>1
      <3>4. padding \in Seq(ObjectSet) /\ Len(padding) = count
        BY <3>2, <3>3
      <3>5. QED
        BY <3>1, <3>4
    <2>3. PICK one : one = <<page>>
      OBVIOUS
    <2>4. one \in Seq(ObjectSet) /\ Len(one) = 1 /\ one[1] = page
      <3>1. page \in ObjectSet
        BY DEF ObjectSet
      <3> HIDE DEF page
      <3>2. QED
        BY <2>3, <3>1
    <2> HIDE DEF page
    <2>5. PICK mid : mid = objects \o padding
      OBVIOUS
    <2>6. /\ mid \in Seq(ObjectSet) /\ Len(mid) = l + count /\ DOMAIN mid = 1 .. l + count
          /\ \A s \in 1 .. l : mid[s] = objects[s]
          /\ \A s \in l + 1 .. l + count : mid[s] = padding[s - l]
      <3>1. objects \in Seq(ObjectSet) /\ l = Len(objects) /\ padding \in Seq(ObjectSet)
            /\ count = Len(padding)
        BY <1>5, <1>11, <2>2
      <3>2. QED
        BY <2>5, <3>1, KeepsOld
    <2>7. PICK all : all = mid \o one
      OBVIOUS
    <2>8. PICK k, m \in Nat : k = l + count /\ m = 1
      OBVIOUS
    <2>9. /\ all \in Seq(ObjectSet) /\ DOMAIN all = 1 .. k + m
          /\ \A s \in 1 .. k : all[s] = mid[s]
          /\ \A s \in k + 1 .. k + m : all[s] = one[s - k]
      <3>1. k = Len(mid) /\ m = Len(one) /\ mid \in Seq(ObjectSet) /\ one \in Seq(ObjectSet)
        BY <2>4, <2>6, <2>8
      <3>2. QED
        BY <2>7, <3>1, KeepsOld
    <2>10. objects' = all
      <3>1. objects' = objects \o
               [n \in DOMAIN pads |-> [type |-> "untyped", phys |-> 0, fixed |-> FALSE]] \o <<page>>
        BY <1>2 DEF page
      <3>2. objects' = (objects \o padding) \o one
        BY <1>10, <2>1, <2>3, <3>1
      <3>3. QED
        BY <2>5, <2>7, <3>2
    <2>11. \A s \in 1 .. l : all[s] = objects[s]
      <3>1. \A s \in 1 .. l : s \in 1 .. k
        BY <2>8
      <3>2. QED
        BY <2>6, <2>9, <3>1
    <2>12. \A s \in l + 1 .. l + count : ~all[s].fixed
      <3>1. \A s \in l + 1 .. l + count : s \in 1 .. k /\ s - l \in 1 .. count
        BY <2>8
      <3>2. \A s \in l + 1 .. l + count : all[s] = padding[s - l]
        BY <2>6, <2>9, <3>1
      <3>3. QED
        BY <2>2, <3>1, <3>2
    <2>13. all[l + count + 1] = page
      <3>1. k + 1 \in k + 1 .. k + m /\ (k + 1) - k = 1 /\ l + count + 1 = k + 1
        BY <2>8
      <3>2. QED
        BY <2>4, <2>9, <3>1
    <2>14. 1 .. k + m = 1 .. l + count + 1
      BY <2>8
    <2>15. QED
      BY <2>9, <2>10, <2>11, <2>12, <2>13, <2>14
  <1> HIDE DEF page
  <1>13. DOMAIN objects \subseteq DOMAIN objects'
    BY <1>11, <1>12
  <1>14. Reaches(invocations, x, y, objects')
    BY <1>4, <1>11, <1>12, <1>13, MoreObjects
  <1>15. \A s \in y.slot .. y.slot + count - 1 : s \in DOMAIN objects' /\ ~objects'[s].fixed
    <2>1. \A s \in y.slot .. y.slot + count - 1 : s \in l + 1 .. l + count
      BY <1>8, <1>11
    <2>2. QED
      BY <1>12, <2>1
  <1>16. phys <= end
    BY <1>1, <1>6
  <1>17. PICK pad \in States :
           /\ Reaches(PadRetypes(u, pads, y.slot), y, pad, objects')
           /\ pad.slot = y.slot + count
           /\ \A v \in DOMAIN Untyped : v # u => pad.free[v] = y.free[v]
           /\ pad.free[u] = phys
    <2>1. phys <= Untyped[u].end
      BY <1>6, <1>16
    <2>2. PICK objs : objs = objects'
      OBVIOUS
    <2>3. Unfixed(objs, slot, count)
      BY <1>8, <1>10, <1>15, <2>2 DEF Unfixed
    <2>4. PICK wm \in Nat : wm = y.free[u] /\ PadTo(marks, pads, wm, phys)
      BY <1>5, <1>8, <1>9
    <2>5. y \in States /\ slot = y.slot /\ count = Len(pads)
      BY <1>8, <1>10
    <2>6. \E pad \in States :
            Moves(PadRetypes(u, pads, slot), count, u, y, pad, objs) /\ pad.free[u] = phys
      BY <2>1, <2>3, <2>4, <2>5, PadsReach
    <2>7. QED
      BY <1>8, <2>2, <2>6 DEF Moves
  <1>18. PICK next \in Nat : next = phys + size
    OBVIOUS
  <1> DEFINE z == [free |-> [pad.free EXCEPT ![u] = next], slot |-> slot + count + 1]
  <1>19. /\ z \in States /\ z.slot = slot + count + 1 /\ z.free[u] = next
         /\ \A v \in DOMAIN Untyped : v # u => z.free[v] = pad.free[v]
    <2>1. pad.free \in [DOMAIN Untyped -> Nat]
      BY DEF States
    <2>2. z \in States
      BY <2>1 DEF States
    <2>3. QED
      BY <2>1, <2>2
  <1> HIDE DEF z
  <1>20. PICK r \in RetypeSet : /\ r = RetypeOf(u, KernelSize[type], slot + count, 1)
                               /\ r.ut = u /\ r.size = size /\ r.slot = slot + count /\ r.count = 1
    <2>1. PICK r : r = [ut |-> u, size |-> size, slot |-> slot + count, count |-> 1]
      OBVIOUS
    <2>2. r \in RetypeSet
      BY <2>1 DEF RetypeSet
    <2>3. r = RetypeOf(u, KernelSize[type], slot + count, 1)
      BY <1>1, <2>1 DEF RetypeOf
    <2>4. QED
      BY <2>1, <2>2, <2>3
  <1>21. Performs(r, pad, z, objects')
    <2>1. RoundUp(phys, size) = phys /\ 1 * size = size
      BY <1>1 DEF RoundUp
    <2>2. pad.slot = slot + count
      BY <1>8, <1>17
    <2>3. \A s \in Slots(r) : s = l + count + 1
      BY <1>11, <1>20 DEF Slots
    <2>4. l + count + 1 \in DOMAIN objects' /\ objects'[l + count + 1].phys = phys
      BY <1>12 DEF page
    <2>5. \A s \in Slots(r) : s \in DOMAIN objects' /\ objects'[s].phys = phys
      BY <2>3, <2>4
    <2>6. \A v \in DOMAIN Untyped : v # u => z.free[v] = pad.free[v]
      BY <1>19
    <2>7. r.ut = u /\ r.size = size /\ r.slot = slot + count /\ r.count = 1
      BY <1>20
    <2>8. pad.free[u] = phys /\ z.free[u] = next
      BY <1>17, <1>19
    <2>9. z.slot = pad.slot + r.count
      BY <1>19, <2>2, <2>7
    <2>10. phys % size = 0 /\ next <= end
      BY <1>1, <1>6, <1>18
    <2>11. RoundUp(phys, size) + r.count * size <= next /\ next = phys + r.count * size
      BY <1>18, <2>1, <2>7
    <2>12. QED
      BY <1>6, <2>2, <2>5, <2>6, <2>7, <2>8, <2>9, <2>10, <2>11 DEF Performs
  <1>22. Reaches(invocations', x, z, objects')
    <2>1. PICK one : one = <<r>>
      OBVIOUS
    <2>2. Reaches(one, pad, z, objects')
      BY <1>19, <1>21, <2>1, ReachesOne
    <2>3. PICK first : first = invocations \o PadRetypes(u, pads, slot)
      OBVIOUS
    <2>4. Reaches(first, x, pad, objects')
      BY <1>8, <1>14, <1>17, <2>3, ReachesConcat
    <2>5. Reaches(first \o one, x, z, objects')
      BY <2>2, <2>4, ReachesConcat
    <2>6. invocations' = first \o one
      BY <1>2, <1>7, <1>10, <1>20, <2>1, <2>3 DEF PadRetypes
    <2>7. QED
      BY <2>5, <2>6
  <1>23. cap_slot' = slot + count + 1 /\ watermark' = [watermark EXCEPT ![u] = next]
    BY <1>1, <1>2, <1>7, <1>10, <1>18
  <1>24. Ends(z)'
    <2>1. ASSUME NEW v \in DOMAIN Untyped
          PROVE  IF Untyped[v].device THEN z.free[v] = watermark'[v]
                 ELSE z.free[v] <= allocation_point'[v]
      <3>1. CASE v = u
        BY <1>5, <1>6, <1>19, <1>23, <3>1
      <3>2. CASE v # u
        BY <1>3, <1>4, <1>5, <1>17, <1>19, <1>23, <3>2 DEF Ends
      <3>3. QED
        BY <3>1, <3>2
    <2>2. QED
      BY <1>19, <1>23, <2>1 DEF Ends
  <1>25. Begins(x)'
    BY <1>3, <1>4 DEF Begins
  <1>26. AllocTypes'
    <2>1. invocations' \in Seq(RetypeSet)
      BY <1>22 DEF Reaches
    <2>2. cap_slot' \in Nat \ {0} /\ l + count + 1 = cap_slot' - 1
      BY <1>11, <1>23
    <2>3. watermark' \in [DOMAIN Untyped -> Nat]
      BY <1>5, <1>23
    <2>4. DOMAIN placed' \subseteq DOMAIN objects'
      BY <1>3, <1>13 DEF AllocInv, AllocTypes
    <2>5. {allocation_point', watermark', free'} \subseteq [DOMAIN Untyped -> Nat]
      BY <1>3, <1>5, <2>3
    <2>6. DOMAIN objects' = 1 .. cap_slot' - 1
      BY <1>12, <2>2
    <2>7. QED
      BY <1>12, <2>1, <2>2, <2>4, <2>5, <2>6 DEF AllocTypes
  <1>27. FixedWhereAsked'
    BY <1>3, <1>11, <1>12, <1>13 DEF AllocInv, AllocTypes, FixedWhereAsked
  <1>28. QED
    BY <1>22, <1>24, <1>25, <1>26, <1>27 DEF AllocInv
-----------------------------------------------------------------------------
(* The boot preserves it.                                                   *)

LEMMA RoundUpMonotone ==
  ASSUME NEW a \in Nat, NEW b \in Nat, a <= b, NEW d \in Nat \ {0}
  PROVE  RoundUp(a, d) \in Nat /\ RoundUp(b, d) \in Nat /\ RoundUp(a, d) <= RoundUp(b, d)
  <1>1. PICK m \in Nat : m = RoundUp(b, d) /\ m % d = 0 /\ b <= m
    BY RoundUpMultiple
  <1>2. a <= m
    BY <1>1
  <1>3. RoundUp(a, d) <= m
    BY <1>1, <1>2, RoundUpLeast
  <1>4. QED
    BY <1>1, <1>3, RoundUpMultiple

(***************************************************************************)
(* The kernel has room for what the tool reckoned with, in free slots, and *)
(* gets no further than the tool thinks.                                   *)
(***************************************************************************)
LEMMA AsReckoned ==
  ASSUME AllocInv, NEW x, Begins(x), NEW r \in RetypeSet, NEW y \in States,
         Performs(r, x, y, objects)
  PROVE  /\ Room(r) /\ Fresh(r) /\ Start(r) \in Nat
         /\ Start(r) + r.count * r.size <= y.free[r.ut]
         /\ Untyped[r.ut].device =>
              Start(r) = x.free[r.ut] /\ Start(r) + r.count * r.size = y.free[r.ut]
  <1>1. PICK u \in DOMAIN Untyped, d \in Nat \ {0}, c \in Nat, slot \in Nat :
          u = r.ut /\ d = r.size /\ c = r.count /\ slot = r.slot
    BY DEF RetypeSet
  <1>2. PICK a, b, e, end \in Nat :
          a = free[u] /\ b = x.free[u] /\ e = y.free[u] /\ end = Untyped[u].end
    BY UntypedAssumption DEF AllocInv, AllocTypes, Begins, States
  <1>3. a <= b /\ (Untyped[u].device => a = b)
    BY <1>2 DEF Begins
  <1>4. RoundUp(a, d) \in Nat /\ RoundUp(b, d) \in Nat /\ RoundUp(a, d) <= RoundUp(b, d)
    BY <1>3, RoundUpMonotone
  <1>5. /\ RoundUp(b, d) + c * d <= e /\ e <= end
        /\ Untyped[u].device => b % d = 0 /\ e = b + c * d
        /\ slot = x.slot
    BY <1>1, <1>2 DEF Performs
  <1>6. PICK p \in Nat : p = c * d
    OBVIOUS
  <1>7. Start(r) = RoundUp(a, d)
    BY <1>1, <1>2 DEF Start
  <1>8. RoundUp(a, d) + p <= e /\ RoundUp(a, d) + p <= end
    BY <1>4, <1>5, <1>6
  <1>9. Room(r)
    BY <1>1, <1>2, <1>6, <1>7, <1>8 DEF Room
  <1>10. Fresh(r)
    <2>1. DOMAIN placed = 1 .. slot - 1
      BY <1>5 DEF Begins
    <2>2. \A s \in Slots(r) : s \in slot .. slot + c - 1
      BY <1>1 DEF Slots
    <2>3. QED
      BY <2>1, <2>2 DEF Fresh
  <1>11. ASSUME Untyped[u].device PROVE RoundUp(a, d) = b /\ b + p = e
    BY <1>3, <1>5, <1>6, <1>11 DEF RoundUp
  <1>12. QED
    BY <1>1, <1>2, <1>4, <1>6, <1>7, <1>8, <1>9, <1>10, <1>11

LEMMA RetypeStep ==
  ASSUME AllocInv, Retype
  PROVE  AllocInv'
  <1>1. PICK x, z : Begins(x) /\ Reaches(invocations, x, z, objects) /\ Ends(z)
    BY DEF AllocInv
  <1>2. PICK r \in RetypeSet, y \in States :
          /\ r = Head(invocations)
          /\ Performs(r, x, y, objects) /\ Reaches(Tail(invocations), y, z, objects)
    <2>1. invocations # <<>>
      BY DEF Retype
    <2>2. QED
      BY <1>1, <2>1, ReachesFirst
  <1>3. /\ free' = [free EXCEPT ![r.ut] = Start(r) + r.count * r.size]
        /\ placed' = [s \in DOMAIN placed \cup Slots(r) |->
                        IF s \in DOMAIN placed THEN placed[s]
                        ELSE Start(r) + (s - r.slot) * r.size]
        /\ invocations' = Tail(invocations)
        /\ UNCHANGED <<allocation_point, watermark, cap_slot, objects>>
    BY <1>2 DEF Retype, tool
  <1>4. PICK u \in DOMAIN Untyped, d \in Nat \ {0}, c \in Nat, slot \in Nat :
          u = r.ut /\ d = r.size /\ c = r.count /\ slot = r.slot
    BY DEF RetypeSet
  <1>5. PICK p \in Nat : p = c * d
    OBVIOUS
  <1>6. PICK start \in Nat, e \in Nat :
          /\ start = Start(r) /\ e = y.free[u] /\ start + p <= e
          /\ Untyped[u].device => start = x.free[u] /\ start + p = e
    BY <1>1, <1>2, <1>4, <1>5, AsReckoned DEF States
  <1>7. free' = [free EXCEPT ![u] = start + p] /\ free \in [DOMAIN Untyped -> Nat]
        /\ free' \in [DOMAIN Untyped -> Nat]
    <2>1. free \in [DOMAIN Untyped -> Nat]
      BY DEF AllocInv, AllocTypes
    <2>2. free' = [free EXCEPT ![u] = start + p]
      <3>1. PICK m : m = r.count * r.size
        OBVIOUS
      <3>2. m = p
        BY <1>4, <1>5, <3>1
      <3>3. free' = [free EXCEPT ![r.ut] = Start(r) + m]
        BY <1>3, <3>1
      <3>4. start = Start(r)
        BY <1>6
      <3>5. QED
        BY <1>4, <3>2, <3>3, <3>4
    <2>3. QED
      BY <2>1, <2>2
  <1>8. /\ \A v \in DOMAIN Untyped : v # u => y.free[v] = x.free[v]
        /\ slot = x.slot /\ y.slot = slot + c
        /\ \A s \in Slots(r) :
             /\ s \in DOMAIN objects
             /\ objects[s].fixed => Untyped[u].device /\ c = 1 /\ objects[s].phys = x.free[u]
    BY <1>2, <1>4 DEF Performs
  <1>9. Slots(r) = slot .. slot + c - 1 /\ DOMAIN placed = 1 .. slot - 1 /\ slot > 0
    BY <1>1, <1>4, <1>8 DEF Slots, Begins
  <1>10. DOMAIN placed' = 1 .. y.slot - 1
    <2>1. DOMAIN placed' = (1 .. slot - 1) \cup (slot .. slot + c - 1)
      BY <1>3, <1>9
    <2>2. QED
      BY <1>8, <1>9, <2>1
  <1>11. Begins(y)'
    <2>1. y.slot > 0
      BY <1>8, <1>9
    <2>2. ASSUME NEW v \in DOMAIN Untyped
          PROVE  free'[v] <= y.free[v] /\ (Untyped[v].device => free'[v] = y.free[v])
      <3>1. CASE v = u
        <4>1. free'[u] = start + p
          BY <1>7
        <4>2. start + p <= e /\ e = y.free[u]
          BY <1>6
        <4>3. Untyped[u].device => start + p = e
          BY <1>6, Zenon
        <4>4. QED
          BY <3>1, <4>1, <4>2, <4>3
      <3>2. CASE v # u
        BY <1>1, <1>7, <1>8, <3>2 DEF Begins
      <3>3. QED
        BY <3>1, <3>2
    <2>3. QED
      BY <1>10, <2>1, <2>2 DEF Begins
  <1>12. Reaches(invocations', y, z, objects')
    BY <1>2, <1>3
  <1>13. Ends(z)'
    BY <1>1, <1>3 DEF Ends
  <1>14. DOMAIN placed' \subseteq DOMAIN objects'
    <2>1. DOMAIN placed \subseteq DOMAIN objects
      BY DEF AllocInv, AllocTypes
    <2>2. QED
      BY <1>3, <1>8, <2>1
  <1>15. AllocTypes'
    <2>1. invocations' \in Seq(RetypeSet)
      BY <1>12 DEF Reaches
    <2>2. QED
      BY <1>3, <1>7, <1>14, <2>1 DEF AllocInv, AllocTypes
  <1>16. FixedWhereAsked'
    <2>1. ASSUME NEW s \in DOMAIN placed', objects[s].fixed PROVE placed'[s] = objects[s].phys
      <3>1. CASE s \in DOMAIN placed
        BY <1>3, <2>1, <3>1 DEF AllocInv, FixedWhereAsked
      <3>2. CASE s \notin DOMAIN placed
        <4>1. s \in Slots(r) /\ placed'[s] = start + (s - slot) * d
          <5>1. s \in Slots(r) /\ placed'[s] = Start(r) + (s - r.slot) * r.size
            BY <1>3, <2>1, <3>2
          <5>2. PICK m : m = (s - r.slot) * r.size
            OBVIOUS
          <5>3. m = (s - slot) * d
            BY <1>4, <5>2
          <5>4. start = Start(r)
            BY <1>6
          <5>5. QED
            BY <5>1, <5>2, <5>3, <5>4
        <4>2. Untyped[u].device /\ c = 1 /\ objects[s].phys = x.free[u]
          BY <1>8, <2>1, <4>1
        <4>3. s = slot
          BY <1>9, <4>1, <4>2
        <4>4. (s - slot) * d = 0
          <5>1. s - slot = 0
            BY <4>3
          <5>2. QED
            BY <5>1
        <4>5. start = x.free[u]
          BY <1>6, <4>2, Zenon
        <4>6. PICK m : m = (s - slot) * d
          OBVIOUS
        <4>7. placed'[s] = start
          BY <4>1, <4>4, <4>6
        <4>8. QED
          BY <4>2, <4>5, <4>7
      <3>3. QED
        BY <3>1, <3>2
    <2>2. QED
      BY <1>3, <2>1 DEF FixedWhereAsked
  <1>17. QED
    BY <1>11, <1>12, <1>13, <1>15, <1>16 DEF AllocInv

-----------------------------------------------------------------------------
(* The theorems.                                                            *)

LEMMA AllocInit == Init => AllocInv
  <1> SUFFICES ASSUME Init PROVE AllocInv
    OBVIOUS
  <1>1. PICK x : x = [free |-> Bases, slot |-> 1]
    OBVIOUS
  <1>2. Bases \in [DOMAIN Untyped -> Nat]
    BY UntypedAssumption DEF Bases
  <1>3. x \in States /\ x.free = Bases /\ x.slot = 1
    BY <1>1, <1>2 DEF States
  <1>4. DOMAIN placed = {} /\ DOMAIN objects = {} /\ objects \in Seq(ObjectSet)
        /\ invocations \in Seq(RetypeSet)
    BY DEF Init
  <1>5. 1 .. x.slot - 1 = {} /\ 1 .. cap_slot - 1 = {}
    BY <1>3 DEF Init
  <1>6. Begins(x)
    BY <1>2, <1>3, <1>4, <1>5 DEF Begins, Init
  <1>7. Reaches(invocations, x, x, objects)
    BY <1>3, ReachesNothing DEF Init
  <1>8. Ends(x)
    BY <1>2, <1>3 DEF Ends, Init
  <1>9. AllocTypes
    BY <1>2, <1>4, <1>5 DEF AllocTypes, Init
  <1>10. FixedWhereAsked
    BY <1>4 DEF FixedWhereAsked
  <1>11. QED
    BY <1>6, <1>7, <1>8, <1>9, <1>10 DEF AllocInv

\* An error, or the start of the boot, changes nothing else.
LEMMA PhaseStep ==
  ASSUME AllocInv, UNCHANGED <<tool, invocations, free, placed>>
  PROVE  AllocInv'
  <1>1. UNCHANGED <<allocation_point, watermark, cap_slot, objects, invocations, free, placed>>
    BY DEF tool
  <1>2. PICK x, y : Begins(x) /\ Reaches(invocations, x, y, objects) /\ Ends(y)
    BY DEF AllocInv
  <1>3. Begins(x)' /\ Ends(y)'
    BY <1>1, <1>2 DEF Begins, Ends
  <1>4. Reaches(invocations', x, y, objects')
    BY <1>1, <1>2
  <1>5. AllocTypes' /\ FixedWhereAsked'
    BY <1>1 DEF AllocInv, AllocTypes, FixedWhereAsked
  <1>6. QED
    BY <1>3, <1>4, <1>5 DEF AllocInv

(***************************************************************************)
(* What the tool reckons with is what the kernel does, or more.            *)
(***************************************************************************)
THEOREM AllocInvariant == Spec => []AllocInv
  <1>1. AllocInv /\ [Next]_vars => AllocInv'
    <2> SUFFICES ASSUME AllocInv, [Next]_vars PROVE AllocInv'
      OBVIOUS
    <2>1. CASE Request
      <3>1. ASSUME NEW t \in DOMAIN AllocSize, NEW n \in Counts, AllocateObjects(t, n)
            PROVE  AllocInv'
        <4>1. n \in Nat
          BY FixedPagesAssumption
        <4>2. QED
          BY <3>1, <4>1, ObjectsStep
      <3>2. ASSUME NEW t \in DOMAIN AllocSize, NEW n \in Counts, NoSpace(t, n)
            PROVE  AllocInv'
        BY <3>2, PhaseStep DEF NoSpace
      <3>3. ASSUME NEW f \in FixedPages, AllocateFixed(f[1], f[2])
            PROVE  AllocInv'
        BY <3>3, FixedStep
      <3>4. ASSUME NEW f \in FixedPages, CannotPlace(f[1])
            PROVE  AllocInv'
        BY <3>4, PhaseStep DEF CannotPlace
      <3>5. QED
        BY <2>1, <3>1, <3>2, <3>3, <3>4 DEF Request
    <2>2. CASE StartBoot
      BY <2>2, PhaseStep DEF StartBoot
    <2>3. CASE Retype
      BY <2>3, RetypeStep
    <2>4. CASE UNCHANGED vars
      BY <2>4, PhaseStep DEF vars
    <2>5. QED
      BY <2>1, <2>2, <2>3, <2>4 DEF Next
  <1>2. QED
    BY <1>1, AllocInit, PTL DEF Spec

(***************************************************************************)
(* Every retype of the tool succeeds at boot: the untyped object it names  *)
(* has room for it and its slots are free.                                 *)
(***************************************************************************)
THEOREM RetypesAlwaysSucceed == Spec => []RetypesSucceed
  <1>1. AllocInv => RetypesSucceed
    <2> SUFFICES ASSUME AllocInv, invocations # <<>>
                 PROVE  Room(Head(invocations)) /\ Fresh(Head(invocations))
      BY DEF RetypesSucceed
    <2>1. PICK x, z : Begins(x) /\ Reaches(invocations, x, z, objects)
      BY DEF AllocInv
    <2>2. PICK y \in States : Performs(Head(invocations), x, y, objects)
      BY <2>1, ReachesFirst
    <2>3. Head(invocations) \in RetypeSet
      BY <2>1, ReachesFirst
    <2>4. QED
      BY <2>1, <2>2, <2>3, AsReckoned
  <1>2. QED
    BY <1>1, AllocInvariant, PTL

(***************************************************************************)
(* A page of a region with phys_addr is at that address.                   *)
(***************************************************************************)
THEOREM FixedPagesInPlace == Spec => []FixedWhereAsked
  <1>1. AllocInv => FixedWhereAsked
    BY DEF AllocInv
  <1>2. QED
    BY <1>1, AllocInvariant, PTL
===============================================================================
