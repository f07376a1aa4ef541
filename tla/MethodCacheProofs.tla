-------------------------- MODULE MethodCacheProofs -------------------------
(***************************************************************************)
(* Proofs that a method lookup is right, and reads only fields of the      *)
(* table, for any number of domains, classes, methods and call sites.      *)
(***************************************************************************)
EXTENDS MethodCache, TLAPS

\* The search of a domain has not lost the method: its tag, in field 2 * n + 1,
\* is between the bounds.
Between(c, t, l, h) ==
  \E n \in 1 .. Len(Tags[c]) :
    /\ Tags[c][n] = t
    /\ 3 <= l /\ l <= 2 * n + 1 /\ 2 * n + 1 <= h /\ h <= 2 * Len(Tags[c]) + 1

\* Field m of the table is the method with the tag t.
IsFound(c, t, m) == \E n \in 1 .. Len(Tags[c]) : m = 2 * n /\ Tags[c][n] = t

\* What holds of one domain, whatever is in the caches
DomainInv(s, c, t, o, l, h, m) ==
  /\ s = "test" => HasMethod(c, t) /\ o < Fit[c]
  /\ s = "search" => Between(c, t, l, h)
  /\ s = "done" => IsFound(c, t, m)

DomainOK(d) == DomainInv(st[d], obj[d], tag[d], ofs[d], li[d], hi[d], met[d])

Inv == TypeOK /\ \A d \in Domain : DomainOK(d)

\* The middle of a search is the field of a tag above the lower bound.
LEMMA MiddleField ==
  ASSUME NEW a \in Nat, NEW b \in Nat, a % 2 = 1, b % 2 = 1, a < b,
         NEW m, m = 2 * (((a + b) \div 2) \div 2) + 1
  PROVE  m \in Nat /\ m % 2 = 1 /\ a < m /\ m <= b
<1>1. PICK p \in Nat : a = 2 * p + 1
  OBVIOUS
<1>2. PICK q \in Nat : b = 2 * q + 1
  OBVIOUS
<1>3. (a + b) \div 2 = p + q + 1
  BY <1>1, <1>2
<1>4. p < q
  BY <1>1, <1>2
<1>5. PICK r \in Nat : r = (p + q + 1) \div 2
  BY <1>1, <1>2
<1>6. 2 * r <= p + q + 1 /\ p + q <= 2 * r
  BY <1>5
<1>7. m = 2 * r + 1
  BY <1>3, <1>5
<1> QED
  BY <1>1, <1>2, <1>4, <1>6, <1>7

\* The tag in the field of method n is the tag of method n.
LEMMA FieldOfMethod ==
  ASSUME NEW c \in Class, NEW f \in Nat, f >= 3, f % 2 = 1, f <= 2 * Len(Tags[c]) + 1
  PROVE  \E n \in 1 .. Len(Tags[c]) : f = 2 * n + 1 /\ TagAt(c, f) = Tags[c][n]
<1>1. Len(Tags[c]) \in Nat
  BY MethodAssumption
<1>2. PICK p \in Nat : f = 2 * p + 1
  OBVIOUS
<1>3. (f - 3) \div 2 + 1 = p /\ p \in 1 .. Len(Tags[c])
  BY <1>1, <1>2
<1> QED
  BY <1>2, <1>3 DEF TagAt

\* A search begins with the whole table between its bounds.
LEMMA SearchBegins ==
  ASSUME NEW c \in Class, NEW t, HasMethod(c, t)
  PROVE  /\ Between(c, t, 3, 2 * Len(Tags[c]) + 1)
         /\ 2 * Len(Tags[c]) + 1 \in Nat
         /\ (2 * Len(Tags[c]) + 1) % 2 = 1
<1>1. Len(Tags[c]) \in Nat
  BY MethodAssumption
<1>2. PICK n \in 1 .. Len(Tags[c]) : Tags[c][n] = t
  BY DEF HasMethod
<1>3. 3 <= 2 * n + 1 /\ 2 * n + 1 <= 2 * Len(Tags[c]) + 1
  BY <1>1
<1>4. Between(c, t, 3, 2 * Len(Tags[c]) + 1)
  BY <1>2, <1>3 DEF Between
<1>5. \A k \in Nat : 2 * k + 1 \in Nat /\ (2 * k + 1) % 2 = 1
  OBVIOUS
<1> QED BY <1>1, <1>4, <1>5, Zenon

\* Halving keeps the method between the bounds, because the tags ascend.
LEMMA HalveKeeps ==
  ASSUME NEW c \in Class, NEW t \in Int, NEW l \in Nat, NEW h \in Nat,
         Between(c, t, l, h), NEW m \in Nat, m % 2 = 1, l < m, m <= h
  PROVE  /\ t < TagAt(c, m) => Between(c, t, l, m - 2) /\ m - 2 \in Nat /\ (m - 2) % 2 = 1
         /\ ~(t < TagAt(c, m)) => Between(c, t, m, h) /\ m \in Nat /\ m % 2 = 1
<1>1. m \in Nat /\ m % 2 = 1 /\ l < m /\ m <= h
  OBVIOUS
<1>2. PICK n \in 1 .. Len(Tags[c]) :
        /\ Tags[c][n] = t
        /\ 3 <= l /\ l <= 2 * n + 1 /\ 2 * n + 1 <= h /\ h <= 2 * Len(Tags[c]) + 1
  BY DEF Between
<1>3. Len(Tags[c]) \in Nat
  BY MethodAssumption
<1>4. PICK k \in 1 .. Len(Tags[c]) : m = 2 * k + 1 /\ TagAt(c, m) = Tags[c][k]
  <2>1. m >= 3 /\ m <= 2 * Len(Tags[c]) + 1
    BY <1>1, <1>2, <1>3
  <2> QED BY <1>1, <2>1, FieldOfMethod, Zenon
<1>5. /\ n < k => Tags[c][n] < Tags[c][k]
      /\ k < n => Tags[c][k] < Tags[c][n]
  BY MethodAssumption
<1>6. Tags[c][k] \in Int /\ Tags[c][n] \in Int
  BY MethodAssumption
<1>7. n \in Nat /\ k \in Nat /\ k <= Len(Tags[c])
  BY <1>3
<1>8. CASE t < TagAt(c, m)
  <2>1. n < k
    <3>1. n < k \/ k < n \/ n = k
      BY <1>7
    <3>2. Tags[c][n] < Tags[c][k]
      BY <1>2, <1>4, <1>8
    <3> QED BY <1>5, <1>6, <3>1, <3>2
  <2>2. 2 * n + 1 <= m - 2 /\ m - 2 <= 2 * Len(Tags[c]) + 1
    BY <1>3, <1>4, <1>7, <2>1
  <2>3. \A x \in Nat : x >= 3 /\ x % 2 = 1 => x - 2 \in Nat /\ (x - 2) % 2 = 1
    OBVIOUS
  <2>4. m >= 3
    BY <1>1, <1>2
  <2> QED BY <1>1, <1>2, <1>8, <2>2, <2>3, <2>4 DEF Between
<1>9. CASE ~(t < TagAt(c, m))
  <2>1. k <= n
    <3>1. k <= n \/ n < k
      BY <1>7
    <3>2. ~(Tags[c][n] < Tags[c][k])
      BY <1>2, <1>4, <1>9
    <3> QED BY <1>5, <3>1, <3>2
  <2>2. m <= 2 * n + 1 /\ 3 <= m
    BY <1>1, <1>2, <1>4, <1>7, <2>1
  <2> QED BY <1>1, <1>2, <1>9, <2>2 DEF Between
<1> QED BY <1>8, <1>9

\* The other domains are as they were when domain d takes a step.
LEMMA OthersKept ==
  ASSUME TypeOK, NEW d \in Domain, NEW e \in Domain, e # d, DomainOK(e),
         \/ \E s \in Site, c \in Class : GETPUBMET(d, s, c)
         \/ \E c \in Class : \E n \in 1 .. Len(Tags[c]) : GETDYNMET(d, c, Tags[c][n])
         \/ Lookup(d) \/ Call(d)
  PROVE  DomainOK(e)'
<1>1. /\ st'[e] = st[e] /\ obj'[e] = obj[e] /\ tag'[e] = tag[e] /\ ofs'[e] = ofs[e]
      /\ li'[e] = li[e] /\ hi'[e] = hi[e] /\ met'[e] = met[e]
  <2>1. CASE \E s \in Site, c \in Class : GETPUBMET(d, s, c)
    BY <2>1 DEF GETPUBMET, TypeOK
  <2>2. CASE \E c \in Class : \E n \in 1 .. Len(Tags[c]) : GETDYNMET(d, c, Tags[c][n])
    BY <2>2 DEF GETDYNMET, Search, TypeOK
  <2>3. CASE Hit(d)
    BY <2>3 DEF Hit, TypeOK
  <2>4. CASE Miss(d)
    BY <2>4 DEF Miss, Search, TypeOK
  <2>5. CASE Halve(d)
    BY <2>5 DEF Halve, TypeOK
  <2>6. CASE Found(d)
    BY <2>6 DEF Found, TypeOK
  <2>7. CASE Call(d)
    BY <2>7 DEF Call, TypeOK
  <2> QED BY <2>1, <2>2, <2>3, <2>4, <2>5, <2>6, <2>7 DEF Lookup
<1> QED BY <1>1 DEF DomainOK

\* GETPUBMET masks the place in its cache, so that it is a place of the table.
LEMMA GetPubMetKeeps ==
  ASSUME Inv, NEW d \in Domain, NEW s \in Site, NEW c \in Class, GETPUBMET(d, s, c)
  PROVE  TypeOK' /\ DomainOK(d)'
<1>1. Fit[c] \in Nat /\ Fit[c] > 0 /\ SiteTag[s] \in Int
  <2>1. Len(Tags[c]) \in Nat /\ \E n \in 1 .. Len(Tags[c]) : TRUE
    BY MethodAssumption DEF GETPUBMET, HasMethod
  <2>2. Len(Tags[c]) > 0
    BY <2>1
  <2> QED BY <2>2, MethodAssumption
<1>2. cache[s] \in Nat
  BY DEF Inv, TypeOK
<1>3. cache[s] % Fit[c] \in Nat /\ cache[s] % Fit[c] < Fit[c]
  BY <1>1, <1>2
<1>4. TypeOK'
  BY <1>1, <1>3 DEF GETPUBMET, Inv, TypeOK
<1>5. /\ st'[d] = "test" /\ obj'[d] = c /\ tag'[d] = SiteTag[s]
      /\ ofs'[d] = cache[s] % Fit[c] /\ HasMethod(c, SiteTag[s])
  BY DEF GETPUBMET, Inv, TypeOK
<1> QED BY <1>3, <1>4, <1>5 DEF DomainOK, DomainInv

\* GETDYNMET starts a search.
LEMMA GetDynMetKeeps ==
  ASSUME Inv, NEW d \in Domain, NEW c \in Class, NEW t \in Int, GETDYNMET(d, c, t)
  PROVE  TypeOK' /\ DomainOK(d)'
<1>1. /\ HasMethod(c, t) /\ Search(d, c) /\ UNCHANGED <<cache, ofs, met>>
      /\ site' = [site EXCEPT ![d] = NoSite] /\ obj' = [obj EXCEPT ![d] = c]
      /\ tag' = [tag EXCEPT ![d] = t]
  BY DEF GETDYNMET
<1> DEFINE h == 2 * Len(Tags[c]) + 1
<1>2. Between(c, t, 3, h) /\ h \in Nat /\ h % 2 = 1
  BY <1>1, SearchBegins, Zenon
<1>3. st' = [st EXCEPT ![d] = "search"] /\ li' = [li EXCEPT ![d] = 3] /\ hi' = [hi EXCEPT ![d] = h]
  BY <1>1 DEF Search
<1> HIDE DEF h
<1>4. TypeOK'
  <2>1. 3 \in Nat /\ 3 % 2 = 1
    OBVIOUS
  <2> QED BY <1>1, <1>2, <1>3, <2>1 DEF Inv, TypeOK
<1>5. st'[d] = "search" /\ obj'[d] = c /\ tag'[d] = t /\ li'[d] = 3 /\ hi'[d] = h
  BY <1>1, <1>3 DEF Inv, TypeOK
<1> QED BY <1>2, <1>4, <1>5 DEF DomainOK, DomainInv

\* A hit is right: the tag is compared in the table of the object itself.
LEMMA HitKeeps ==
  ASSUME Inv, NEW d \in Domain, Hit(d)
  PROVE  TypeOK' /\ DomainOK(d)'
<1>1. /\ obj[d] \in Class /\ ofs[d] \in Nat /\ Len(Tags[obj[d]]) \in Nat
  BY MethodAssumption DEF Inv, TypeOK
<1>2. /\ HoldsTag(obj[d], 2 * ofs[d] + 3) /\ TagAt(obj[d], 2 * ofs[d] + 3) = tag[d]
      /\ met' = [met EXCEPT ![d] = 2 * ofs[d] + 2] /\ st' = [st EXCEPT ![d] = "done"]
      /\ UNCHANGED <<cache, site, obj, tag, ofs, li, hi>>
  BY DEF Hit
<1>3. \A x \in Nat : (2 * x + 3 - 3) \div 2 = x /\ 2 * x + 2 = 2 * (x + 1) /\ 2 * x + 2 \in Nat
  OBVIOUS
<1>4. ofs[d] < Len(Tags[obj[d]]) /\ Tags[obj[d]][ofs[d] + 1] = tag[d]
  BY <1>1, <1>2, <1>3 DEF HoldsTag, TagAt
<1>5. ofs[d] + 1 \in 1 .. Len(Tags[obj[d]])
  BY <1>1, <1>4
<1>6. IsFound(obj[d], tag[d], 2 * ofs[d] + 2)
  BY <1>1, <1>3, <1>4, <1>5, Zenon DEF IsFound
<1>7. TypeOK'
  BY <1>1, <1>2, <1>3 DEF Inv, TypeOK
<1>8. st'[d] = "done" /\ met'[d] = 2 * ofs[d] + 2 /\ UNCHANGED <<obj, tag>>
  BY <1>2 DEF Inv, TypeOK
<1> QED BY <1>6, <1>7, <1>8 DEF DomainOK, DomainInv

\* A miss starts a search.
LEMMA MissKeeps ==
  ASSUME Inv, NEW d \in Domain, Miss(d)
  PROVE  TypeOK' /\ DomainOK(d)'
<1>1. st[d] = "test" /\ Search(d, obj[d]) /\ UNCHANGED <<cache, site, obj, tag, ofs, met>>
  BY DEF Miss
<1>2. obj[d] \in Class /\ HasMethod(obj[d], tag[d])
  BY <1>1 DEF Inv, TypeOK, DomainOK, DomainInv
<1> DEFINE h == 2 * Len(Tags[obj[d]]) + 1
<1>3. Between(obj[d], tag[d], 3, h) /\ h \in Nat /\ h % 2 = 1
  BY <1>2, SearchBegins, Zenon
<1>4. st' = [st EXCEPT ![d] = "search"] /\ li' = [li EXCEPT ![d] = 3] /\ hi' = [hi EXCEPT ![d] = h]
  BY <1>1 DEF Search
<1> HIDE DEF h
<1>5. TypeOK'
  <2>1. 3 \in Nat /\ 3 % 2 = 1
    OBVIOUS
  <2> QED BY <1>1, <1>3, <1>4, <2>1 DEF Inv, TypeOK
<1>6. st'[d] = "search" /\ li'[d] = 3 /\ hi'[d] = h
  BY <1>1, <1>4 DEF Inv, TypeOK
<1> QED BY <1>1, <1>3, <1>5, <1>6 DEF DomainOK, DomainInv

\* The search keeps the method between its bounds.
LEMMA HalveStep ==
  ASSUME Inv, NEW d \in Domain, Halve(d)
  PROVE  TypeOK' /\ DomainOK(d)'
<1> DEFINE m == Middle(d)
<1>1. /\ obj[d] \in Class /\ tag[d] \in Int /\ li[d] \in Nat /\ hi[d] \in Nat
      /\ li[d] % 2 = 1 /\ hi[d] % 2 = 1
  BY DEF Inv, TypeOK
<1>2. /\ st[d] = "search" /\ li[d] < hi[d] /\ UNCHANGED <<cache, st, site, obj, tag, ofs, met>>
      /\ \/ tag[d] < TagAt(obj[d], m) /\ hi' = [hi EXCEPT ![d] = m - 2] /\ UNCHANGED li
         \/ ~(tag[d] < TagAt(obj[d], m)) /\ li' = [li EXCEPT ![d] = m] /\ UNCHANGED hi
  BY DEF Halve
<1>3. Between(obj[d], tag[d], li[d], hi[d])
  BY <1>2 DEF Inv, DomainOK, DomainInv
<1>4. m \in Nat /\ m % 2 = 1 /\ li[d] < m /\ m <= hi[d]
  BY <1>1, <1>2, MiddleField DEF Middle
<1> HIDE DEF m
<1>5. /\ tag[d] < TagAt(obj[d], m) =>
           Between(obj[d], tag[d], li[d], m - 2) /\ m - 2 \in Nat /\ (m - 2) % 2 = 1
      /\ ~(tag[d] < TagAt(obj[d], m)) => Between(obj[d], tag[d], m, hi[d])
  BY <1>1, <1>3, <1>4, HalveKeeps
<1>6. CASE tag[d] < TagAt(obj[d], m)
  <2>1. TypeOK'
    BY <1>2, <1>5, <1>6 DEF Inv, TypeOK
  <2>2. hi'[d] = m - 2 /\ li' = li
    BY <1>2, <1>6 DEF Inv, TypeOK
  <2> QED BY <1>2, <1>5, <1>6, <2>1, <2>2 DEF DomainOK, DomainInv
<1>7. CASE ~(tag[d] < TagAt(obj[d], m))
  <2>1. TypeOK'
    BY <1>2, <1>4, <1>7 DEF Inv, TypeOK
  <2>2. li'[d] = m /\ hi' = hi
    BY <1>2, <1>7 DEF Inv, TypeOK
  <2> QED BY <1>2, <1>5, <1>7, <2>1, <2>2 DEF DomainOK, DomainInv
<1> QED BY <1>6, <1>7

\* Bounds that meet, meet at the method.
LEMMA FoundKeeps ==
  ASSUME Inv, NEW d \in Domain, Found(d)
  PROVE  TypeOK' /\ DomainOK(d)'
<1>1. /\ obj[d] \in Class /\ li[d] \in Nat /\ hi[d] \in Nat
      /\ Len(Tags[obj[d]]) \in Nat
  BY MethodAssumption DEF Inv, TypeOK
<1>2. /\ st[d] = "search" /\ li[d] >= hi[d]
      /\ met' = [met EXCEPT ![d] = li[d] - 1] /\ st' = [st EXCEPT ![d] = "done"]
      /\ cache' = IF site[d] = NoSite THEN cache
                  ELSE [cache EXCEPT ![site[d]] = (li[d] - 3) \div 2]
      /\ UNCHANGED <<site, obj, tag, ofs, li, hi>>
  BY DEF Found
<1>3. PICK n \in 1 .. Len(Tags[obj[d]]) :
        /\ Tags[obj[d]][n] = tag[d]
        /\ 3 <= li[d] /\ li[d] <= 2 * n + 1 /\ 2 * n + 1 <= hi[d]
  BY <1>2 DEF Inv, DomainOK, DomainInv, Between
<1>4. li[d] - 1 = 2 * n /\ li[d] - 1 \in Nat
  <2>1. n \in Nat /\ li[d] >= hi[d]
    BY <1>1, <1>2
  <2> QED BY <1>1, <1>3, <2>1
<1>5. \A x \in Nat : x >= 3 => (x - 3) \div 2 \in Nat
  OBVIOUS
<1>6. (li[d] - 3) \div 2 \in Nat
  BY <1>1, <1>3, <1>5
<1>7. cache' \in [Site -> Nat]
  BY <1>2, <1>6 DEF Inv, TypeOK
<1>8. TypeOK'
  BY <1>2, <1>4, <1>7 DEF Inv, TypeOK
<1>9. IsFound(obj[d], tag[d], li[d] - 1)
  BY <1>3, <1>4 DEF IsFound
<1>10. st'[d] = "done" /\ met'[d] = li[d] - 1
  BY <1>2 DEF Inv, TypeOK
<1> QED BY <1>2, <1>8, <1>9, <1>10 DEF DomainOK, DomainInv

\* Between two lookups nothing is asked of a domain.
LEMMA CallKeeps ==
  ASSUME Inv, NEW d \in Domain, Call(d)
  PROVE  TypeOK' /\ DomainOK(d)'
<1>1. 3 \in Nat /\ 3 % 2 = 1 /\ 0 \in Nat /\ 0 \in Int
  OBVIOUS
<1>2. TypeOK'
  BY <1>1 DEF Call, Inv, TypeOK
<1>3. st'[d] = "idle"
  BY DEF Call, Inv, TypeOK
<1> QED BY <1>2, <1>3 DEF DomainOK, DomainInv

\* Every step of every domain keeps the invariant.
LEMMA NextInv == Inv /\ [Next]_vars => Inv'
<1> SUFFICES ASSUME Inv, [Next]_vars PROVE Inv'
  OBVIOUS
<1>1. CASE UNCHANGED vars
  BY <1>1 DEF vars, Inv, TypeOK, DomainOK
<1>2. CASE Next
  <2>1. PICK d \in Domain :
          \/ \E s \in Site, c \in Class : GETPUBMET(d, s, c)
          \/ \E c \in Class : \E n \in 1 .. Len(Tags[c]) : GETDYNMET(d, c, Tags[c][n])
          \/ Lookup(d) \/ Call(d)
    BY <1>2, Zenon DEF Next
  <2>2. \A c \in Class : \A n \in 1 .. Len(Tags[c]) : Tags[c][n] \in Int
    BY MethodAssumption
  <2>3. TypeOK' /\ DomainOK(d)'
    BY <2>1, <2>2, GetPubMetKeeps, GetDynMetKeeps, HitKeeps, MissKeeps, HalveStep,
       FoundKeeps, CallKeeps, Zenon DEF Lookup
  <2>4. \A e \in Domain \ {d} : DomainOK(e)'
    BY <2>1, OthersKept, Zenon DEF Inv
  <2> QED BY <2>3, <2>4, Zenon DEF Inv
<1> QED BY <1>1, <1>2

\* The invariant holds when the program starts.
LEMMA InitInv == Init => Inv
<1> SUFFICES ASSUME Init PROVE Inv
  OBVIOUS
<1>1. 3 \in Nat /\ 3 % 2 = 1 /\ 0 \in Nat /\ 0 \in Int
  OBVIOUS
<1>2. TypeOK
  BY <1>1 DEF Init, TypeOK
<1>3. \A d \in Domain : st[d] = "idle"
  BY Zenon DEF Init
<1> QED BY <1>2, <1>3 DEF Inv, DomainOK, DomainInv

\* A lookup finds the method of the object's class with the tag it looks for,
\* whatever the other domains and other objects do to the caches.
THEOREM MethodLookup == Spec => [](TypeOK /\ LookupRight)
<1>1. Inv => TypeOK /\ LookupRight
  BY DEF Inv, DomainOK, DomainInv, IsFound, LookupRight
<1> QED
  BY <1>1, InitInv, NextInv, PTL DEF Spec

\* A lookup reads no field beyond the end of the method table, although the
\* place in the cache may come from a longer one.
THEOREM MethodInTable == Spec => []InTable
<1>1. Inv => InTable
  <2> SUFFICES ASSUME Inv, NEW d \in Domain
               PROVE  /\ st[d] = "test" => 2 * ofs[d] + 3 < Words(obj[d])
                      /\ st[d] = "search" =>
                           /\ li[d] < Words(obj[d])
                           /\ li[d] < hi[d] => Middle(d) > li[d] /\ Middle(d) < Words(obj[d])
    BY Zenon DEF InTable
  <2> DEFINE N == Len(Tags[obj[d]])
             F == Fit[obj[d]]
  <2>1. N \in Nat /\ F \in Nat /\ obj[d] \in Class
    BY MethodAssumption DEF Inv, TypeOK
  <2>2. Words(obj[d]) \in Nat /\ Words(obj[d]) >= 2 * N + 2 /\ Words(obj[d]) >= 2 * F + 2
    BY <2>1 DEF Words
  <2>3. CASE st[d] = "test"
    <3>1. ofs[d] \in Nat /\ ofs[d] < F
      BY <2>3 DEF Inv, TypeOK, DomainOK, DomainInv
    <3> HIDE DEF F
    <3> QED BY <2>1, <2>2, <2>3, <3>1
  <2>4. CASE st[d] = "search"
    <3>1. /\ li[d] \in Nat /\ hi[d] \in Nat /\ li[d] % 2 = 1 /\ hi[d] % 2 = 1
      BY DEF Inv, TypeOK
    <3>2. Between(obj[d], tag[d], li[d], hi[d])
      BY <2>4 DEF Inv, DomainOK, DomainInv
    <3>3. li[d] <= hi[d] /\ hi[d] <= 2 * N + 1
      BY <2>1, <3>1, <3>2 DEF Between
    <3>4. li[d] < hi[d] => Middle(d) \in Nat /\ Middle(d) > li[d] /\ Middle(d) <= hi[d]
      BY <3>1, MiddleField DEF Middle
    <3> HIDE DEF N
    <3> QED BY <2>1, <2>2, <2>4, <3>1, <3>3, <3>4
  <2> QED BY <2>3, <2>4
<1> QED
  BY <1>1, InitInv, NextInv, PTL DEF Spec

\* Lookups are right and stay in the method table, for any domains, classes,
\* call sites and tags.
THEOREM MethodCacheSound == Spec => []CacheSound
<1>1. TypeOK /\ LookupRight /\ InTable => CacheSound
  BY DEF CacheSound
<1> QED
  BY <1>1, MethodLookup, MethodInTable, PTL
=============================================================================
