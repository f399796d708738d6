------------------------- MODULE BundleReceiverProofs -------------------------
(***************************************************************************)
(* Theorems about BundleReceiver, for any repositories, requests and       *)
(* publications, and any order in which manifests, slices, requests and    *)
(* timeouts come.                                                          *)
(***************************************************************************)
EXTENDS BundleReceiver, FiniteSetTheorems, TLAPS

\* s holds slices of p, each at most once.
SlicesOf(p, s) ==
  /\ \A k \in 1 .. Len(s) : \E i \in 1 .. Packets[p] : s[k] = <<p, i>>
  /\ \A k, l \in 1 .. Len(s) : s[k] = s[l] => k = l

\* What is filed under a manifest are slices of that publication.
SliceInv == \A p \in Publications : SlicesOf(p, slices[<<p, 0>>])

\* A manifest is kept where its repository is asked for.
ManifestInv ==
  \A repo \in Repos :
     /\ manifests[repo] # None => Path[manifests[repo]] = repo
     /\ pendingRequests[repo] # None /\ pendingRequests[repo].manifest # None
          => Path[pendingRequests[repo].manifest] = repo

\* A request resolves with all slices of a publication, in order.
AnswersAreCarried ==
  \A r \in Requests : status[r] = "resolved" =>
     \E p \in Publications : Path[p] = Wanted[r] /\ answer[r] = Carried(p)

IInv == TypeOK /\ SliceInv /\ ManifestInv /\ NoLostWakeup /\ AnswersAreCarried

-----------------------------------------------------------------------------
(***************************************************************************)
(* Sorting.                                                                *)
(***************************************************************************)

\* A strictly increasing map of 1 .. n to itself is the identity: it maps
\* 1 .. i into 1 .. h[i], and i .. n into h[i] .. n.
LEMMA IncreasingIsIdentity ==
  ASSUME NEW n \in Nat, NEW h \in [1 .. n -> 1 .. n],
         \A i, j \in 1 .. n : i < j => h[i] < h[j]
  PROVE  \A i \in 1 .. n : h[i] = i
<1> SUFFICES ASSUME NEW i \in 1 .. n PROVE h[i] = i
  OBVIOUS
<1>1. h[i] \in 1 .. n
  OBVIOUS
<1>2. i <= h[i]
  <2> DEFINE f == [k \in 1 .. i |-> h[k]]
  <2>1. ASSUME NEW k \in 1 .. i PROVE k \in 1 .. n /\ h[k] \in 1 .. h[i]
    <3>1. k \in 1 .. n /\ h[k] \in 1 .. n /\ (k = i \/ k < i)
      OBVIOUS
    <3>2. h[k] <= h[i]
      <4>1. CASE k = i
        BY <1>1, <4>1
      <4>2. CASE k < i
        BY <1>1, <3>1, <4>2
      <4> QED BY <3>1, <4>1, <4>2
    <3> QED BY <1>1, <3>1, <3>2
  <2>2. f \in Injection(1 .. i, 1 .. h[i])
    <3>1. f \in [1 .. i -> 1 .. h[i]]
      BY <2>1
    <3>2. ASSUME NEW k \in 1 .. i, NEW l \in 1 .. i, f[k] = f[l] PROVE k = l
      <4>1. k \in 1 .. n /\ l \in 1 .. n /\ h[k] = h[l]
        BY <2>1, <3>2
      <4>2. h[k] \in 1 .. n /\ ~(k < l) /\ ~(l < k)
        BY <4>1
      <4> QED BY <4>1, <4>2
    <3> QED BY <3>1, <3>2 DEF Injection, IsInjective
  <2>3. Cardinality(1 .. i) <= Cardinality(1 .. h[i])
    BY <2>2, <1>1, FS_Injection, FS_Interval
  <2> QED BY <2>3, <1>1, FS_Interval
<1>3. h[i] <= i
  <2> DEFINE f == [k \in i .. n |-> h[k]]
  <2>1. ASSUME NEW k \in i .. n PROVE k \in 1 .. n /\ h[k] \in h[i] .. n
    <3>1. k \in 1 .. n /\ h[k] \in 1 .. n /\ (k = i \/ i < k)
      OBVIOUS
    <3>2. h[i] <= h[k]
      <4>1. CASE k = i
        BY <1>1, <4>1
      <4>2. CASE i < k
        BY <1>1, <3>1, <4>2
      <4> QED BY <3>1, <4>1, <4>2
    <3> QED BY <1>1, <3>1, <3>2
  <2>2. f \in Injection(i .. n, h[i] .. n)
    <3>1. f \in [i .. n -> h[i] .. n]
      BY <2>1
    <3>2. ASSUME NEW k \in i .. n, NEW l \in i .. n, f[k] = f[l] PROVE k = l
      <4>1. k \in 1 .. n /\ l \in 1 .. n /\ h[k] = h[l]
        BY <2>1, <3>2
      <4>2. h[k] \in 1 .. n /\ ~(k < l) /\ ~(l < k)
        BY <4>1
      <4> QED BY <4>1, <4>2
    <3> QED BY <3>1, <3>2 DEF Injection, IsInjective
  <2>3. Cardinality(i .. n) <= Cardinality(h[i] .. n)
    BY <2>2, <1>1, FS_Injection, FS_Interval
  <2> QED BY <2>3, <1>1, FS_Interval
<1> QED BY <1>1, <1>2, <1>3

(***************************************************************************)
(* As many slices of p as it has, in whichever order they were filed, are  *)
(* all of them: sorted, they are what p carries.                           *)
(***************************************************************************)
LEMMA SortedIsWhole ==
  ASSUME NEW p \in Publications, NEW n \in Nat \ {0}, n = Packets[p],
         NEW s \in Seq(EventIds), SlicesOf(p, s), Len(s) >= n
  PROVE  Sorted(s) = [i \in 1 .. n |-> <<p, i>>]
<1> DEFINE seq == [k \in 1 .. Len(s) |-> s[k][2]]
<1>1. Len(s) \in Nat /\ DOMAIN s = 1 .. Len(s)
  OBVIOUS
<1>2. \A k \in 1 .. Len(s) : s[k] = <<p, seq[k]>> /\ seq[k] \in 1 .. n
  BY DEF SlicesOf
<1>3. seq \in Injection(1 .. Len(s), 1 .. n)
  <2> HIDE DEF seq
  <2>1. \A k, l \in 1 .. Len(s) : seq[k] = seq[l] => k = l
    BY <1>2 DEF SlicesOf
  <2>2. seq \in [1 .. Len(s) -> 1 .. n]
    BY <1>2 DEF seq
  <2> QED BY <2>1, <2>2 DEF Injection, IsInjective
<1> HIDE DEF seq
<1>4. Len(s) = n /\ seq \in Surjection(1 .. n, 1 .. n)
  <2>1. IsFiniteSet(1 .. n) /\ Cardinality(1 .. n) = n /\ Cardinality(1 .. Len(s)) = Len(s)
    <3>1. ASSUME NEW m \in Nat PROVE IsFiniteSet(1 .. m) /\ Cardinality(1 .. m) = m
      <4>1. 1 \in Int /\ m \in Int
        OBVIOUS
      <4>2. IsFiniteSet(1 .. m) /\ Cardinality(1 .. m) = IF 1 > m THEN 0 ELSE m - 1 + 1
        BY <4>1, FS_Interval
      <4> QED BY <4>2
    <3> QED BY <1>1, <3>1
  <2>2. Len(s) <= n
    BY <1>3, <2>1, FS_Injection
  <2>3. Len(s) = n
    BY <1>1, <2>2
  <2> QED BY <1>3, <2>1, <2>3, FS_Injection
<1>5. /\ seq \in [1 .. n -> 1 .. n]
      /\ \A k, l \in 1 .. n : seq[k] = seq[l] => k = l
      /\ \A i \in 1 .. n : \E k \in 1 .. n : seq[k] = i
  BY <1>3, <1>4 DEF Injection, IsInjective, Surjection
<1> DEFINE at == [i \in 1 .. n |-> CHOOSE k \in 1 .. n : seq[k] = i]
<1>6. \A i \in 1 .. n : at[i] \in 1 .. n /\ seq[at[i]] = i
  BY <1>5
<1>7. at \in Bijection(1 .. n, 1 .. n) /\ SortedBy(s, at)
  <2>1. at \in [1 .. n -> 1 .. n]
    BY <1>6
  <2>2. \A i, j \in 1 .. n : at[i] = at[j] => i = j
    BY <1>6
  <2>3. ASSUME NEW k \in 1 .. n PROVE seq[k] \in 1 .. n /\ at[seq[k]] = k
    <3> HIDE DEF at
    <3>1. seq[k] \in 1 .. n
      BY <1>5
    <3>2. at[seq[k]] \in 1 .. n /\ seq[at[seq[k]]] = seq[k]
      BY <1>6, <3>1
    <3> QED BY <1>5, <3>1, <3>2
  <2>4. at \in Bijection(1 .. n, 1 .. n)
    <3> HIDE DEF at
    <3>1. \A k \in 1 .. n : \E i \in 1 .. n : at[i] = k
      BY <1>5, <2>3
    <3> QED BY <2>1, <2>2, <3>1 DEF Bijection, Injection, IsInjective, Surjection
  <2>5. SortedBy(s, at)
    <3> HIDE DEF at
    <3>1. \A i \in 1 .. n : s[at[i]][2] = i
      BY <1>2, <1>4, <1>6
    <3> QED BY <1>1, <1>4, <3>1 DEF SortedBy
  <2> QED BY <2>4, <2>5
<1> HIDE DEF at
<1> DEFINE order == CHOOSE f \in Bijection(DOMAIN s, DOMAIN s) : SortedBy(s, f)
<1>8. order \in Bijection(1 .. n, 1 .. n) /\ SortedBy(s, order)
  BY <1>1, <1>4, <1>7
<1>9. Sorted(s) = [i \in 1 .. n |-> s[order[i]]]
  BY <1>1, <1>4 DEF Sorted
<1> HIDE DEF order
<1>10. order \in [1 .. n -> 1 .. n] /\ \A i, j \in 1 .. n : order[i] = order[j] => i = j
  BY <1>8 DEF Bijection, Injection, IsInjective
<1> DEFINE h == [i \in 1 .. n |-> seq[order[i]]]
<1>11. h \in [1 .. n -> 1 .. n] /\ \A i \in 1 .. n : s[order[i]] = <<p, h[i]>>
  <2>1. ASSUME NEW i \in 1 .. n
        PROVE  seq[order[i]] \in 1 .. n /\ s[order[i]] = <<p, seq[order[i]]>>
    <3>1. order[i] \in 1 .. n
      BY <1>10
    <3> QED BY <1>2, <1>4, <3>1
  <2>2. h \in [1 .. n -> 1 .. n]
    BY <2>1
  <2>3. \A i \in 1 .. n : h[i] = seq[order[i]]
    OBVIOUS
  <2> HIDE DEF h
  <2> QED BY <2>1, <2>2, <2>3
<1>12. \A i, j \in 1 .. n : i < j => h[i] < h[j]
  <2> SUFFICES ASSUME NEW i \in 1 .. n, NEW j \in 1 .. n, i < j PROVE h[i] < h[j]
    OBVIOUS
  <2>1. h[i] # h[j]
    <3>1. order[i] \in 1 .. n /\ order[j] \in 1 .. n
      BY <1>10
    <3>2. i # j
      OBVIOUS
    <3>3. order[i] # order[j]
      BY <1>10, <3>2
    <3>4. seq[order[i]] # seq[order[j]]
      BY <1>5, <3>1, <3>3
    <3> QED BY <3>4
  <2>2. s[order[i]][2] <= s[order[j]][2]
    BY <1>1, <1>4, <1>8 DEF SortedBy
  <2>3. h[i] \in Nat /\ h[j] \in Nat
    BY <1>11
  <2> HIDE DEF h
  <2>4. s[order[i]][2] = h[i] /\ s[order[j]][2] = h[j]
    <3>1. s[order[i]] = <<p, h[i]>> /\ s[order[j]] = <<p, h[j]>>
      BY <1>11
    <3> QED BY <3>1
  <2>5. h[i] <= h[j]
    BY <2>2, <2>4
  <2> QED BY <2>1, <2>3, <2>5
<1> HIDE DEF h
<1>13. \A i \in 1 .. n : h[i] = i
  BY <1>1, <1>11, <1>12, IncreasingIsIdentity
<1> QED BY <1>9, <1>11, <1>13

\* reconstructPayload of a complete publication is all it carries.
LEMMA CompleteIsWhole ==
  ASSUME NEW p \in Publications, NEW filed, filed[<<p, 0>>] \in Seq(EventIds),
         SlicesOf(p, filed[<<p, 0>>]), Complete(p, filed)
  PROVE  ReconstructPayload(p, filed) = [i \in 1 .. Packets[p] |-> <<p, i>>]
<1>1. Packets[p] \in Nat \ {0} /\ Len(filed[<<p, 0>>]) >= Packets[p]
  BY BundleAssumption DEF Complete
<1> QED BY <1>1, SortedIsWhole DEF ReconstructPayload

-----------------------------------------------------------------------------
(***************************************************************************)
(* The parts of a step.                                                    *)
(***************************************************************************)

LEMMA Typing ==
  ASSUME IInv, NEW p \in Publications
  PROVE  /\ Path[p] \in Repos /\ Packets[p] \in Nat \ {0}
         /\ p # None
         /\ <<p, 0>> \in EventIds
         /\ \A i \in 1 .. Packets[p] : <<p, i>> \in EventIds /\ ParentId(p, i) \in EventIds
         /\ Carried(p) \in Seq(EventIds)
<1>1. Path[p] \in Repos /\ Packets[p] \in Nat \ {0} /\ p # None
  BY BundleAssumption
<1>2. \A i \in 0 .. Packets[p] : <<p, i>> \in EventIds
  BY DEF EventIds, Ids
<1>3. ASSUME NEW i \in 1 .. Packets[p]
      PROVE  <<p, i>> \in EventIds /\ ParentId(p, i) \in EventIds
  <2>1. i \in 0 .. Packets[p] /\ i - 1 \in 0 .. Packets[p] /\ 0 \in 0 .. Packets[p]
    BY <1>1
  <2> QED BY <1>2, <2>1 DEF ParentId
<1>4. Carried(p) \in [1 .. Packets[p] -> EventIds]
  BY <1>3 DEF Carried
<1>5. 0 \in 0 .. Packets[p]
  BY <1>1
<1> QED BY <1>1, <1>2, <1>3, <1>4, <1>5

\* A slice that is not filed yet is filed: the slices stay slices of their
\* publication, and only those under that one manifest change.
LEMMA FiledKept ==
  ASSUME IInv, NEW p \in Publications, NEW i \in 1 .. Packets[p],
         <<p, i>> \notin ToSet(slices[ParentId(p, i)]),
         NEW filed, filed = [slices EXCEPT ![ParentId(p, i)] = Append(@, <<p, i>>)]
  PROVE  /\ filed \in [EventIds -> Seq(EventIds)]
         /\ \A q \in Publications : SlicesOf(q, filed[<<q, 0>>])
         /\ \A q \in Publications : <<q, 0>> # ParentId(p, i) => filed[<<q, 0>>] = slices[<<q, 0>>]
<1> DEFINE id == ParentId(p, i)
<1>1. /\ id \in EventIds /\ <<p, i>> \in EventIds
      /\ slices \in [EventIds -> Seq(EventIds)] /\ slices[id] \in Seq(EventIds)
  BY Typing DEF IInv, TypeOK
<1>2. \A q \in Publications : <<q, 0>> = id => q = p
  BY DEF ParentId
<1> HIDE DEF id
<1>3. /\ filed \in [EventIds -> Seq(EventIds)]
      /\ filed[id] = Append(slices[id], <<p, i>>)
      /\ \A other \in EventIds \ {id} : filed[other] = slices[other]
  BY <1>1 DEF id
<1>4. ASSUME NEW q \in Publications PROVE SlicesOf(q, filed[<<q, 0>>])
  <2>1. <<q, 0>> \in EventIds /\ SlicesOf(q, slices[<<q, 0>>])
    BY Typing DEF IInv, SliceInv
  <2>2. CASE <<q, 0>> # id
    BY <1>3, <2>1, <2>2
  <2>3. CASE <<q, 0>> = id
    <3> DEFINE old == slices[id]
               new == Append(old, <<p, i>>)
    <3>1. old \in Seq(EventIds) /\ SlicesOf(p, old) /\ filed[<<q, 0>>] = new /\ q = p
      BY <1>1, <1>2, <1>3, <2>1, <2>3
    <3>2. \A k \in 1 .. Len(old) : old[k] # <<p, i>>
      BY <1>1 DEF ToSet, id
    <3> HIDE DEF old
    <3>3. /\ Len(old) \in Nat /\ Len(new) = Len(old) + 1 /\ new[Len(old) + 1] = <<p, i>>
          /\ \A k \in 1 .. Len(old) : new[k] = old[k]
      BY <1>1, <3>1
    <3> HIDE DEF new
    <3>4. \A k \in 1 .. Len(new) : k \in 1 .. Len(old) \/ k = Len(old) + 1
      BY <3>3
    <3>5. \A k \in 1 .. Len(new) : \E j \in 1 .. Packets[p] : new[k] = <<p, j>>
      <4>1. \A k \in 1 .. Len(old) : \E j \in 1 .. Packets[p] : new[k] = <<p, j>>
        BY <3>1, <3>3 DEF SlicesOf
      <4> QED BY <3>3, <3>4, <4>1
    <3>6. \A k, l \in 1 .. Len(new) : new[k] = new[l] => k = l
      <4>1. \A k, l \in 1 .. Len(old) : new[k] = new[l] => k = l
        BY <3>1, <3>3 DEF SlicesOf
      <4>2. \A k \in 1 .. Len(old) : new[k] # new[Len(old) + 1]
        BY <3>2, <3>3
      <4> QED BY <3>4, <4>1, <4>2
    <3>7. SlicesOf(p, new)
      BY <3>5, <3>6 DEF SlicesOf
    <3> QED BY <3>1, <3>7
  <2> QED BY <2>2, <2>3
<1> QED BY <1>3, <1>4, Typing DEF id

\* An entry belongs to a request for its repository that still waits.
LEMMA EntryFields ==
  ASSUME IInv, NEW repo \in Repos, pendingRequests[repo] # None
  PROVE  /\ pendingRequests[repo] \in Entries
         /\ pendingRequests[repo].request \in Requests
         /\ pendingRequests[repo].manifest \in Publications \cup {None}
         /\ Wanted[pendingRequests[repo].request] = repo
         /\ status[pendingRequests[repo].request] = "waiting"
         /\ pendingRequests[repo].request \in timers
BY DEF IInv, TypeOK, Entries

(***************************************************************************)
(* checkComplete of an entry that now has manifest p, with the slices that *)
(* are filed by now: the request resolves with what p carries, or the      *)
(* entry waits for a slice that is still to come.                          *)
(***************************************************************************)
LEMMA CheckCompleteKeeps ==
  ASSUME IInv, NEW p \in Publications, NEW repo, repo = Path[p],
         pendingRequests[repo] # None,
         NEW pending \in Entries, pending.request = pendingRequests[repo].request,
         pending.manifest = p,
         NEW filed \in [EventIds -> Seq(EventIds)], slices' = filed,
         \A q \in Publications : SlicesOf(q, filed[<<q, 0>>]),
         \A q \in Publications : q # p => filed[<<q, 0>>] = slices[<<q, 0>>],
         manifests' \in [Repos -> Publications \cup {None}],
         \A other \in Repos : manifests'[other] # None => Path[manifests'[other]] = other,
         CheckComplete(repo, pending, filed)
  PROVE  IInv'
<1> DEFINE r == pending.request
<1>1. /\ repo \in Repos /\ r \in Requests /\ Wanted[r] = repo
      /\ status[r] = "waiting" /\ r \in timers
      /\ filed[<<p, 0>>] \in Seq(EventIds) /\ p # None
      /\ Carried(p) \in Seq(EventIds) /\ Packets[p] \in Nat
  BY EntryFields, Typing
<1> HIDE DEF r
<1>2. SliceInv'
  BY DEF SliceInv, SlicesOf
<1>3. \A other \in Repos \ {repo} :
         /\ pendingRequests'[other] = pendingRequests[other]
         /\ pendingRequests[other] # None => pendingRequests[other].request # r
  BY <1>1, EntryFields DEF CheckComplete, IInv, TypeOK
<1>4. ASSUME NEW other \in Repos \ {repo},
             pendingRequests'[other] # None, pendingRequests'[other].manifest # None
      PROVE  /\ Path[pendingRequests'[other].manifest] = other
             /\ Len(slices'[<<pendingRequests'[other].manifest, 0>>])
                  < Packets[pendingRequests'[other].manifest]
  <2> DEFINE q == pendingRequests[other].manifest
  <2>1. pendingRequests'[other] = pendingRequests[other]
    BY <1>3
  <2>2. q \in Publications /\ Path[q] = other /\ Len(slices[<<q, 0>>]) < Packets[q]
    BY <1>4, <2>1, EntryFields DEF IInv, ManifestInv, NoLostWakeup
  <2> HIDE DEF q
  <2>3. slices'[<<q, 0>>] = slices[<<q, 0>>]
    BY <2>2
  <2> QED BY <2>1, <2>2, <2>3 DEF q
<1>5. CASE /\ Complete(p, filed)
           /\ timers' = timers \ {r}
           /\ pendingRequests' = [pendingRequests EXCEPT ![repo] = None]
           /\ status' = [status EXCEPT ![r] = "resolved"]
           /\ answer' = [answer EXCEPT ![r] = ReconstructPayload(p, filed)]
  <2>1. ReconstructPayload(p, filed) = Carried(p)
    BY <1>1, <1>5, CompleteIsWhole DEF Carried
  <2>2. pendingRequests'[repo] = None
    BY <1>1, <1>5 DEF IInv, TypeOK
  <2>3. TypeOK'
    BY <1>1, <1>3, <1>5, <2>1, <2>2 DEF IInv, TypeOK
  <2>4. ManifestInv' /\ NoLostWakeup'
    BY <1>4, <2>2 DEF ManifestInv, NoLostWakeup
  <2>5. ASSUME NEW q \in Requests, status'[q] = "resolved"
        PROVE  \E o \in Publications : Path[o] = Wanted[q] /\ answer'[q] = Carried(o)
    <3>1. CASE q = r
      <4>1. answer'[r] = Carried(p)
        BY <1>1, <1>5, <2>1 DEF IInv, TypeOK
      <4> QED BY <1>1, <3>1, <4>1
    <3>2. CASE q # r
      BY <1>1, <1>5, <2>5, <3>2 DEF IInv, TypeOK, AnswersAreCarried, Carried
    <3> QED BY <3>1, <3>2
  <2>6. AnswersAreCarried'
    BY <2>5 DEF AnswersAreCarried, Carried
  <2> QED BY <1>2, <2>3, <2>4, <2>6 DEF IInv
<1>6. CASE /\ ~Complete(p, filed)
           /\ pendingRequests' = [pendingRequests EXCEPT ![repo] = pending]
           /\ UNCHANGED <<timers, status, answer>>
  <2>1. pendingRequests'[repo] = pending
    BY <1>1, <1>6 DEF IInv, TypeOK
  <2>2. TypeOK'
    BY <1>1, <1>3, <1>6, <2>1 DEF IInv, TypeOK, r
  <2>3. Len(slices'[<<p, 0>>]) < Packets[p]
    BY <1>1, <1>6 DEF Complete
  <2>4. ManifestInv' /\ NoLostWakeup'
    BY <1>4, <2>1, <2>3 DEF ManifestInv, NoLostWakeup
  <2>5. AnswersAreCarried'
    BY <1>6 DEF IInv, AnswersAreCarried
  <2> QED BY <1>2, <2>2, <2>4, <2>5 DEF IInv
<1> QED BY <1>5, <1>6 DEF CheckComplete, r

-----------------------------------------------------------------------------
(***************************************************************************)
(* The steps, one by one.                                                  *)
(***************************************************************************)

LEMMA InitInv == Init => IInv
<1> SUFFICES ASSUME Init PROVE IInv
  OBVIOUS
<1>1. TypeOK
  BY DEF Init, TypeOK
<1>2. SliceInv
  <2>1. \A p \in Publications : <<p, 0>> \in EventIds
    <3>1. \A p \in Publications : 0 \in 0 .. Packets[p]
      BY BundleAssumption
    <3> QED BY <3>1 DEF EventIds, Ids
  <2>2. \A p \in Publications : slices[<<p, 0>>] = <<>>
    BY <2>1 DEF Init
  <2>3. \A p \in Publications : SlicesOf(p, <<>>)
    <3>1. 1 .. Len(<<>>) = {}
      OBVIOUS
    <3> QED BY <3>1 DEF SlicesOf
  <2> QED BY <2>2, <2>3 DEF SliceInv
<1>3. ManifestInv /\ NoLostWakeup /\ AnswersAreCarried
  BY DEF Init, ManifestInv, NoLostWakeup, AnswersAreCarried
<1> QED BY <1>1, <1>2, <1>3 DEF IInv

\* Where entries and slices stay, so do the facts about them.
LEMMA ManifestKept ==
  ASSUME IInv, UNCHANGED <<slices, pendingRequests, timers, status, answer>>,
         manifests' \in [Repos -> Publications \cup {None}],
         \A other \in Repos : manifests'[other] # None => Path[manifests'[other]] = other
  PROVE  IInv'
<1>1. TypeOK'
  BY DEF IInv, TypeOK
<1>2. SliceInv' /\ ManifestInv' /\ NoLostWakeup' /\ AnswersAreCarried'
  BY DEF IInv, SliceInv, ManifestInv, NoLostWakeup, AnswersAreCarried
<1> QED BY <1>1, <1>2 DEF IInv

LEMMA ProcessManifestInv ==
  ASSUME IInv, NEW p \in Publications, ProcessManifest(p)
  PROVE  IInv'
<1>1. /\ manifests' = [manifests EXCEPT ![Path[p]] = p] /\ slices' = slices
      /\ Path[p] \in Repos
  BY Typing DEF ProcessManifest
<1>2. /\ manifests' \in [Repos -> Publications \cup {None}]
      /\ \A other \in Repos : manifests'[other] # None => Path[manifests'[other]] = other
  BY <1>1 DEF IInv, TypeOK, ManifestInv
<1>3. CASE /\ AwaitsManifest(Path[p])
           /\ CheckComplete(Path[p], [pendingRequests[Path[p]] EXCEPT !.manifest = p], slices)
  <2> DEFINE pending == [pendingRequests[Path[p]] EXCEPT !.manifest = p]
  <2>1. pendingRequests[Path[p]] # None
    BY <1>3 DEF AwaitsManifest
  <2>2. pendingRequests[Path[p]] \in Entries
    BY <1>1, <2>1, EntryFields
  <2>3. /\ pending \in Entries /\ pending.manifest = p
        /\ pending.request = pendingRequests[Path[p]].request
    BY <2>2 DEF Entries
  <2> HIDE DEF pending
  <2>4. slices \in [EventIds -> Seq(EventIds)] /\ \A q \in Publications : SlicesOf(q, slices[<<q, 0>>])
    BY DEF IInv, TypeOK, SliceInv
  <2>5. CheckComplete(Path[p], pending, slices)
    BY <1>3 DEF pending
  <2> QED BY <1>1, <1>2, <2>1, <2>3, <2>4, <2>5, CheckCompleteKeeps
<1>4. CASE UNCHANGED <<pendingRequests, timers, status, answer>>
  BY <1>1, <1>2, <1>4, ManifestKept
<1> QED BY <1>3, <1>4 DEF ProcessManifest

LEMMA ProcessSliceInv ==
  ASSUME IInv, NEW p \in Publications, NEW i \in 1 .. Packets[p], ProcessSlice(p, i)
  PROVE  IInv'
<1> DEFINE id == ParentId(p, i)
           filed == [slices EXCEPT ![id] = Append(@, <<p, i>>)]
<1>1. /\ <<p, i>> \notin ToSet(slices[id]) /\ slices' = filed /\ manifests' = manifests
      /\ \/ AwaitsSlices(Path[p], id) /\ CheckComplete(Path[p], pendingRequests[Path[p]], filed)
         \/ ~AwaitsSlices(Path[p], id) /\ UNCHANGED <<pendingRequests, timers, status, answer>>
  BY DEF ProcessSlice
<1>2. /\ filed \in [EventIds -> Seq(EventIds)]
      /\ \A q \in Publications : SlicesOf(q, filed[<<q, 0>>])
      /\ \A q \in Publications : <<q, 0>> # id => filed[<<q, 0>>] = slices[<<q, 0>>]
  BY <1>1, FiledKept
<1>3. \A q \in Publications : <<q, 0>> = id => q = p
  BY DEF ParentId
<1>4. /\ manifests' \in [Repos -> Publications \cup {None}]
      /\ \A other \in Repos : manifests'[other] # None => Path[manifests'[other]] = other
  BY <1>1 DEF IInv, TypeOK, ManifestInv
<1>5. Path[p] \in Repos
  BY Typing
<1> HIDE DEF filed, id
<1>6. CASE AwaitsSlices(Path[p], id) /\ CheckComplete(Path[p], pendingRequests[Path[p]], filed)
  <2>1. /\ pendingRequests[Path[p]] # None
        /\ <<pendingRequests[Path[p]].manifest, 0>> = id
    BY <1>6 DEF AwaitsSlices
  <2>2. /\ pendingRequests[Path[p]] \in Entries /\ pendingRequests[Path[p]].manifest = p
    <3>1. pendingRequests[Path[p]].manifest = p
      BY <2>1 DEF id, ParentId
    <3> QED BY <1>5, <2>1, <3>1, EntryFields
  <2>3. \A q \in Publications : q # p => filed[<<q, 0>>] = slices[<<q, 0>>]
    BY <1>2, <1>3
  <2> QED BY <1>1, <1>2, <1>4, <1>6, <2>1, <2>2, <2>3, CheckCompleteKeeps
<1>7. CASE ~AwaitsSlices(Path[p], id) /\ UNCHANGED <<pendingRequests, timers, status, answer>>
  <2>1. TypeOK'
    BY <1>1, <1>2, <1>7 DEF IInv, TypeOK
  <2>2. SliceInv'
    BY <1>1, <1>2 DEF SliceInv, SlicesOf
  <2>3. ManifestInv' /\ AnswersAreCarried'
    BY <1>1, <1>7 DEF IInv, ManifestInv, AnswersAreCarried
  <2>4. ASSUME NEW repo \in Repos, pendingRequests[repo] # None,
               NEW q, q = pendingRequests[repo].manifest, q # None
        PROVE  Len(slices'[<<q, 0>>]) < Packets[q]
    <3>1. q \in Publications /\ Path[q] = repo /\ Len(slices[<<q, 0>>]) < Packets[q]
      BY <2>4, EntryFields DEF IInv, ManifestInv, NoLostWakeup
    <3>2. <<q, 0>> # id
      BY <1>3, <1>7, <2>4, <3>1 DEF AwaitsSlices
    <3> QED BY <1>1, <1>2, <3>1, <3>2
  <2>5. NoLostWakeup'
    BY <1>7, <2>4 DEF NoLostWakeup
  <2> QED BY <2>1, <2>2, <2>3, <2>5 DEF IInv
<1> QED BY <1>1, <1>6, <1>7

LEMMA RequestCachedInv ==
  ASSUME IInv, NEW r \in Requests, RequestCached(r)
  PROVE  IInv'
<1> DEFINE p == manifests[Wanted[r]]
<1>1. /\ status[r] = "new" /\ p # None /\ Complete(p, slices)
      /\ status' = [status EXCEPT ![r] = "resolved"]
      /\ answer' = [answer EXCEPT ![r] = ReconstructPayload(p, slices)]
      /\ UNCHANGED <<manifests, slices, pendingRequests, timers>>
  BY DEF RequestCached, Cached
<1>2. Wanted[r] \in Repos
  BY BundleAssumption
<1>3. p \in Publications /\ Path[p] = Wanted[r]
  BY <1>1, <1>2 DEF IInv, TypeOK, ManifestInv
<1> HIDE DEF p
<1>4. ReconstructPayload(p, slices) = Carried(p) /\ Carried(p) \in Seq(EventIds)
  <2>1. slices[<<p, 0>>] \in Seq(EventIds) /\ SlicesOf(p, slices[<<p, 0>>])
    BY <1>3, Typing DEF IInv, TypeOK, SliceInv
  <2> QED BY <1>1, <1>3, <2>1, CompleteIsWhole, Typing DEF Carried
<1>5. \A repo \in Repos : pendingRequests[repo] # None => pendingRequests[repo].request # r
  BY <1>1, EntryFields
<1>6. TypeOK'
  BY <1>1, <1>4, <1>5 DEF IInv, TypeOK
<1>7. SliceInv' /\ ManifestInv' /\ NoLostWakeup'
  BY <1>1 DEF IInv, SliceInv, ManifestInv, NoLostWakeup
<1>8. ASSUME NEW q \in Requests, status'[q] = "resolved"
      PROVE  \E o \in Publications : Path[o] = Wanted[q] /\ answer'[q] = Carried(o)
  <2>1. CASE q = r
    <3>1. answer'[r] = Carried(p)
      BY <1>1, <1>4 DEF IInv, TypeOK
    <3> QED BY <1>3, <2>1, <3>1
  <2>2. CASE q # r
    BY <1>1, <1>8, <2>2 DEF IInv, TypeOK, AnswersAreCarried, Carried
  <2> QED BY <2>1, <2>2
<1>9. AnswersAreCarried'
  BY <1>8 DEF AnswersAreCarried, Carried
<1> QED BY <1>6, <1>7, <1>9 DEF IInv

\* A request replaces the entry of an earlier one, whose timer goes on.
LEMMA RequestBundleInv ==
  ASSUME IInv, NEW r \in Requests, RequestBundle(r)
  PROVE  IInv'
<1> DEFINE entry == [request |-> r, manifest |-> None]
<1>1. /\ status[r] = "new" /\ timers' = timers \cup {r}
      /\ pendingRequests' = [pendingRequests EXCEPT ![Wanted[r]] = entry]
      /\ status' = [status EXCEPT ![r] = "waiting"]
      /\ UNCHANGED <<manifests, slices, answer>>
  BY DEF RequestBundle
<1>2. Wanted[r] \in Repos /\ entry \in Entries /\ entry.request = r /\ entry.manifest = None
  BY BundleAssumption DEF Entries
<1> HIDE DEF entry
<1>3. \A repo \in Repos : pendingRequests[repo] # None => pendingRequests[repo].request # r
  BY <1>1, EntryFields
<1>4. /\ pendingRequests'[Wanted[r]] = entry
      /\ \A repo \in Repos \ {Wanted[r]} : pendingRequests'[repo] = pendingRequests[repo]
  BY <1>1, <1>2 DEF IInv, TypeOK
<1>5. TypeOK'
  BY <1>1, <1>2, <1>3, <1>4 DEF IInv, TypeOK
<1>6. SliceInv' /\ AnswersAreCarried'
  BY <1>1 DEF IInv, TypeOK, SliceInv, AnswersAreCarried
<1>7. ManifestInv' /\ NoLostWakeup'
  BY <1>1, <1>2, <1>4 DEF IInv, ManifestInv, NoLostWakeup
<1> QED BY <1>5, <1>6, <1>7 DEF IInv

\* A timer deletes the entry of its repository, whosever it is: no other
\* entry belongs to the request that is rejected.
LEMMA TimeoutInv ==
  ASSUME IInv, NEW r \in Requests, Timeout(r)
  PROVE  IInv'
<1>1. /\ timers' = timers \ {r}
      /\ pendingRequests' = [pendingRequests EXCEPT ![Wanted[r]] = None]
      /\ status' = [status EXCEPT ![r] = "rejected"]
      /\ UNCHANGED <<manifests, slices, answer>>
  BY DEF Timeout
<1>2. Wanted[r] \in Repos
  BY BundleAssumption
<1>3. /\ pendingRequests'[Wanted[r]] = None
      /\ \A repo \in Repos \ {Wanted[r]} :
           /\ pendingRequests'[repo] = pendingRequests[repo]
           /\ pendingRequests[repo] # None => pendingRequests[repo].request # r
  BY <1>1, <1>2, EntryFields DEF IInv, TypeOK
<1>4. TypeOK'
  BY <1>1, <1>2, <1>3 DEF IInv, TypeOK
<1>5. SliceInv' /\ AnswersAreCarried'
  BY <1>1 DEF IInv, TypeOK, SliceInv, AnswersAreCarried
<1>6. ManifestInv' /\ NoLostWakeup'
  BY <1>1, <1>3 DEF IInv, ManifestInv, NoLostWakeup
<1> QED BY <1>4, <1>5, <1>6 DEF IInv

\* The inductive invariant holds in every reachable state.
THEOREM Invariance == Spec => []IInv
<1>1. IInv /\ [Next]_vars => IInv'
  <2>1. ASSUME IInv, UNCHANGED vars PROVE IInv'
    BY <2>1 DEF vars, IInv, TypeOK, SliceInv, ManifestInv, NoLostWakeup, AnswersAreCarried
  <2> QED BY <2>1, ProcessManifestInv, ProcessSliceInv, RequestCachedInv, RequestBundleInv,
             TimeoutInv DEF Next
<1> QED BY InitInv, <1>1, PTL DEF Spec

\* Entries keep their types and belong to requests that still wait, although
\* requests replace each other's entry and timers delete what is not theirs.
THEOREM TypeCorrect == Spec => []TypeOK
<1>1. IInv => TypeOK
  BY DEF IInv
<1> QED BY Invariance, <1>1, PTL

\* No entry waits for a bundle that is already complete, in whichever order
\* manifests, slices and requests came.
THEOREM WakeupsAreKept == Spec => []NoLostWakeup
<1>1. IInv => NoLostWakeup
  BY DEF IInv
<1> QED BY Invariance, <1>1, PTL

\* What p carries is its bundle exactly when no slice of it is parity.
LEMMA CarriedIsBundle ==
  ASSUME NEW p \in Publications
  PROVE  IsBundle(p, Carried(p)) <=> Parity[p] = {}
<1>1. Packets[p] \in Nat /\ DOMAIN Carried(p) = 1 .. Packets[p]
  BY BundleAssumption DEF Carried
<1>2. ToSet(Carried(p)) = {<<p, i>> : i \in 1 .. Packets[p]}
  BY <1>1 DEF ToSet, Carried
<1>3. \A i, j \in 1 .. Packets[p] : i < j => Carried(p)[i][2] < Carried(p)[j][2]
  BY DEF Carried
<1>4. ASSUME Parity[p] = {} PROVE IsBundle(p, Carried(p))
  BY <1>1, <1>2, <1>3, <1>4 DEF IsBundle, DataSlices
<1>5. ASSUME NEW k \in Parity[p] PROVE ~IsBundle(p, Carried(p))
  <2>1. k \in 1 .. Packets[p]
    BY BundleAssumption
  <2>2. <<p, k>> \in ToSet(Carried(p)) /\ <<p, k>> \notin DataSlices(p)
    BY <1>2, <2>1 DEF DataSlices
  <2> QED BY <2>2 DEF IsBundle
<1> QED BY <1>4, <1>5

\* A request resolves with all that one publication of the repository it
\* asked for carries, each slice once and in order, however many there are
\* and in whichever order they came: the bundle if none of them is parity,
\* and never the bundle if one is.
THEOREM AnswersWhole == Spec => []AnswersAreWhole
<1>1. AnswersAreCarried => AnswersAreWhole
  BY CarriedIsBundle DEF AnswersAreCarried, AnswersAreWhole
<1>2. IInv => AnswersAreWhole
  BY <1>1 DEF IInv
<1> QED BY Invariance, <1>2, PTL
=============================================================================
