---------------------------- MODULE MethodCache -----------------------------
(***************************************************************************)
(* Method lookup: GETPUBMET, which keeps the place where it last found the *)
(* method in its own operand, and GETDYNMET, which has no cache.  The code *)
(* is shared by all domains, and so are the caches in it; nothing orders   *)
(* what two domains do to them.                                            *)
(*                                                                         *)
(* A method table has in its field 0 the number of public methods, in      *)
(* field 1 the mask for cached places, then the methods with their tags:   *)
(* method n (from 0) in field 2 * n + 2 and its tag in field 2 * n + 3, in *)
(* the order of the tags, and padding or other methods after them.  A      *)
(* cached place, in bytes in the code, is here the number n of a method:   *)
(* the bytes are 2 * sizeof(value) * n, and the mask, of the lowest bits,  *)
(* takes n modulo the power of two in Fit.                                 *)
(***************************************************************************)
EXTENDS Integers, Sequences

CONSTANTS
  Domain, \* the domains
  Site,   \* the GETPUBMET instructions
  NoSite, \* stands for a GETDYNMET
  Class,
  Tags,   \* the tags of each class's public methods
  Fit,    \* fit_size of the number of public methods of each class
  SiteTag \* the tag in each GETPUBMET

\* The mask of a table of n methods keeps the places below fit_size[n].
fit_size[n \in Nat] == IF n <= 2 THEN n ELSE 2 * fit_size[(n + 1) \div 2]

\* create_table wants the labels in ascending order.
ASSUME MethodAssumption ==
  /\ NoSite \notin Site
  /\ Tags \in [Class -> Seq(Int)]
  /\ \A c \in Class : \A m, n \in 1 .. Len(Tags[c]) : m < n => Tags[c][m] < Tags[c][n]
  /\ Fit \in [Class -> Nat]
  /\ \A c \in Class : Len(Tags[c]) > 0 => Fit[c] > 0
  /\ SiteTag \in [Site -> Int]

\* What lets % Fit[c] stand for the mask (& in the code).
ASSUME FitAssumption ==
  \A c \in Class :
    Len(Tags[c]) > 0 => /\ Fit[c] = fit_size[Len(Tags[c])]
                        /\ \E k \in 0 .. Len(Tags[c]) : Fit[c] = 2 ^ k

VARIABLES
  cache,     \* the operand of each GETPUBMET
  st,        \* what each domain does
  site, obj, \* the instruction it executes and the class of the object
  tag,       \* the tag it looks up, in accu
  ofs,       \* the cached place it has read
  li, hi,    \* the bounds of the search
  met        \* the field of the method table it has found

vars == <<cache, st, site, obj, tag, ofs, li, hi, met>>

\* Field(meths, f) for odd f; what is not a tag is a block and equals no tag
HoldsTag(c, f) == (f - 3) \div 2 < Len(Tags[c])
TagAt(c, f) == Tags[c][(f - 3) \div 2 + 1]
HasMethod(c, t) == \E n \in 1 .. Len(Tags[c]) : Tags[c][n] = t

\* The words of the table: new_table makes it, init_class resizes it.
Words(c) == IF Fit[c] > Len(Tags[c]) THEN 2 * Fit[c] + 2 ELSE 2 * Len(Tags[c]) + 2

Init ==
  /\ cache = [s \in Site |-> 0]
  /\ st = [d \in Domain |-> "idle"]
  /\ site = [d \in Domain |-> NoSite]
  /\ obj \in [Domain -> Class]
  /\ tag = [d \in Domain |-> 0]
  /\ ofs = [d \in Domain |-> 0]
  /\ li = [d \in Domain |-> 3] /\ hi = [d \in Domain |-> 3]
  /\ met = [d \in Domain |-> 0]

\* hi: Field(meths, 0) is the number of methods as an OCaml integer
Search(d, c) ==
  /\ st' = [st EXCEPT ![d] = "search"]
  /\ li' = [li EXCEPT ![d] = 3]
  /\ hi' = [hi EXCEPT ![d] = 2 * Len(Tags[c]) + 1]

\* The typechecker has made sure that the object has the method.
GETPUBMET(d, s, c) ==
  /\ st[d] = "idle" /\ HasMethod(c, SiteTag[s])
  /\ st' = [st EXCEPT ![d] = "test"]
  /\ site' = [site EXCEPT ![d] = s] /\ obj' = [obj EXCEPT ![d] = c]
  /\ tag' = [tag EXCEPT ![d] = SiteTag[s]]
  /\ ofs' = [ofs EXCEPT ![d] = cache[s] % Fit[c]]
  /\ UNCHANGED <<cache, li, hi, met>>

GETDYNMET(d, c, t) ==
  /\ st[d] = "idle" /\ HasMethod(c, t)
  /\ site' = [site EXCEPT ![d] = NoSite] /\ obj' = [obj EXCEPT ![d] = c]
  /\ tag' = [tag EXCEPT ![d] = t]
  /\ Search(d, c)
  /\ UNCHANGED <<cache, ofs, met>>

\* Mutant: the place is not compared with the tag
MutHit(d) ==
  /\ st[d] = "test"
  /\ met' = [met EXCEPT ![d] = 2 * ofs[d] + 2]
  /\ st' = [st EXCEPT ![d] = "done"]
  /\ UNCHANGED <<cache, site, obj, tag, ofs, li, hi>>

Hit(d) ==
  /\ st[d] = "test"
  /\ HoldsTag(obj[d], 2 * ofs[d] + 3) /\ TagAt(obj[d], 2 * ofs[d] + 3) = tag[d]
  /\ met' = [met EXCEPT ![d] = 2 * ofs[d] + 2]
  /\ st' = [st EXCEPT ![d] = "done"]
  /\ UNCHANGED <<cache, site, obj, tag, ofs, li, hi>>

Miss(d) ==
  /\ st[d] = "test"
  /\ HoldsTag(obj[d], 2 * ofs[d] + 3) => TagAt(obj[d], 2 * ofs[d] + 3) # tag[d]
  /\ Search(d, obj[d])
  /\ UNCHANGED <<cache, site, obj, tag, ofs, met>>

\* Mutants: the middle is rounded down; it is not made odd
MutMiddle(d) == 2 * (((li[d] + hi[d]) \div 2 - 1) \div 2) + 1
Middle(d) == 2 * (((li[d] + hi[d]) \div 2) \div 2) + 1 \* ((li + hi) >> 1) | 1

Halve(d) ==
  /\ st[d] = "search" /\ li[d] < hi[d]
  /\ IF tag[d] < TagAt(obj[d], Middle(d))
     THEN hi' = [hi EXCEPT ![d] = Middle(d) - 2] /\ UNCHANGED li
     ELSE li' = [li EXCEPT ![d] = Middle(d)] /\ UNCHANGED hi
  /\ UNCHANGED <<cache, st, site, obj, tag, ofs, met>>

Found(d) ==
  /\ st[d] = "search" /\ li[d] >= hi[d]
  /\ met' = [met EXCEPT ![d] = li[d] - 1]
  /\ cache' = IF site[d] = NoSite THEN cache
              ELSE [cache EXCEPT ![site[d]] = (li[d] - 3) \div 2]
  /\ st' = [st EXCEPT ![d] = "done"]
  /\ UNCHANGED <<site, obj, tag, ofs, li, hi>>

\* The call of the method, and whatever comes before the next lookup; the
\* locals of the instruction are no more
Call(d) ==
  /\ st[d] = "done" /\ st' = [st EXCEPT ![d] = "idle"]
  /\ site' = [site EXCEPT ![d] = NoSite]
  /\ tag' = [tag EXCEPT ![d] = 0]
  /\ ofs' = [ofs EXCEPT ![d] = 0]
  /\ li' = [li EXCEPT ![d] = 3] /\ hi' = [hi EXCEPT ![d] = 3]
  /\ met' = [met EXCEPT ![d] = 0]
  /\ UNCHANGED <<cache, obj>>

Lookup(d) == Hit(d) \/ Miss(d) \/ Halve(d) \/ Found(d)

Next ==
  \E d \in Domain :
    \/ \E s \in Site, c \in Class : GETPUBMET(d, s, c)
    \/ \E c \in Class : \E n \in 1 .. Len(Tags[c]) : GETDYNMET(d, c, Tags[c][n])
    \/ Lookup(d) \/ Call(d)

Spec == Init /\ [][Next]_vars

\* A domain that looks a method up goes on running.
FairSpec == Spec /\ \A d \in Domain : WF_vars(Lookup(d))
-----------------------------------------------------------------------------
(* Properties *)

\* The variables have their types; the bounds of a search are the fields of
\* tags, which are odd.
TypeOK ==
  /\ cache \in [Site -> Nat]
  /\ st \in [Domain -> {"idle", "test", "search", "done"}]
  /\ site \in [Domain -> Site \cup {NoSite}]
  /\ obj \in [Domain -> Class]
  /\ tag \in [Domain -> Int]
  /\ ofs \in [Domain -> Nat]
  /\ li \in [Domain -> Nat] /\ hi \in [Domain -> Nat]
  /\ \A d \in Domain : li[d] % 2 = 1 /\ hi[d] % 2 = 1
  /\ met \in [Domain -> Nat]

\* GETPUBMET and GETDYNMET find the method of the object's class that has the
\* tag, whatever place other objects, and other domains in the middle of
\* their own lookups, have left in the cache.
LookupRight ==
  \A d \in Domain :
    st[d] = "done" =>
      \E n \in 1 .. Len(Tags[obj[d]]) : met[d] = 2 * n /\ Tags[obj[d]][n] = tag[d]

\* The fields that the cache test and the search read are fields of the table
\* of the object's class, although the place in the cache may come from a
\* longer table.
InTable ==
  \A d \in Domain :
    /\ st[d] = "test" => 2 * ofs[d] + 3 < Words(obj[d])
    /\ st[d] = "search" => /\ li[d] < Words(obj[d])
                           /\ li[d] < hi[d] => Middle(d) > li[d] /\ Middle(d) < Words(obj[d])

\* GETPUBMET and GETDYNMET find the right method and read only the table they
\* search, through caches that all domains write.
CacheSound == TypeOK /\ LookupRight /\ InTable

\* Every lookup comes to an end: the search halves a range until one tag is
\* left.
LookupReturns == \A d \in Domain : st[d] = "test" ~> st[d] = "done"
=============================================================================
