------------------------------ MODULE Rangeset ------------------------------
(***************************************************************************)
(* Sets of numeric ranges: xen/common/rangeset.c.  A set of `unsigned      *)
(* long' numbers is kept as a list of inclusive ranges; every operation    *)
(* runs under the set's lock, so each is one step.                         *)
(*                                                                         *)
(* A definition marked "Deviation" is the one below it with a slip that    *)
(* some property must notice; the specification does not use it.           *)
(***************************************************************************)
EXTENDS Integers, Sequences, FiniteSetsExt, SequencesExt

CONSTANTS
    Width,      \* bits of an unsigned long
    MaxRanges   \* bound: longer lists are not looked at once the set is spoilt

ASSUME RangesetConstants == Width \in Nat /\ MaxRanges \in Nat

VARIABLES
    ranges,     \* r->range_list: the ranges in list order
    call        \* history: the last call, its range and whether it succeeded, or Spoilt

vars == <<ranges, call>>

Largest == 2 ^ Width - 1    \* ~0UL
Numbers == 0 .. Largest

Inc(n) == (n + 1) % 2 ^ Width
Dec(n) == (n - 1) % 2 ^ Width

Interval(s, e) == [s |-> s, e |-> e]

New == [op |-> "new", s |-> 0, e |-> 0, ok |-> TRUE]

(* In a removal e + 1 has wrapped; stays until there is a new set. *)
Spoilt == [op |-> "spoilt", s |-> 0, e |-> 0, ok |-> TRUE]

Init == ranges = <<>> /\ call = New

-----------------------------------------------------------------------------
(* Private range functions; positions in the list stand for pointers, 0 for   *)
(* NULL.                                                                      *)

(* "Find highest range lower than or containing s. NULL if no such range." *)
find_range(r, n) ==
    LET above == {i \in DOMAIN r : r[i].s > n}
    IN  IF above = {} THEN Len(r) ELSE Min(above) - 1

(* destroy_range() on the ranges after position i and before position j. *)
destroy_between(r, i, j) == SubSeq(r, 1, i) \o SubSeq(r, j, Len(r))

-----------------------------------------------------------------------------
(* rangeset_add_range() *)

(* Range x of the list is below s and does not touch it. *)
Apart(r, x, s) == r[x].e < s /\ Inc(r[x].e) # s

(* One range lies below both ends, or none does: extend it, or insert a new   *)
(* one behind it.  The result is the list and the position of the new range.  *)
AddWithin(r, x, s, e) ==
    IF x = 0 \/ Apart(r, x, s)
    THEN [list |-> InsertAt(r, x + 1, Interval(s, e)), at |-> x + 1]
    ELSE [list |-> [r EXCEPT ![x].e = IF @ < e THEN e ELSE @], at |-> x]

(* Deviation: the last range's end is not looked at. *)
AddAcrossShort(r, x, y, s, e) ==
    LET fresh == x = 0 \/ Apart(r, x, s)
        k == IF fresh THEN x + 1 ELSE x
        wide == [r EXCEPT ![k] = Interval(IF fresh THEN s ELSE @.s, e)]
    IN  [list |-> destroy_between(wide, k, y + 1), at |-> k]

(* Ranges x and y differ: one of the list is stretched over the new range and *)
(* those it has come to cover are destroyed.                                  *)
AddAcross(r, x, y, s, e) ==
    LET fresh == x = 0 \/ Apart(r, x, s)
        k == IF fresh THEN x + 1 ELSE x
        top == IF r[y].e > e THEN r[y].e ELSE e
        wide == [r EXCEPT ![k] = Interval(IF fresh THEN s ELSE @.s, top)]
        beyond == {i \in DOMAIN r : i > k /\ r[i].e > top}
    IN  [list |-> destroy_between(wide, k, IF beyond = {} THEN Len(r) + 1 ELSE Min(beyond)),
         at   |-> k]

(* Deviation: neighbours are not merged. *)
MergeNone(r, k) == r

(* The range after position k is merged when it starts where k ends. *)
MergeNext(r, k) ==
    IF k < Len(r) /\ Inc(r[k].e) = r[k + 1].s
    THEN destroy_between([r EXCEPT ![k].e = r[k + 1].e], k, k + 2)
    ELSE r

add_range(r, s, e) ==
    LET x == find_range(r, s)
        y == find_range(r, e)
        new == IF x = y THEN AddWithin(r, x, s, e) ELSE AddAcross(r, x, y, s, e)
    IN  MergeNext(new.list, new.at)

AddNeedsMemory(r, s, e) ==
    LET x == find_range(r, s)
    IN  x = find_range(r, e) /\ (x # 0 => Apart(r, x, s))

-----------------------------------------------------------------------------
(* rangeset_remove_range() *)

RemoveWithin(r, x, s, e) ==
    CASE x = 0 \/ r[x].e < s -> r
      [] r[x].s < s /\ r[x].e > e ->
           InsertAt([r EXCEPT ![x].e = Dec(s)], x + 1, Interval(Inc(e), r[x].e))
      [] r[x].s = s /\ r[x].e <= e -> RemoveAt(r, x)
      [] r[x].s = s /\ r[x].e > e -> [r EXCEPT ![x].s = Inc(e)]
      [] r[x].s < s /\ r[x].e <= e -> [r EXCEPT ![x].e = Dec(s)]

(* The first range, if it starts below s, ends below s from now on; those     *)
(* before y are destroyed; y loses what is not above e.                       *)
RemoveAcross(r, x, y, s, e) ==
    LET first == IF x = 0 THEN 1 ELSE x
        below == r[first].s < s
        cut == IF below THEN [r EXCEPT ![first].e = Dec(s)] ELSE r
        k == IF below THEN first + 1 ELSE first
        last == [destroy_between(cut, k - 1, y) EXCEPT ![k].s = Inc(e)]
    IN  IF last[k].s > last[k].e THEN RemoveAt(last, k) ELSE last

remove_range(r, s, e) ==
    LET x == find_range(r, s)
        y == find_range(r, e)
    IN  IF x = y THEN RemoveWithin(r, x, s, e) ELSE RemoveAcross(r, x, y, s, e)

RemoveNeedsMemory(r, s, e) ==
    LET x == find_range(r, s)
    IN  x = find_range(r, e) /\ x # 0 /\ r[x].s < s /\ r[x].e > e

(* "x->s = e + 1" stretches the last range down to 0. *)
RemoveWraps(r, s, e) == e = Largest /\ find_range(r, s) # find_range(r, e)

-----------------------------------------------------------------------------
(* Queries. *)

(* Deviation: only the start of the range is looked for. *)
contains_start(r, s, e) ==
    LET x == find_range(r, s) IN x # 0 /\ r[x].e >= s

contains_range(r, s, e) ==
    LET x == find_range(r, s) IN x # 0 /\ r[x].e >= e

overlaps_range(r, s, e) ==
    LET x == find_range(r, e) IN x # 0 /\ s <= r[x].e

(* Deviation: the pieces are not cut at s. *)
report_uncut(r, s, e) ==
    LET x == find_range(r, s)
        beyond == {i \in x .. Len(r) : i > 0 /\ r[i].s > e}
        seen == IF x = 0 THEN {} ELSE x .. (IF beyond = {} THEN Len(r) ELSE Min(beyond) - 1)
    IN  {Interval(r[i].s, IF r[i].e < e THEN r[i].e ELSE e) : i \in {j \in seen : r[j].e >= s}}

(* rangeset_report_ranges(): the pieces of [s, e] the callback is given, as   *)
(* long as it returns 0.                                                      *)
report_ranges(r, s, e) ==
    LET x == find_range(r, s)
        beyond == {i \in x .. Len(r) : i > 0 /\ r[i].s > e}
        seen == IF x = 0 THEN {} ELSE x .. (IF beyond = {} THEN Len(r) ELSE Min(beyond) - 1)
    IN  {Interval(IF r[i].s > s THEN r[i].s ELSE s, IF r[i].e < e THEN r[i].e ELSE e) :
            i \in {j \in seen : r[j].e >= s}}

is_empty(r) == r = <<>>

-----------------------------------------------------------------------------
Record(c) == call' = IF call = Spoilt THEN Spoilt ELSE c
Done(op, s, e, ok) == Record([op |-> op, s |-> s, e |-> e, ok |-> ok])

AddRange(s, e) ==
    /\ ranges' = add_range(ranges, s, e)
    /\ Done("add", s, e, TRUE)
    /\ call' = Spoilt => Len(ranges') <= MaxRanges

RemoveRange(s, e) ==
    /\ ranges' = remove_range(ranges, s, e)
    /\ IF RemoveWraps(ranges, s, e) THEN Record(Spoilt) ELSE Done("remove", s, e, TRUE)
    /\ call' = Spoilt => Len(ranges') <= MaxRanges

(* xmalloc() fails *)
AddFails(s, e) ==
    /\ AddNeedsMemory(ranges, s, e)
    /\ Done("add", s, e, FALSE) /\ UNCHANGED ranges

RemoveFails(s, e) ==
    /\ RemoveNeedsMemory(ranges, s, e)
    /\ Done("remove", s, e, FALSE) /\ UNCHANGED ranges

(* rangeset_destroy(), and a rangeset_new() after it. *)
Renew == ranges' = <<>> /\ call' = New

Next ==
    \/ \E s \in Numbers : \E e \in s .. Largest :
          AddRange(s, e) \/ RemoveRange(s, e) \/ AddFails(s, e) \/ RemoveFails(s, e)
    \/ Renew

Spec == Init /\ [][Next]_vars

-----------------------------------------------------------------------------
(* Properties. *)

Members(r) == UNION {r[i].s .. r[i].e : i \in DOMAIN r}

(* Next ranges are "in ascending order" (struct range), the list is "ordered" *)
(* (struct rangeset): each range ends below the one after it starts.          *)
Ascending == \A i \in 1 .. Len(ranges) - 1 : ranges[i].e < ranges[i + 1].s

(* Until a removal wraps, no range is empty and no two of them overlap or     *)
(* touch, which the queries rely on: they look at one range only.             *)
Canonical ==
    call # Spoilt =>
       /\ \A i \in DOMAIN ranges : /\ ranges[i] \in [s : Numbers, e : Numbers]
                                   /\ ranges[i].s <= ranges[i].e
       /\ \A i \in 1 .. Len(ranges) - 1 : ranges[i].e + 1 < ranges[i + 1].s

(* Until a removal wraps, rangeset_contains_range and rangeset_overlaps_range *)
(* answer for the whole set, and rangeset_is_empty does.                      *)
QueriesExact ==
    call # Spoilt =>
       /\ \A s \in Numbers : \A e \in s .. Largest :
             /\ contains_range(ranges, s, e) <=> s .. e \subseteq Members(ranges)
             /\ overlaps_range(ranges, s, e) <=> (s .. e) \cap Members(ranges) # {}
       /\ is_empty(ranges) <=> Members(ranges) = {}

(* Until a removal wraps, rangeset_report_ranges reports nothing twice and    *)
(* nothing that is not both in the set and asked for; and all of that, if the *)
(* question does not start below the first range.  What a question from below *)
(* should report, where the code reports nothing, is left open.               *)
ReportSound ==
    call # Spoilt =>
       \A s \in Numbers : \A e \in s .. Largest :
          LET told == report_ranges(ranges, s, e)
              numbers == UNION {p.s .. p.e : p \in told}
              asked == (s .. e) \cap Members(ranges)
          IN  /\ \A p, q \in told : p # q => (p.s .. p.e) \cap (q.s .. q.e) = {}
              /\ numbers \subseteq asked
              /\ find_range(ranges, s) # 0 => numbers = asked

(* "Remove a numeric range" (rangeset.h): what is left is the set without it. *)
(* Removals that wrap are another matter (Ascending).                         *)
RemoveIsDifference ==
    [][ call'.op = "remove" /\ call'.ok
        => Members(ranges') = Members(ranges) \ (call'.s .. call'.e) ]_vars

(* The list implements a set of numbers until a removal wraps: adding is      *)
(* union, removing leaves nothing of the range and keeps everything else, a   *)
(* call out of memory changes nothing.  A removal that wraps keeps everything *)
(* outside its range too.                                                     *)
Abstract == INSTANCE NumberSet WITH set <- Members(ranges)
IsNumberSet == Abstract!Spec
=============================================================================
