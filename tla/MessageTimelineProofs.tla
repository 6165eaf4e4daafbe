------------------------- MODULE MessageTimelineProofs -------------------------
(* Proofs about the web client's timeline, for any number of messages, versions
   and mutations and any page size.  What is asked of the pages, of a fetch that
   may replace them and of a snapshot that a rollback may bring back is the same:
   predicates on a record with the fields shown and cut.                       *)
EXTENDS MessageTimeline, FiniteSetTheorems, TLAPS

Shown == UNION {[S -> Item] : S \in SUBSET Messages}

Fetches == [kind : {"all", "older"}, shown : Shown, cut : 0..MaxMessage + 1,
            read : 0..MaxMessage, left : 0..MaxMessage, top : 0..MaxMessage,
            clean : BOOLEAN]

MutationRecords ==
    [at : {"idle", "sent", "applied", "refused", "over"}, on : 0..MaxMessage,
     expected : 0..MaxVersion, body : Body, snapshot : Pages \cup {None}]

\* Every item shown is a version the server had.
Honest(shown, p) ==
    \A m \in DOMAIN shown :
        shown[m].version <= Len(p[m]) /\ shown[m].body = p[m][shown[m].version]

\* The loaded part of v has what is known, at that version or a later one.
Holds(v, known) ==
    \A m \in Messages :
        known[m] > 0 /\ m >= v.cut =>
            m \in DOMAIN v.shown /\ v.shown[m].version >= known[m]

\* The loaded part of v has every message up to n.
Reaches(v, n) == \A m \in Messages : m <= n /\ m >= v.cut => m \in DOMAIN v.shown

\* The pages with a cursor leave at least one message out.
CutOK(cut, pages) == cut # 0 => cut >= 2 /\ pages + cut <= MaxMessage + 1

GoodPages(c) == c \in Pages /\ CutOK(c.cut, c.pages)

GoodFetch(f) ==
    /\ f \in Fetches
    /\ CutOK(f.cut, f.read)
    /\ f.read + f.left \in 1..MaxMessage
    /\ f.left > 0 => f.cut # 0
    /\ f.read = 0 => f.cut = MaxMessage + 1 /\ f.kind = "all" /\ f.top = 0

\* What the pages are once everything has settled: p is the server's past, k what
\* was confirmed and n the newest message of the last whole refetch.
Settled(v, p, k, n) == Honest(v.shown, p) /\ Holds(v, k) /\ Reaches(v, n)

Rest(v) == Settled(v, past, confirmed, full)

Quiet == Pending = {} /\ ~owed

ServerInv ==
    /\ past \in [Messages -> Seq(Body)]
    /\ \A m \in Messages : Len(past[m]) <= MaxVersion
    /\ Newest \in 0..MaxMessage /\ Exists = 1..Newest
    /\ publishing \subseteq [id : Messages, version : 1..MaxVersion]
    /\ \A f \in publishing : f.version <= Len(past[f.id])
    /\ sending \subseteq Exists

KnownInv ==
    /\ heard \in [Messages -> 0..MaxVersion] /\ confirmed \in [Messages -> 0..MaxVersion]
    /\ \A m \in Messages : heard[m] <= Len(past[m]) /\ confirmed[m] <= Len(past[m])
    /\ full \in 0..Newest
    /\ link \in {"new", "down", "ready", "subscribed"}
    /\ open \in BOOLEAN /\ owed \in BOOLEAN

MutationInv ==
    /\ mutation \in [Mutations -> MutationRecords]
    /\ \A i \in Pending :
          /\ mutation[i].on \in Messages /\ mutation[i].expected \in 1..MaxVersion - 1
          /\ GoodPages(mutation[i].snapshot) /\ Holds(mutation[i].snapshot, heard)
          /\ mutation[i].at = "applied" => mutation[i].expected < Len(past[mutation[i].on])

CacheInv ==
    /\ cache = None => /\ full = 0
                       /\ \A m \in Messages : heard[m] = 0 /\ confirmed[m] = 0
    /\ cache # None => /\ GoodPages(cache) /\ Holds(cache, heard)
                       /\ Quiet => Rest(cache)

FetchInv ==
    fetch # None =>
        /\ GoodFetch(fetch) /\ Holds(fetch, heard)
        /\ fetch.kind = "all" =>
              /\ Honest(fetch.shown, past)
              /\ fetch.clean => Holds(fetch, confirmed)
              /\ Reaches(fetch, fetch.top) /\ fetch.top <= Newest
        /\ fetch.kind = "older" /\ Quiet => Rest(fetch)
        /\ ~fetch.clean => owed

TimelineInv == ServerInv /\ KnownInv /\ MutationInv /\ CacheInv /\ FetchInv

-----------------------------------------------------------------------------
(* The pages.                                                               *)

LEMMA Sizes ==
    /\ MaxMessage \in Nat \ {0} /\ MaxVersion \in Nat \ {0} /\ Limit \in Nat \ {0}
    /\ Messages \subseteq Nat \ {0} /\ \A m \in Messages : m <= MaxMessage
  BY TimelineAssumption DEF Messages

LEMMA ShownType ==
    ASSUME NEW f \in Shown
    PROVE  /\ DOMAIN f \in SUBSET Messages /\ f \in [DOMAIN f -> Item]
           /\ \A m \in DOMAIN f : f[m] \in Item
  <1>1. PICK S \in SUBSET Messages : f \in [S -> Item]
    BY DEF Shown
  <1> QED
    BY <1>1

LEMMA PrependType ==
    ASSUME NEW f \in Shown, NEW S \in SUBSET Messages, NEW items,
           \A m \in S : items[m] \in Item
    PROVE  LET g == Prepend(S, items, f) IN
           /\ g \in Shown /\ DOMAIN g = S \cup DOMAIN f
           /\ \A m \in S : g[m] = items[m]
           /\ \A m \in DOMAIN f \ S : g[m] = f[m]
  <1> DEFINE g == Prepend(S, items, f)
  <1>1. DOMAIN f \in SUBSET Messages /\ \A m \in DOMAIN f : f[m] \in Item
    BY ShownType
  <1>2. g = [m \in S \cup DOMAIN f |-> IF m \in S THEN items[m] ELSE f[m]]
    BY DEF Prepend
  <1> HIDE DEF g
  <1>3. g \in [S \cup DOMAIN f -> Item] /\ S \cup DOMAIN f \in SUBSET Messages
    BY <1>1, <1>2
  <1>4. g \in Shown
    BY <1>3 DEF Shown
  <1> QED
    BY <1>2, <1>4 DEF g

LEMMA PagesType ==
    ASSUME NEW s \in Shown, NEW n \in 1..MaxMessage, NEW cut \in 0..MaxMessage
    PROVE  LET c == [shown |-> s, pages |-> n, cut |-> cut] IN
           c \in Pages /\ c # None /\ c.shown = s /\ c.pages = n /\ c.cut = cut
  <1>1. [shown |-> s, pages |-> n, cut |-> cut] \in Pages
    BY DEF Pages, Shown
  <1> QED
    BY <1>1, NoneAssumption

LEMMA PagesFields ==
    ASSUME NEW c \in Pages
    PROVE  /\ c.shown \in Shown /\ c.pages \in 1..MaxMessage /\ c.cut \in 0..MaxMessage
           /\ c # None
  BY NoneAssumption DEF Pages, Shown

LEMMA ItemMerge ==
    ASSUME NEW x \in Item, NEW y \in Item
    PROVE  /\ mergeMessages(x, y) \in {x, y}
           /\ mergeMessages(x, y).version >= x.version
           /\ mergeMessages(x, y).version >= y.version
  BY Sizes DEF mergeMessages, Item

LEMMA AppendType ==
    ASSUME NEW c, c = None \/ GoodPages(c), NEW m \in Messages, NEW item \in Item,
           NEW d, d = appendMessageToPages(c, m, item)
    PROVE  /\ GoodPages(d) /\ d # None
           /\ m \in DOMAIN d.shown /\ d.shown[m].version >= item.version
           /\ c = None => d.cut = 0 /\ DOMAIN d.shown = {m} /\ d.shown[m] = item
           /\ c # None =>
                 /\ d.cut = c.cut /\ DOMAIN d.shown = {m} \cup DOMAIN c.shown
                 /\ \A k \in DOMAIN c.shown :
                       d.shown[k].version >= c.shown[k].version
                 /\ \A k \in DOMAIN d.shown :
                       \/ k = m /\ d.shown[k] = item
                       \/ k \in DOMAIN c.shown /\ d.shown[k] = c.shown[k]
  <1>1. CASE c = None
    <2> DEFINE s == [k \in {m} |-> item]
    <2>1. s \in Shown /\ DOMAIN s = {m} /\ s[m] = item
      <3>1. s \in [{m} -> Item] /\ {m} \in SUBSET Messages
        OBVIOUS
      <3> QED
        BY <3>1 DEF Shown
    <2>2. d = [shown |-> s, pages |-> 1, cut |-> 0]
      BY <1>1 DEF appendMessageToPages
    <2> HIDE DEF s
    <2>3. d \in Pages /\ d # None /\ d.shown = s /\ d.cut = 0
      BY <2>1, <2>2, PagesType, Sizes
    <2>4. item.version \in Int
      BY Sizes DEF Item
    <2>5. GoodPages(d)
      BY <2>3 DEF GoodPages, CutOK
    <2>6. /\ GoodPages(d) /\ d # None
          /\ m \in DOMAIN d.shown /\ d.shown[m].version >= item.version
          /\ d.cut = 0 /\ DOMAIN d.shown = {m} /\ d.shown[m] = item
      BY <2>1, <2>3, <2>4, <2>5
    <2> QED
      BY <1>1, <2>6
  <1>2. CASE c # None
    <2> DEFINE merged == IF m \in DOMAIN c.shown THEN mergeMessages(c.shown[m], item) ELSE item
               items == [k \in {m} |-> merged]
               s == Prepend({m}, items, c.shown)
    <2>0. c \in Pages /\ CutOK(c.cut, c.pages)
      BY <1>2 DEF GoodPages
    <2>1. /\ c.shown \in Shown /\ c.pages \in 1..MaxMessage /\ c.cut \in 0..MaxMessage
          /\ \A k \in DOMAIN c.shown : c.shown[k] \in Item
      BY <2>0, PagesFields, ShownType
    <2>2. /\ merged \in Item /\ merged.version >= item.version
          /\ m \in DOMAIN c.shown => merged.version >= c.shown[m].version
          /\ merged = item \/ (m \in DOMAIN c.shown /\ merged = c.shown[m])
      <3>1. item.version >= item.version
        BY Sizes DEF Item
      <3>2. CASE m \in DOMAIN c.shown
        <4>1. c.shown[m] \in Item
          BY <2>1, <3>2
        <4>2. merged = mergeMessages(c.shown[m], item)
          BY <3>2
        <4> HIDE DEF merged
        <4> QED
          BY <3>2, <4>1, <4>2, ItemMerge
      <3>3. CASE m \notin DOMAIN c.shown
        <4>1. merged = item
          BY <3>3
        <4> HIDE DEF merged
        <4> QED
          BY <3>1, <3>3, <4>1
      <3> QED
        BY <3>2, <3>3
    <2>3. d = [c EXCEPT !.shown = s]
      BY <1>2 DEF appendMessageToPages
    <2> HIDE DEF merged
    <2>4. items[m] = merged /\ \A k \in {m} : items[k] \in Item
      BY <2>2
    <2> HIDE DEF items
    <2>5. /\ s \in Shown /\ DOMAIN s = {m} \cup DOMAIN c.shown /\ s[m] = merged
          /\ \A k \in DOMAIN c.shown \ {m} : s[k] = c.shown[k]
      <3>1. {m} \in SUBSET Messages
        OBVIOUS
      <3> QED
        BY <2>1, <2>4, <3>1, PrependType
    <2> HIDE DEF s
    <2>6. d \in Pages /\ d.shown = s /\ d.pages = c.pages /\ d.cut = c.cut
      BY <2>0, <2>3, <2>5 DEF Pages, Shown
    <2>7. GoodPages(d) /\ d # None
      BY <2>0, <2>6, PagesFields DEF GoodPages
    <2>8. \A k \in DOMAIN c.shown : c.shown[k].version \in Int
      BY <2>1, Sizes DEF Item
    <2>9. \A k \in DOMAIN c.shown : d.shown[k].version >= c.shown[k].version
      <3> SUFFICES ASSUME NEW k \in DOMAIN c.shown
                   PROVE  s[k].version >= c.shown[k].version
        BY <2>6
      <3> QED
        BY <2>2, <2>5, <2>8
    <2>10. \A k \in DOMAIN d.shown : \/ k = m /\ d.shown[k] = item
                                     \/ k \in DOMAIN c.shown /\ d.shown[k] = c.shown[k]
      BY <2>2, <2>5, <2>6
    <2>11. m \in DOMAIN d.shown /\ d.shown[m].version >= item.version
      BY <2>2, <2>5, <2>6
    <2> QED
      BY <1>2, <2>5, <2>6, <2>7, <2>9, <2>10, <2>11
  <1> QED
    BY <1>1, <1>2

(* What an appended item does to the predicates on the pages.               *)

LEMMA AppendHonest ==
    ASSUME NEW c, c = None \/ GoodPages(c), NEW m \in Messages, NEW item \in Item,
           NEW p, c # None => Honest(c.shown, p),
           item.version <= Len(p[m]), item.body = p[m][item.version]
    PROVE  Honest(appendMessageToPages(c, m, item).shown, p)
  <1>d. PICK d : d = appendMessageToPages(c, m, item)
    OBVIOUS
  <1> SUFFICES Honest(d.shown, p)
    BY <1>d
  <1>1. CASE c = None
    <2>1. DOMAIN d.shown = {m} /\ d.shown[m] = item
      BY <1>1, <1>d, AppendType
    <2> QED
      BY <2>1 DEF Honest
  <1>2. CASE c # None
    <2>1. \A k \in DOMAIN d.shown : \/ k = m /\ d.shown[k] = item
                                    \/ k \in DOMAIN c.shown /\ d.shown[k] = c.shown[k]
      BY <1>2, <1>d, AppendType
    <2> QED
      BY <1>2, <2>1 DEF Honest
  <1> QED
    BY <1>1, <1>2

LEMMA AppendHolds ==
    ASSUME NEW c, c = None \/ GoodPages(c), NEW m \in Messages, NEW item \in Item,
           NEW known \in [Messages -> Nat], NEW later \in [Messages -> Nat],
           c = None => \A k \in Messages : known[k] = 0,
           c # None => Holds(c, known),
           \A k \in Messages : later[k] = known[k] \/ (k = m /\ later[k] <= item.version)
    PROVE  Holds(appendMessageToPages(c, m, item), later)
  <1>d. PICK d : d = appendMessageToPages(c, m, item)
    OBVIOUS
  <1> SUFFICES Holds(d, later)
    BY <1>d
  <1>0. item.version \in Nat /\ \A k \in Messages : later[k] \in Nat /\ known[k] \in Nat
    BY Sizes DEF Item
  <1>1. CASE c = None
    <2>1. DOMAIN d.shown = {m} /\ d.shown[m] = item
      BY <1>1, <1>d, AppendType
    <2> SUFFICES ASSUME NEW k \in Messages, later[k] > 0
                 PROVE  k \in DOMAIN d.shown /\ d.shown[k].version >= later[k]
      BY DEF Holds
    <2>2. k = m /\ later[k] <= item.version
      BY <1>0, <1>1
    <2> QED
      BY <1>0, <2>1, <2>2
  <1>2. CASE c # None
    <2>1. /\ d.cut = c.cut /\ DOMAIN d.shown = {m} \cup DOMAIN c.shown
          /\ \A k \in DOMAIN c.shown : d.shown[k].version >= c.shown[k].version
          /\ d.shown[m].version >= item.version
          /\ GoodPages(d)
      BY <1>2, <1>d, AppendType
    <2>2. /\ \A k \in DOMAIN c.shown : c.shown[k] \in Item
          /\ \A k \in DOMAIN d.shown : d.shown[k] \in Item
      <3>1. d.shown \in Shown /\ c.shown \in Shown
        BY <1>2, <2>1, PagesFields DEF GoodPages
      <3> QED
        BY <3>1, ShownType
    <2> SUFFICES ASSUME NEW k \in Messages, later[k] > 0, k >= d.cut
                 PROVE  k \in DOMAIN d.shown /\ d.shown[k].version >= later[k]
      BY DEF Holds
    <2>3. CASE later[k] = known[k]
      <3>1. k \in DOMAIN c.shown /\ c.shown[k].version >= known[k]
        BY <1>2, <2>1, <2>3 DEF Holds
      <3>2. k \in DOMAIN d.shown /\ d.shown[k].version >= c.shown[k].version
        BY <2>1, <3>1
      <3>3. c.shown[k].version \in Nat /\ d.shown[k].version \in Nat
        BY <2>2, <3>1, <3>2, Sizes DEF Item
      <3> QED
        BY <1>0, <2>3, <3>1, <3>2, <3>3
    <2>4. CASE k = m /\ later[k] <= item.version
      <3>1. k \in DOMAIN d.shown /\ d.shown[k].version >= item.version
        BY <2>1, <2>4
      <3>2. d.shown[k].version \in Nat
        BY <2>2, <3>1, Sizes DEF Item
      <3> QED
        BY <1>0, <2>4, <3>1, <3>2
    <2> QED
      BY <2>3, <2>4
  <1> QED
    BY <1>1, <1>2

LEMMA AppendReaches ==
    ASSUME NEW c, c = None \/ GoodPages(c), NEW m \in Messages, NEW item \in Item,
           NEW n \in Nat, c = None => n = 0, c # None => Reaches(c, n)
    PROVE  Reaches(appendMessageToPages(c, m, item), n)
  <1>d. PICK d : d = appendMessageToPages(c, m, item)
    OBVIOUS
  <1> SUFFICES Reaches(d, n)
    BY <1>d
  <1>1. CASE c = None
    BY <1>1, Sizes DEF Reaches
  <1>2. CASE c # None
    <2>1. d.cut = c.cut /\ DOMAIN d.shown = {m} \cup DOMAIN c.shown
      BY <1>2, <1>d, AppendType
    <2> QED
      BY <1>2, <2>1 DEF Reaches
  <1> QED
    BY <1>1, <1>2

-----------------------------------------------------------------------------
(* The server's past only grows.                                            *)

Grows(p, q) ==
    \A m \in Messages :
        Len(p[m]) <= Len(q[m]) /\ \A v \in 1..Len(p[m]) : q[m][v] = p[m][v]

LEMMA PastType ==
    ASSUME ServerInv, NEW m \in Messages
    PROVE  /\ past[m] \in Seq(Body) /\ Len(past[m]) \in 0..MaxVersion
           /\ \A v \in 1..Len(past[m]) : past[m][v] \in Body
           /\ m \in Exists <=> Len(past[m]) > 0
           /\ m \in Exists <=> m <= Newest
  <1>1. past[m] \in Seq(Body) /\ Len(past[m]) <= MaxVersion
    BY DEF ServerInv
  <1>2. past[m] # <<>> <=> Len(past[m]) > 0
    BY <1>1
  <1>3. Exists = 1..Newest /\ Newest \in Nat /\ m \in Nat \ {0}
    BY Sizes DEF ServerInv
  <1>4. m \in Exists <=> past[m] # <<>>
    BY DEF Exists
  <1>5. m \in Exists <=> m <= Newest
    BY <1>3
  <1> QED
    BY <1>1, <1>2, <1>4, <1>5, Sizes

LEMMA VersionType ==
    ASSUME ServerInv, NEW m \in Messages, NEW v \in 1..Len(past[m])
    PROVE  /\ Version(m, v) \in Item
           /\ Version(m, v).version = v /\ Version(m, v).body = past[m][v]
  <1>1. v \in 1..MaxVersion /\ past[m][v] \in Body
    BY PastType, Sizes
  <1> QED
    BY <1>1 DEF Version, Item

LEMMA LatestType ==
    ASSUME ServerInv, NEW m \in Exists
    PROVE  /\ Latest(m) \in Item /\ Latest(m).version = Len(past[m])
           /\ Latest(m).body = past[m][Len(past[m])]
  <1>1. m \in Messages
    BY DEF Exists
  <1>2. Len(past[m]) \in 1..Len(past[m])
    BY <1>1, PastType, Sizes
  <1> QED
    BY <1>1, <1>2, VersionType DEF Latest

LEMMA HonestGrows ==
    ASSUME NEW s \in Shown, NEW p \in [Messages -> Seq(Body)],
           NEW q \in [Messages -> Seq(Body)], Grows(p, q), Honest(s, p)
    PROVE  Honest(s, q)
  <1> SUFFICES ASSUME NEW m \in DOMAIN s
               PROVE  s[m].version <= Len(q[m]) /\ s[m].body = q[m][s[m].version]
    BY DEF Honest
  <1>1. m \in Messages /\ s[m] \in Item
    BY ShownType
  <1>2. s[m].version \in Nat \ {0}
    BY <1>1, Sizes DEF Item
  <1>3. s[m].version <= Len(p[m]) /\ s[m].body = p[m][s[m].version]
    BY DEF Honest
  <1>4. Len(p[m]) \in Nat /\ Len(q[m]) \in Nat /\ Len(p[m]) <= Len(q[m])
    BY <1>1 DEF Grows
  <1>5. s[m].version \in 1..Len(p[m])
    BY <1>2, <1>3, <1>4
  <1>6. q[m][s[m].version] = p[m][s[m].version]
    BY <1>1, <1>5 DEF Grows
  <1> QED
    BY <1>2, <1>3, <1>4, <1>6

LEMMA CommitGrows ==
    ASSUME ServerInv, NEW m \in Messages, NEW body \in Body, Commit(m, body),
           m \in Exists \/ m = Newest + 1, Len(past[m]) < MaxVersion,
           sending' \subseteq Exists \cup {m}
    PROVE  /\ ServerInv' /\ Grows(past, past') /\ Newest <= Newest'
           /\ Len(past'[m]) = Len(past[m]) + 1
  <1>1. past \in [Messages -> Seq(Body)] /\ past' = [past EXCEPT ![m] = Append(past[m], body)]
    BY DEF ServerInv, Commit
  <1>2. /\ past[m] \in Seq(Body) /\ Append(past[m], body) \in Seq(Body)
        /\ Len(Append(past[m], body)) = Len(past[m]) + 1 /\ Len(past[m]) \in Nat
        /\ \A v \in 1..Len(past[m]) : Append(past[m], body)[v] = past[m][v]
    BY <1>1
  <1>3. past'[m] = Append(past[m], body) /\ \A k \in Messages \ {m} : past'[k] = past[k]
    BY <1>1
  <1>4. past' \in [Messages -> Seq(Body)]
    BY <1>1, <1>2
  <1>5. \A k \in Messages : past[k] \in Seq(Body) /\ Len(past[k]) \in Nat
    BY <1>1
  <1>6. Grows(past, past')
    <2> SUFFICES ASSUME NEW k \in Messages
                 PROVE  /\ Len(past[k]) <= Len(past'[k])
                        /\ \A v \in 1..Len(past[k]) : past'[k][v] = past[k][v]
      BY DEF Grows
    <2>1. CASE k = m
      BY <1>2, <1>3, <2>1
    <2>2. CASE k # m
      BY <1>3, <1>5, <2>2
    <2> QED
      BY <2>1, <2>2
  <1>7. \A k \in Messages : Len(past'[k]) <= MaxVersion
    <2> SUFFICES ASSUME NEW k \in Messages PROVE Len(past'[k]) <= MaxVersion
      OBVIOUS
    <2>1. CASE k = m
      BY <1>2, <1>3, <2>1, Sizes
    <2>2. CASE k # m
      BY <1>3, <2>2 DEF ServerInv
    <2> QED
      BY <2>1, <2>2
  <1>8. Exists' = Exists \cup {m}
    <2>1. Append(past[m], body) # <<>>
      BY <1>2
    <2> QED
      BY <1>3, <2>1 DEF Exists
  <1>9. Newest \in 0..MaxMessage /\ Exists = 1..Newest /\ m \in 1..MaxMessage
    BY DEF ServerInv, Messages
  <1>10. \E n \in 0..MaxMessage : n >= Newest /\ Exists' = 1..n
    <2>1. CASE m \in Exists
      BY <1>8, <1>9, <2>1, Sizes
    <2>2. CASE m = Newest + 1
      <3>1. 1..(Newest + 1) = 1..Newest \cup {m}
        BY <1>9, <2>2, Sizes
      <3> QED
        BY <1>8, <1>9, <2>2, <3>1, Sizes
    <2> QED
      BY <2>1, <2>2
  <1>11. PICK n \in 0..MaxMessage : n >= Newest /\ Exists' = 1..n
    BY <1>10
  <1>12. Newest' = n
    <2>1. Cardinality(1..n) = n
      BY FS_Interval, Sizes
    <2> QED
      BY <1>11, <2>1 DEF Newest
  <1>13. /\ publishing' \subseteq [id : Messages, version : 1..MaxVersion]
         /\ \A f \in publishing' : f.version <= Len(past'[f.id])
    <2>1. publishing' = publishing \cup {[id |-> m, version |-> Len(past[m]) + 1]}
      BY DEF Commit
    <2> DEFINE new == [id |-> m, version |-> Len(past[m]) + 1]
    <2>2. /\ new \in [id : Messages, version : 1..MaxVersion]
          /\ new.version <= Len(past'[new.id])
      BY <1>2, <1>3, Sizes
    <2> HIDE DEF new
    <2>3. /\ publishing \subseteq [id : Messages, version : 1..MaxVersion]
          /\ \A f \in publishing : f.version <= Len(past[f.id])
      BY DEF ServerInv
    <2>4. \A f \in publishing : f.version <= Len(past'[f.id])
      <3> SUFFICES ASSUME NEW f \in publishing PROVE f.version <= Len(past'[f.id])
        OBVIOUS
      <3>1. f.id \in Messages /\ f.version \in Nat /\ f.version <= Len(past[f.id])
        BY <2>3, Sizes
      <3>2. Len(past[f.id]) <= Len(past'[f.id]) /\ Len(past[f.id]) \in Nat
            /\ Len(past'[f.id]) \in Nat
        BY <1>4, <1>5, <1>6, <3>1 DEF Grows
      <3> QED
        BY <3>1, <3>2
    <2>5. publishing' = publishing \cup {new}
      BY <2>1 DEF new
    <2> QED
      BY <2>2, <2>3, <2>4, <2>5
  <1>14. ServerInv'
    BY <1>4, <1>7, <1>8, <1>11, <1>12, <1>13 DEF ServerInv
  <1> QED
    BY <1>2, <1>3, <1>6, <1>9, <1>11, <1>12, <1>14

LEMMA GrowsReflexive ==
    ASSUME ServerInv
    PROVE  Grows(past, past)
  <1>1. \A m \in Messages : Len(past[m]) \in Nat
    BY DEF ServerInv
  <1> QED
    BY <1>1 DEF Grows

LEMMA KeepServer ==
    ASSUME ServerInv, past' = past, publishing' \subseteq publishing, sending' \subseteq sending
    PROVE  ServerInv' /\ Newest' = Newest /\ Exists' = Exists
  <1>1. Exists' = Exists /\ Newest' = Newest
    BY DEF Exists, Newest
  <1> QED
    BY <1>1 DEF ServerInv

LEMMA PagesNumbers ==
    ASSUME NEW c, GoodPages(c)
    PROVE  /\ c \in Pages /\ c # None /\ c.shown \in Shown
           /\ c.pages \in 1..MaxMessage /\ c.cut \in 0..MaxMessage /\ CutOK(c.cut, c.pages)
  BY PagesFields DEF GoodPages

LEMMA FetchNumbers ==
    ASSUME NEW f, GoodFetch(f)
    PROVE  /\ f.kind \in {"all", "older"} /\ f.shown \in Shown /\ f.cut \in 0..MaxMessage + 1
           /\ f.read \in 0..MaxMessage /\ f.left \in 0..MaxMessage /\ f.top \in 0..MaxMessage
           /\ f.clean \in BOOLEAN
  BY DEF GoodFetch, Fetches

LEMMA RefetchGood ==
    ASSUME NEW c, c = None \/ GoodPages(c)
    PROVE  /\ GoodFetch(Refetch(c)) /\ Refetch(c).kind = "all" /\ Refetch(c).clean
           /\ Refetch(c).shown = NoItems /\ Refetch(c).cut = MaxMessage + 1
           /\ Refetch(c).top = 0
           /\ DOMAIN NoItems = {}
  <1> DEFINE left == IF c = None THEN 1 ELSE c.pages
  <1>1. left \in 1..MaxMessage
    BY PagesNumbers, Sizes
  <1> HIDE DEF left
  <1>2. NoItems \in Shown /\ DOMAIN NoItems = {}
    <2>1. NoItems \in [{} -> Item] /\ {} \in SUBSET Messages
      BY DEF NoItems
    <2> QED
      BY <2>1 DEF Shown, NoItems
  <1>3. PICK s \in Shown : s = NoItems
    BY <1>2
  <1>4. PICK f : f = Refetch(c)
    OBVIOUS
  <1>5. f = [kind |-> "all", shown |-> s, cut |-> MaxMessage + 1, read |-> 0,
             left |-> left, top |-> 0, clean |-> TRUE]
    BY <1>3, <1>4 DEF Refetch, left
  <1>6. f \in Fetches
    BY <1>1, <1>5, Sizes DEF Fetches
  <1>7. /\ f.kind = "all" /\ f.shown = s /\ f.cut = MaxMessage + 1 /\ f.read = 0
        /\ f.left = left /\ f.top = 0 /\ f.clean
    BY <1>5
  <1>8. GoodFetch(f)
    BY <1>1, <1>6, <1>7, Sizes DEF GoodFetch, CutOK
  <1> QED
    BY <1>2, <1>3, <1>4, <1>7, <1>8

-----------------------------------------------------------------------------
(* What leaves a part of the state alone keeps what was true of it.         *)

LEMMA KeepMutations ==
    ASSUME ServerInv, MutationInv, mutation' = mutation, heard' = heard,
           past' \in [Messages -> Seq(Body)], Grows(past, past')
    PROVE  MutationInv' /\ Pending' = Pending
  <1>1. Pending' = Pending
    BY DEF Pending
  <1>2. \A m \in Messages : /\ Len(past[m]) \in Nat /\ Len(past'[m]) \in Nat
                            /\ Len(past[m]) <= Len(past'[m])
    BY PastType, Sizes DEF Grows
  <1>3. ASSUME NEW i \in Pending, mutation[i].at = "applied"
        PROVE  mutation[i].expected < Len(past'[mutation[i].on])
    <2>1. /\ mutation[i].on \in Messages /\ mutation[i].expected \in Nat
          /\ mutation[i].expected < Len(past[mutation[i].on])
      BY <1>3, Sizes DEF MutationInv
    <2> QED
      BY <1>2, <2>1
  <1> QED
    BY <1>1, <1>3 DEF MutationInv

LEMMA KeepCache ==
    ASSUME CacheInv, Quiet' => Quiet, UNCHANGED <<past, cache, heard, confirmed, full>>
    PROVE  CacheInv'
  <1>1. cache # None => (Rest(cache)' <=> Rest(cache))
    BY DEF Rest
  <1> QED
    BY <1>1 DEF CacheInv

LEMMA KeepFetch ==
    ASSUME FetchInv, Quiet' => Quiet, owed => owed',
           UNCHANGED <<past, fetch, heard, confirmed, full>>
    PROVE  FetchInv'
  <1>1. Newest' = Newest /\ (Rest(fetch)' <=> Rest(fetch))
    BY DEF Newest, Exists, Rest
  <1> QED
    BY <1>1 DEF FetchInv

LEMMA RefetchStep ==
    ASSUME NEW c, c = None \/ GoodPages(c), fetch' = Refetch(c), ServerInv'
    PROVE  FetchInv'
  <1>1. PICK f : f = Refetch(c)
    OBVIOUS
  <1>2. /\ GoodFetch(f) /\ f.kind = "all" /\ f.clean /\ DOMAIN f.shown = {}
        /\ f.cut = MaxMessage + 1 /\ f.top = 0
    BY <1>1, RefetchGood
  <1>3. \A k : Holds(f, k) /\ Reaches(f, f.top)
    BY <1>2, Sizes DEF Holds, Reaches
  <1>4. \A p : Honest(f.shown, p)
    BY <1>2 DEF Honest
  <1>5. f.top <= Newest'
    BY <1>2, Sizes DEF ServerInv
  <1>6. fetch' = f
    BY <1>1
  <1> QED
    BY <1>2, <1>3, <1>4, <1>5, <1>6 DEF FetchInv

\* An action that leaves the server, the pages and the mutations alone and drops
\* the fetch, starts it over or lets it go on.
LEMMA LinkStep ==
    ASSUME TimelineInv, UNCHANGED serverVars, UNCHANGED knownVars,
           UNCHANGED <<cache, sending, mutation, owed>>,
           link' \in {"new", "down", "ready", "subscribed"}, open' \in BOOLEAN,
           fetch' \in {fetch, None, Refetch(cache)}
    PROVE  TimelineInv'
  <1> USE DEF serverVars, knownVars
  <1>1. ServerInv' /\ Newest' = Newest
    BY KeepServer DEF TimelineInv
  <1>2. KnownInv'
    BY <1>1 DEF TimelineInv, KnownInv
  <1>3. MutationInv' /\ Pending' = Pending
    BY KeepMutations, GrowsReflexive DEF TimelineInv, ServerInv
  <1>4. Quiet' <=> Quiet
    BY <1>3 DEF Quiet
  <1>5. CacheInv'
    BY <1>4, KeepCache DEF TimelineInv
  <1>6. FetchInv'
    <2>1. CASE fetch' = fetch
      BY <1>4, <2>1, KeepFetch DEF TimelineInv
    <2>2. CASE fetch' = None
      BY <2>2 DEF FetchInv
    <2>3. CASE fetch' = Refetch(cache)
      <3>1. cache = None \/ GoodPages(cache)
        BY DEF TimelineInv, CacheInv
      <3> QED
        BY <1>1, <2>3, <3>1, RefetchStep
    <2> QED
      BY <2>1, <2>2, <2>3
  <1> QED
    BY <1>1, <1>2, <1>3, <1>5, <1>6 DEF TimelineInv

\* An action of the server.
LEMMA ServerStep ==
    ASSUME TimelineInv, ServerInv', Grows(past, past'), Newest <= Newest',
           MutationInv', Pending' = Pending,
           UNCHANGED <<link, open, cache, fetch, owed>>, UNCHANGED knownVars
    PROVE  TimelineInv'
  <1> USE DEF knownVars
  <1>0. /\ past \in [Messages -> Seq(Body)] /\ past' \in [Messages -> Seq(Body)]
        /\ Newest \in Nat /\ Newest' \in Nat
    BY Sizes DEF TimelineInv, ServerInv
  <1>1. KnownInv'
    <2>1. \A m \in Messages : /\ Len(past[m]) \in Nat /\ Len(past'[m]) \in Nat
                              /\ Len(past[m]) <= Len(past'[m])
      BY <1>0 DEF Grows
    <2>2. \A m \in Messages : heard[m] <= Len(past'[m]) /\ confirmed[m] <= Len(past'[m])
      <3> SUFFICES ASSUME NEW m \in Messages
                   PROVE  heard[m] <= Len(past'[m]) /\ confirmed[m] <= Len(past'[m])
        OBVIOUS
      <3>1. heard[m] \in Nat /\ confirmed[m] \in Nat
        BY Sizes DEF TimelineInv, KnownInv
      <3>2. heard[m] <= Len(past[m]) /\ confirmed[m] <= Len(past[m])
        BY DEF TimelineInv, KnownInv
      <3> QED
        BY <2>1, <3>1, <3>2
    <2>3. full \in 0..Newest'
      BY <1>0 DEF TimelineInv, KnownInv
    <2> QED
      BY <2>2, <2>3 DEF TimelineInv, KnownInv
  <1>2. Quiet' <=> Quiet
    BY DEF Quiet
  <1>3. ASSUME NEW v, v.shown \in Shown, Rest(v)
        PROVE  Settled(v, past', confirmed', full')
    BY <1>0, <1>3, HonestGrows DEF Rest, Settled
  <1>4. CacheInv'
    <2>1. cache # None /\ Quiet => Settled(cache, past', confirmed', full')
      BY <1>3, PagesNumbers DEF TimelineInv, CacheInv
    <2> QED
      BY <1>2, <2>1 DEF TimelineInv, CacheInv, Rest
  <1>5. FetchInv'
    <2> SUFFICES ASSUME fetch # None PROVE FetchInv'
      BY DEF FetchInv
    <2>1. fetch.shown \in Shown /\ fetch.top \in Nat
      BY FetchNumbers, Sizes DEF TimelineInv, FetchInv
    <2>2. fetch.kind = "all" => Honest(fetch.shown, past') /\ fetch.top <= Newest'
      <3>1. fetch.kind = "all" => Honest(fetch.shown, past) /\ fetch.top <= Newest
        BY DEF TimelineInv, FetchInv
      <3>2. Honest(fetch.shown, past) => Honest(fetch.shown, past')
        BY <1>0, <2>1, HonestGrows
      <3> QED
        BY <1>0, <2>1, <3>1, <3>2
    <2>3. fetch.kind = "older" /\ Quiet => Settled(fetch, past', confirmed', full')
      BY <1>3, <2>1 DEF TimelineInv, FetchInv
    <2> QED
      BY <1>2, <2>2, <2>3 DEF TimelineInv, FetchInv, Rest
  <1> QED
    BY <1>1, <1>4, <1>5 DEF TimelineInv

\* A version that the server has is written into the pages.
LEMMA DeliverStep ==
    ASSUME TimelineInv, NEW m \in Messages, NEW v \in 1..Len(past[m]),
           cache' = appendMessageToPages(cache, m, Version(m, v)), Hears(m, v),
           publishing' \subseteq publishing, sending' \subseteq sending,
           UNCHANGED <<past, link, open, fetch, mutation, owed, confirmed, full>>
    PROVE  TimelineInv'
  <1>1. ServerInv /\ ServerInv' /\ Newest' = Newest
    BY KeepServer DEF TimelineInv
  <1>2. PICK item \in Item : /\ item = Version(m, v)
                             /\ item.version = v /\ item.body = past[m][v]
    BY <1>1, VersionType
  <1>3. PICK d : d = appendMessageToPages(cache, m, item)
    OBVIOUS
  <1>4. cache' = d
    BY <1>2, <1>3
  <1>5. PICK c : c = cache
    OBVIOUS
  <1>6. c = None \/ GoodPages(c)
    BY <1>5 DEF TimelineInv, CacheInv
  <1>7. v \in Nat \ {0} /\ v <= Len(past[m]) /\ v <= MaxVersion /\ Len(past[m]) \in Nat
    BY <1>1, PastType, Sizes
  <1>8. heard \in [Messages -> 0..MaxVersion] /\ confirmed \in [Messages -> 0..MaxVersion]
    BY DEF TimelineInv, KnownInv
  <1>9. /\ heard' \in [Messages -> 0..MaxVersion]
        /\ \A k \in Messages : heard'[k] = heard[k] \/ (k = m /\ heard'[k] <= v)
        /\ fetch # None \/ Pending # {} => heard' = heard
        /\ \A k \in Messages : heard'[k] <= Len(past[k])
    <2>0. \A k \in Messages : heard[k] <= Len(past[k])
      BY DEF TimelineInv, KnownInv
    <2>1. CASE fetch = None /\ Pending = {}
      <3> DEFINE h == IF v > heard[m] THEN v ELSE heard[m]
      <3>1. heard' = [heard EXCEPT ![m] = h]
        BY <2>1 DEF Hears
      <3>2. h \in 0..MaxVersion /\ (h = heard[m] \/ h <= v) /\ h <= Len(past[m])
        BY <1>7, <1>8, <2>0, Sizes
      <3> HIDE DEF h
      <3>3. heard'[m] = h /\ \A k \in Messages \ {m} : heard'[k] = heard[k]
        BY <1>8, <3>1
      <3> QED
        BY <1>8, <2>0, <2>1, <3>1, <3>2, <3>3
    <2>2. CASE ~(fetch = None /\ Pending = {})
      <3>1. heard' = heard
        BY <2>2 DEF Hears
      <3> QED
        BY <1>8, <2>0, <2>2, <3>1
    <2> QED
      BY <2>1, <2>2
  <1>10. Pending' = Pending /\ (Quiet' <=> Quiet)
    BY DEF Pending, Quiet
  <1>11. KnownInv'
    BY <1>1, <1>9 DEF TimelineInv, KnownInv
  <1>12. MutationInv'
    <2>1. CASE Pending = {}
      BY <1>10, <2>1 DEF TimelineInv, MutationInv
    <2>2. CASE Pending # {}
      BY <1>1, <1>9, <2>2, KeepMutations, GrowsReflexive DEF TimelineInv, ServerInv
    <2> QED
      BY <2>1, <2>2
  <1>13. CacheInv'
    <2>1. GoodPages(d) /\ d # None
      BY <1>3, <1>5, <1>6, AppendType
    <2>2. /\ c = None => \A k \in Messages : heard[k] = 0 /\ confirmed[k] = 0
          /\ c = None => full = 0
          /\ c # None => Holds(c, heard)
          /\ c # None /\ Quiet => Settled(c, past, confirmed, full)
      BY <1>5 DEF TimelineInv, CacheInv, Rest
    <2>3. heard \in [Messages -> Nat] /\ heard' \in [Messages -> Nat]
          /\ confirmed \in [Messages -> Nat] /\ full \in Nat
      BY <1>1, <1>8, <1>9, Sizes DEF TimelineInv, KnownInv, ServerInv
    <2>4. PICK h \in [Messages -> Nat], g \in [Messages -> Nat], a \in [Messages -> Nat],
               n \in Nat : h = heard /\ g = heard' /\ a = confirmed /\ n = full
      BY <2>3
    <2>5. Holds(d, g)
      <3>1. \A k \in Messages : g[k] = h[k] \/ (k = m /\ g[k] <= item.version)
        BY <1>2, <1>9, <2>4
      <3>2. c = None => \A k \in Messages : h[k] = 0
        BY <2>2, <2>4
      <3>3. c # None => Holds(c, h)
        BY <2>2, <2>4
      <3> QED
        BY <1>3, <1>5, <1>6, <3>1, <3>2, <3>3, AppendHolds
    <2>6. ASSUME Quiet PROVE Settled(d, past, confirmed, full)
      <3>1. c # None => Honest(c.shown, past) /\ Holds(c, a) /\ Reaches(c, n)
        BY <2>2, <2>4, <2>6 DEF Settled
      <3>2. Honest(d.shown, past)
        BY <1>2, <1>3, <1>5, <1>6, <1>7, <3>1, AppendHonest
      <3>3. c = None => n = 0 /\ \A k \in Messages : a[k] = 0
        BY <2>2, <2>4
      <3>4. Holds(d, a)
        <4>1. \A k \in Messages : a[k] = a[k] \/ (k = m /\ a[k] <= item.version)
          OBVIOUS
        <4> QED
          BY <1>3, <1>5, <1>6, <3>1, <3>3, <4>1, AppendHolds
      <3>5. Reaches(d, n)
        BY <1>3, <1>5, <1>6, <3>1, <3>3, AppendReaches
      <3> QED
        BY <2>4, <3>2, <3>4, <3>5 DEF Settled
    <2> QED
      BY <1>4, <1>10, <2>1, <2>4, <2>5, <2>6 DEF CacheInv, Rest
  <1>14. FetchInv'
    <2>1. CASE fetch = None
      BY <2>1 DEF FetchInv
    <2>2. CASE fetch # None
      BY <1>9, <1>10, <2>2, KeepFetch DEF TimelineInv
    <2> QED
      BY <2>1, <2>2
  <1> QED
    BY <1>1, <1>11, <1>12, <1>13, <1>14 DEF TimelineInv

-----------------------------------------------------------------------------
(* A page of the server.                                                    *)

\* The page below a cursor is the upper end of what is older than it.
LEMMA PageLemma ==
    ASSUME ServerInv, NEW cursor \in 1..MaxMessage + 1, NEW older, NEW page,
           older \subseteq Exists, \A m \in Exists : m \in older <=> m < cursor,
           page = Largest(older, Limit)
    PROVE  /\ page \subseteq older /\ older \subseteq Messages
           /\ page # older =>
                 /\ Min(page) \in page /\ Min(page) \in 2..MaxMessage /\ Min(page) < cursor
                 /\ \A m \in older : m >= Min(page) => m \in page
  <1>0. Exists = 1..Newest /\ Newest \in 0..MaxMessage /\ Limit \in Nat \ {0} /\ MaxMessage \in Nat
    BY Sizes DEF ServerInv
  <1> DEFINE x == IF Newest < cursor THEN Newest ELSE cursor - 1
  <1>1. x \in 0..MaxMessage /\ x < cursor /\ older = 1..x
    <2>1. x \in 0..MaxMessage /\ x < cursor
      BY <1>0
    <2>2. \A m \in 1..Newest : m < cursor <=> m <= x
      BY <1>0
    <2> HIDE DEF x
    <2>3. \A m \in older : m \in 1..x
      BY <1>0, <2>1, <2>2
    <2>4. x <= Newest
      BY <1>0 DEF x
    <2>5. \A m \in 1..x : m \in older
      BY <1>0, <2>1, <2>2, <2>4
    <2> QED
      BY <2>1, <2>3, <2>5
  <1> HIDE DEF x
  <1>2. \A m \in older : Cardinality({k \in older : k > m}) = x - m
    <2> SUFFICES ASSUME NEW m \in older PROVE Cardinality({k \in older : k > m}) = x - m
      OBVIOUS
    <2>1. {k \in older : k > m} = m + 1 .. x /\ m \in 1..x
      <3>1. m \in 1..x
        BY <1>1
      <3>2. \A k \in older : k > m <=> k \in m + 1 .. x
        BY <1>1, <3>1
      <3>3. \A k \in m + 1 .. x : k \in older
        BY <1>1, <3>1
      <3> QED
        BY <3>1, <3>2, <3>3
    <2>2. Cardinality(m + 1 .. x) = x - m
      <3>1. m + 1 \in Int /\ x \in Int /\ m + 1 <= x + 1
        BY <1>0, <1>1, <2>1
      <3>2. Cardinality(m + 1 .. x) = IF m + 1 > x THEN 0 ELSE x - (m + 1) + 1
        BY <3>1, FS_Interval
      <3> QED
        BY <1>1, <2>1, <3>1, <3>2
    <2> QED
      BY <2>1, <2>2
  <1>3. page = {m \in older : x - m < Limit}
    BY <1>2 DEF Largest
  <1>4. page \subseteq older /\ older \subseteq Messages
    BY <1>0, <1>1, <1>3 DEF Messages
  <1>5. ASSUME page # older
        PROVE  /\ Min(page) \in page /\ Min(page) \in 2..MaxMessage /\ Min(page) < cursor
               /\ \A m \in older : m >= Min(page) => m \in page
    <2> DEFINE a == x - Limit + 1
    <2>1. x > Limit \/ x = Limit \/ x < Limit
      BY <1>0, <1>1
    <2>2. x > Limit
      <3>0. PICK m \in older : ~(x - m < Limit)
        BY <1>3, <1>5
      <3>1. x - m >= Limit /\ m \in 1..x
        BY <1>0, <1>1, <3>0
      <3> QED
        BY <1>0, <1>1, <3>1
    <2>3. a \in 2..x /\ x - a = Limit - 1
      BY <1>0, <1>1, <2>2
    <2> HIDE DEF a
    <2>4. a \in page /\ \A m \in older : m \in page <=> m >= a
      BY <1>0, <1>1, <1>3, <2>3
    <2>5. \A m \in page : a <= m
      BY <1>4, <2>4
    <2>6. Min(page) \in page /\ \A m \in page : Min(page) <= m
      BY <2>4, <2>5 DEF Min
    <2>7. Min(page) = a
      <3>1. Min(page) \in Int /\ a \in Int
        BY <1>0, <1>1, <1>3, <2>3, <2>6
      <3> QED
        BY <2>4, <2>5, <2>6, <3>1
    <2>8. a \in 2..MaxMessage /\ a < cursor
      BY <1>0, <1>1, <2>3
    <2> QED
      BY <2>4, <2>6, <2>7, <2>8
  <1> QED
    BY <1>4, <1>5

\* What is read is put in front of what is there.
LEMMA PageShown ==
    ASSUME ServerInv, NEW shown \in Shown, NEW page \in SUBSET Messages, page \subseteq Exists
    PROVE  LET s == Prepend(page, [m \in page |-> Latest(m)], shown) IN
           /\ s \in Shown /\ DOMAIN s = page \cup DOMAIN shown
           /\ \A m \in page : s[m] = Latest(m)
           /\ \A m \in DOMAIN shown \ page : s[m] = shown[m]
  <1> DEFINE items == [m \in page |-> Latest(m)]
             s == Prepend(page, items, shown)
  <1>1. \A m \in page : items[m] = Latest(m)
    OBVIOUS
  <1>2. \A m \in page : items[m] \in Item
    BY <1>1, LatestType
  <1> HIDE DEF items
  <1>3. /\ s \in Shown /\ DOMAIN s = page \cup DOMAIN shown
        /\ \A m \in page : s[m] = items[m]
        /\ \A m \in DOMAIN shown \ page : s[m] = shown[m]
    BY <1>2, PrependType
  <1> HIDE DEF s
  <1>4. /\ s \in Shown /\ DOMAIN s = page \cup DOMAIN shown
        /\ \A m \in page : s[m] = Latest(m)
        /\ \A m \in DOMAIN shown \ page : s[m] = shown[m]
    BY <1>1, <1>3
  <1> QED
    BY <1>4 DEF s, items

\* Fetch f, after it has read the page of the server that its cursor asks for, is
\* fetch g.
PageRead(f, older, page, cut, s, left, top, g) ==
    /\ older \subseteq Exists /\ \A m \in Exists : m \in older <=> m < f.cut
    /\ page = Largest(older, Limit)
    /\ cut = IF page = older THEN 0 ELSE Min(page)
    /\ s \in Shown /\ DOMAIN s = page \cup DOMAIN f.shown
    /\ \A m \in page : s[m] = Latest(m)
    /\ \A m \in DOMAIN f.shown \ page : s[m] = f.shown[m]
    /\ left = IF cut = 0 THEN 0 ELSE f.left - 1
    /\ top = IF f.read = 0 THEN Newest ELSE f.top
    /\ g = [f EXCEPT !.shown = s, !.cut = cut, !.read = f.read + 1, !.left = left, !.top = top]

\* What the page adds to a fetch.
LEMMA PageAdds ==
    ASSUME ServerInv, NEW f, GoodFetch(f), f.left > 0, NEW older, NEW page, NEW cut, NEW s,
           NEW left, NEW top, NEW g, PageRead(f, older, page, cut, s, left, top, g)
    PROVE  /\ GoodFetch(g) /\ g.kind = f.kind /\ g.clean = f.clean
           /\ g.top = top
           /\ Honest(f.shown, past) => Honest(g.shown, past)
           /\ \A known \in [Messages -> Nat] :
                 Holds(f, known) /\ (\A m \in Messages : known[m] <= Len(past[m]))
                     => Holds(g, known)
           /\ \A n \in 0..Newest : Reaches(f, n) => Reaches(g, n)
  <1> USE DEF PageRead
  <1>0. /\ f \in Fetches /\ f.kind \in {"all", "older"} /\ f.shown \in Shown
        /\ f.cut \in 1..MaxMessage + 1
        /\ f.read \in 0..MaxMessage /\ f.left \in 1..MaxMessage /\ f.top \in 0..MaxMessage
        /\ f.clean \in BOOLEAN /\ f.cut >= 2 /\ f.read + f.cut <= MaxMessage + 1
        /\ f.read + f.left \in 1..MaxMessage
    BY FetchNumbers, Sizes DEF GoodFetch, CutOK
  <1>1. /\ page \subseteq older /\ older \subseteq Messages
        /\ page # older =>
              /\ Min(page) \in page /\ Min(page) \in 2..MaxMessage /\ Min(page) < f.cut
              /\ \A m \in older : m >= Min(page) => m \in page
    <2>1. older \subseteq Exists /\ \A m \in Exists : m \in older <=> m < f.cut
      OBVIOUS
    <2> QED
      BY <1>0, <2>1, PageLemma
  <1>2. /\ cut \in 0..MaxMessage /\ cut < f.cut
        /\ cut # 0 => cut >= 2
        /\ \A m \in older : m >= cut => m \in page
    BY <1>0, <1>1, Sizes
  <1>3. page \in SUBSET Messages /\ page \subseteq Exists
    BY <1>1
  <1>6. /\ left \in 0..MaxMessage /\ f.read + 1 + left <= f.read + f.left
        /\ left > 0 => cut # 0
    BY <1>0, Sizes
  <1>7. top \in 0..MaxMessage
    BY <1>0, Sizes DEF ServerInv
  <1>9. /\ g.shown = s /\ g.cut = cut /\ g.read = f.read + 1 /\ g.left = left /\ g.top = top
        /\ g.kind = f.kind /\ g.clean = f.clean
    BY <1>0 DEF Fetches
  <1>10. g \in Fetches
    <2>1. f.read + 1 \in 0..MaxMessage /\ cut \in 0..MaxMessage + 1
      BY <1>0, <1>2, <1>6, Sizes
    <2> QED
      BY <1>0, <1>6, <1>7, <2>1 DEF Fetches
  <1>11. GoodFetch(g)
    <2>1. CutOK(cut, f.read + 1)
      BY <1>0, <1>2, Sizes DEF CutOK
    <2>2. f.read + 1 + left \in 1..MaxMessage /\ f.read + 1 # 0
      BY <1>0, <1>6, Sizes
    <2> QED
      BY <1>6, <1>9, <1>10, <2>1, <2>2 DEF GoodFetch
  <1>12. ASSUME Honest(f.shown, past) PROVE Honest(s, past)
    <2> SUFFICES ASSUME NEW m \in DOMAIN s
                 PROVE  s[m].version <= Len(past[m]) /\ s[m].body = past[m][s[m].version]
      BY DEF Honest
    <2>1. CASE m \in page
      <3>1. Len(past[m]) <= Len(past[m])
        BY <1>3, <2>1, PastType, Sizes
      <3> QED
        BY <1>3, <2>1, <3>1, LatestType
    <2>2. CASE m \notin page
      BY <1>12, <2>2 DEF Honest
    <2> QED
      BY <2>1, <2>2
  <1>13. ASSUME NEW known \in [Messages -> Nat], Holds(f, known),
                \A m \in Messages : known[m] <= Len(past[m])
         PROVE  Holds(g, known)
    <2> SUFFICES ASSUME NEW m \in Messages, known[m] > 0, m >= cut
                 PROVE  m \in DOMAIN s /\ s[m].version >= known[m]
      BY <1>9 DEF Holds
    <2>0. known[m] \in Nat /\ m \in Nat /\ Len(past[m]) \in Nat
      BY PastType, Sizes
    <2>1. CASE m \in page
      <3>1. s[m].version = Len(past[m])
        BY <1>3, <2>1, LatestType
      <3> QED
        BY <1>13, <2>0, <2>1, <3>1
    <2>2. CASE m \notin page
      <3>1. m \in Exists
        <4>1. Len(past[m]) > 0
          BY <1>13, <2>0
        <4> QED
          BY <4>1, PastType
      <3>2. m >= f.cut
        BY <1>0, <1>2, <2>0, <2>2, <3>1
      <3>3. m \in DOMAIN f.shown /\ f.shown[m].version >= known[m]
        BY <1>13, <3>2 DEF Holds
      <3> QED
        BY <2>2, <3>3
    <2> QED
      BY <2>1, <2>2
  <1>14. ASSUME NEW n \in 0..Newest, Reaches(f, n)
         PROVE  Reaches(g, n)
    <2> SUFFICES ASSUME NEW m \in Messages, m <= n, m >= cut
                 PROVE  m \in DOMAIN s
      BY <1>9 DEF Reaches
    <2>1. CASE m \in page
      BY <2>1
    <2>2. CASE m \notin page
      <3>1. m \in Exists /\ m \in Nat
        BY Sizes DEF ServerInv
      <3>2. m >= f.cut
        BY <1>0, <1>2, <2>2, <3>1
      <3> QED
        BY <1>14, <3>2 DEF Reaches
    <2> QED
      BY <2>1, <2>2
  <1> QED
    BY <1>9, <1>11, <1>12, <1>13, <1>14

-----------------------------------------------------------------------------
(* The steps.                                                               *)

LEMMA InitStep ==
    ASSUME TimelineInit
    PROVE  TimelineInv
  <1> USE DEF TimelineInit
  <1>1. ServerInv
    <2>1. First \in Body /\ <<First>> \in Seq(Body) /\ <<>> \in Seq(Body)
          /\ Len(<<First>>) = 1 /\ Len(<<>>) = 0 /\ <<First>> # <<>>
      BY DEF Body
    <2>2. past \in [Messages -> Seq(Body)] /\ \A m \in Messages : Len(past[m]) <= MaxVersion
      BY <2>1, Sizes
    <2>3. Exists = 1..Posted /\ Posted \in 0..MaxMessage
      <3>1. \A m \in Messages : past[m] # <<>> <=> m <= Posted
        BY <2>1
      <3>2. Posted \in 0..MaxMessage
        BY TimelineAssumption
      <3> QED
        BY <3>1, <3>2, Sizes DEF Exists, Messages
    <2>4. Newest = Posted
      <3>1. Cardinality(1..Posted) = Posted
        BY <2>3, FS_Interval, Sizes
      <3> QED
        BY <2>3, <3>1 DEF Newest
    <2> QED
      BY <2>2, <2>3, <2>4 DEF ServerInv
  <1>2. KnownInv
    <2>1. \A m \in Messages : Len(past[m]) \in Nat
      BY <1>1 DEF ServerInv
    <2>2. full \in 0..Newest
      BY <1>1, Sizes DEF ServerInv
    <2>3. /\ heard \in [Messages -> 0..MaxVersion] /\ confirmed \in [Messages -> 0..MaxVersion]
          /\ \A m \in Messages : heard[m] = 0 /\ confirmed[m] = 0
      BY Sizes
    <2>4. \A m \in Messages : heard[m] <= Len(past[m]) /\ confirmed[m] <= Len(past[m])
      BY <2>1, <2>3
    <2> QED
      BY <2>2, <2>3, <2>4 DEF KnownInv
  <1>3. Pending = {}
    BY DEF Pending, Idle
  <1>4. MutationInv
    <2>1. Idle \in MutationRecords
      BY Sizes DEF Idle, MutationRecords, Body
    <2> QED
      BY <1>3, <2>1 DEF MutationInv
  <1>5. CacheInv
    BY DEF CacheInv
  <1>6. FetchInv
    <2>1. PICK f : f = Refetch(None)
      OBVIOUS
    <2>2. /\ GoodFetch(f) /\ f.kind = "all" /\ f.clean /\ DOMAIN f.shown = {}
          /\ f.cut = MaxMessage + 1 /\ f.top = 0
      BY <2>1, RefetchGood
    <2>3. \A k : Holds(f, k) /\ Reaches(f, f.top)
      BY <2>2, Sizes DEF Holds, Reaches
    <2>4. \A p : Honest(f.shown, p)
      BY <2>2 DEF Honest
    <2>5. f.top <= Newest /\ fetch = f
      BY <1>1, <2>1, <2>2, Sizes DEF ServerInv
    <2> QED
      BY <2>2, <2>3, <2>4, <2>5 DEF FetchInv
  <1> QED
    BY <1>1, <1>2, <1>4, <1>5, <1>6 DEF TimelineInv

LEMMA PostStep ==
    ASSUME TimelineInv, NEW mine \in BOOLEAN, Post(mine)
    PROVE  TimelineInv'
  <1>0. /\ ServerInv /\ Newest \in 0..MaxMessage /\ Exists = 1..Newest /\ sending \subseteq Exists
    BY DEF TimelineInv, ServerInv
  <1>1. PICK m \in Messages : m = Newest + 1
    BY <1>0, Sizes DEF Post, Messages
  <1>2. m \notin Exists /\ Len(past[m]) < MaxVersion
    <2>1. m \notin Exists
      BY <1>0, <1>1, Sizes
    <2> QED
      BY <1>0, <2>1, PastType, Sizes
  <1>3. Commit(m, First) /\ First \in Body /\ sending' \subseteq Exists \cup {m}
    BY <1>0, <1>1 DEF Post, Body
  <1>4. ServerInv' /\ Grows(past, past') /\ Newest <= Newest'
    BY <1>0, <1>1, <1>2, <1>3, CommitGrows
  <1>5. MutationInv' /\ Pending' = Pending
    BY <1>4, KeepMutations DEF TimelineInv, Post, knownVars, ServerInv
  <1> QED
    BY <1>4, <1>5, ServerStep DEF Post

LEMMA UpdateElsewhereStep ==
    ASSUME TimelineInv, NEW m \in Messages, UpdateElsewhere(m)
    PROVE  TimelineInv'
  <1>1. Commit(m, Other) /\ Other \in Body /\ m \in Exists /\ Len(past[m]) < MaxVersion
        /\ sending' \subseteq Exists \cup {m}
    BY DEF UpdateElsewhere, Body, TimelineInv, ServerInv
  <1>2. ServerInv' /\ Grows(past, past') /\ Newest <= Newest'
    BY <1>1, CommitGrows DEF TimelineInv
  <1>3. MutationInv' /\ Pending' = Pending
    BY <1>2, KeepMutations DEF TimelineInv, UpdateElsewhere, knownVars, ServerInv
  <1> QED
    BY <1>2, <1>3, ServerStep DEF UpdateElsewhere

LEMMA PublishFrameStep ==
    ASSUME TimelineInv, NEW f \in publishing, PublishFrame(f)
    PROVE  TimelineInv'
  <1>1. f.id \in Messages /\ f.version \in 1..Len(past[f.id])
    <2>1. f.id \in Messages /\ f.version \in 1..MaxVersion /\ f.version <= Len(past[f.id])
      BY DEF TimelineInv, ServerInv
    <2>2. Len(past[f.id]) \in Nat
      BY <2>1, PastType, Sizes DEF TimelineInv
    <2> QED
      BY <2>1, <2>2, Sizes
  <1>2. CASE link = "subscribed"
    <2>1. /\ cache' = appendMessageToPages(cache, f.id, Version(f.id, f.version))
          /\ Hears(f.id, f.version) /\ publishing' \subseteq publishing /\ sending' \subseteq sending
          /\ UNCHANGED <<past, link, open, fetch, mutation, owed, confirmed, full>>
      BY <1>2 DEF PublishFrame
    <2> QED
      BY <1>1, <2>1, DeliverStep
  <1>3. CASE link # "subscribed"
    <2>1. /\ publishing' \subseteq publishing
          /\ UNCHANGED <<past, link, open, fetch, sending, mutation, owed, confirmed, full>>
          /\ UNCHANGED <<cache, heard>>
      BY <1>3 DEF PublishFrame
    <2>2. ServerInv' /\ Grows(past, past') /\ Newest' = Newest /\ Newest \in Nat
      BY <2>1, KeepServer, GrowsReflexive, Sizes DEF TimelineInv, ServerInv
    <2>3. MutationInv' /\ Pending' = Pending
      BY <2>1, <2>2, KeepMutations DEF TimelineInv, ServerInv
    <2> QED
      BY <2>1, <2>2, <2>3, ServerStep DEF knownVars
  <1> QED
    BY <1>2, <1>3

LEMMA SendAnsweredStep ==
    ASSUME TimelineInv, NEW m \in Messages, SendAnswered(m)
    PROVE  TimelineInv'
  <1>1. m \in Exists
    BY DEF SendAnswered, TimelineInv, ServerInv
  <1>2. 1 \in 1..Len(past[m])
    BY <1>1, PastType, Sizes DEF TimelineInv
  <1>3. /\ cache' = appendMessageToPages(cache, m, Version(m, 1)) /\ Hears(m, 1)
        /\ publishing' \subseteq publishing /\ sending' \subseteq sending
        /\ UNCHANGED <<past, link, open, fetch, mutation, owed, confirmed, full>>
    BY DEF SendAnswered, serverVars
  <1> QED
    BY <1>2, <1>3, DeliverStep

\* The connection, what is on display and a fetch that fails.
LEMMA LinkSteps ==
    ASSUME TimelineInv,
           \/ LinkReady \/ Subscribed \/ LinkLost \/ Leave \/ FetchFails
           \/ \E stale \in BOOLEAN : Show(stale)
    PROVE  TimelineInv'
  <1>0. /\ link \in {"new", "down", "ready", "subscribed"} /\ open \in BOOLEAN
    BY DEF TimelineInv, KnownInv
  <1>1. CASE LinkReady
    <2>1. fetch' \in {fetch, None, Refetch(cache)}
      BY <1>1 DEF LinkReady, Invalidate
    <2> QED
      BY <1>0, <1>1, <2>1, LinkStep DEF LinkReady
  <1>2. CASE Subscribed
    BY <1>0, <1>2, LinkStep DEF Subscribed
  <1>3. CASE LinkLost
    BY <1>0, <1>3, LinkStep DEF LinkLost
  <1>4. CASE Leave
    BY <1>0, <1>4, LinkStep DEF Leave
  <1>5. CASE FetchFails
    BY <1>0, <1>5, LinkStep DEF FetchFails
  <1>6. CASE \E stale \in BOOLEAN : Show(stale)
    <2>1. fetch' \in {fetch, None, Refetch(cache)}
      BY <1>6 DEF Show
    <2> QED
      BY <1>0, <1>6, <2>1, LinkStep DEF Show
  <1> QED
    BY <1>1, <1>2, <1>3, <1>4, <1>5, <1>6

LEMMA LoadOlderStep ==
    ASSUME TimelineInv, LoadOlder
    PROVE  TimelineInv'
  <1> USE DEF serverVars, knownVars
  <1>1. ServerInv' /\ KnownInv' /\ Newest' = Newest
    BY KeepServer DEF TimelineInv, KnownInv, LoadOlder
  <1>2. MutationInv' /\ Pending' = Pending
    BY KeepMutations, GrowsReflexive DEF TimelineInv, ServerInv, LoadOlder
  <1>3. Quiet' <=> Quiet
    BY <1>2 DEF Quiet, LoadOlder
  <1>4. CacheInv'
    BY <1>3, KeepCache DEF TimelineInv, LoadOlder
  <1>5. FetchInv'
    <2>1. PICK c : c = cache
      OBVIOUS
    <2>2. /\ GoodPages(c) /\ c.cut # 0 /\ Holds(c, heard)
          /\ Quiet => Settled(c, past, confirmed, full)
      BY <2>1 DEF LoadOlder, TimelineInv, CacheInv, Rest
    <2>3. /\ c.shown \in Shown /\ c.pages \in 1..MaxMessage /\ c.cut \in 2..MaxMessage
          /\ c.pages + c.cut <= MaxMessage + 1
      BY <2>2, PagesNumbers, Sizes DEF CutOK
    <2>4. PICK f : f = [kind |-> "older", shown |-> c.shown, cut |-> c.cut,
                        read |-> c.pages, left |-> 1, top |-> 0, clean |-> TRUE]
      OBVIOUS
    <2>5. fetch' = f
      BY <2>1, <2>4 DEF LoadOlder
    <2>6. /\ f.kind = "older" /\ f.shown = c.shown /\ f.cut = c.cut /\ f.read = c.pages
          /\ f.left = 1 /\ f.top = 0 /\ f.clean
      BY <2>4
    <2>7. f \in Fetches
      <3>1. c.cut \in 0..MaxMessage + 1 /\ c.pages \in 0..MaxMessage
            /\ 1 \in 0..MaxMessage /\ 0 \in 0..MaxMessage
        BY <2>3, Sizes
      <3> QED
        BY <2>3, <2>4, <3>1 DEF Fetches
    <2>8. GoodFetch(f)
      <3>1. c.pages + 1 \in 1..MaxMessage /\ c.pages # 0 /\ c.cut >= 2
        BY <2>3, Sizes
      <3> QED
        BY <2>3, <2>6, <2>7, <3>1 DEF GoodFetch, CutOK
    <2>9. Holds(f, heard) /\ (Quiet => Settled(f, past, confirmed, full))
      BY <2>2, <2>6 DEF Holds, Settled, Reaches
    <2>10. heard' = heard /\ past' = past /\ confirmed' = confirmed /\ full' = full
      BY DEF LoadOlder
    <2> QED
      BY <1>3, <2>5, <2>6, <2>8, <2>9, <2>10 DEF FetchInv, Rest
  <1> QED
    BY <1>1, <1>2, <1>4, <1>5 DEF TimelineInv

LEMMA ReadPageStep ==
    ASSUME TimelineInv, ReadPage
    PROVE  TimelineInv'
  <1> USE DEF serverVars, knownVars
  <1>1. ServerInv' /\ KnownInv' /\ Newest' = Newest /\ ServerInv
    BY KeepServer DEF TimelineInv, KnownInv, ReadPage
  <1>2. MutationInv' /\ Pending' = Pending
    BY KeepMutations, GrowsReflexive DEF TimelineInv, ServerInv, ReadPage
  <1>3. Quiet' <=> Quiet
    BY <1>2 DEF Quiet, ReadPage
  <1>4. CacheInv'
    BY <1>3, KeepCache DEF TimelineInv, ReadPage
  <1>5. FetchInv'
    <2>1. PICK f : f = fetch
      OBVIOUS
    <2>2. /\ GoodFetch(f) /\ Holds(f, heard)
          /\ f.kind = "all" =>
                /\ Honest(f.shown, past)
                /\ f.clean => Holds(f, confirmed)
                /\ Reaches(f, f.top) /\ f.top <= Newest
          /\ f.kind = "older" /\ Quiet => Settled(f, past, confirmed, full)
          /\ ~f.clean => owed
          /\ f.left > 0
      BY <2>1 DEF ReadPage, TimelineInv, FetchInv, Rest
    <2>3. PICK older \in SUBSET Exists : older = {m \in Exists : m < f.cut}
      OBVIOUS
    <2>4. \A m \in Exists : m \in older <=> m < f.cut
      BY <2>3
    <2>5. PICK page : page = Largest(older, Limit)
      OBVIOUS
    <2>6. PICK cut : cut = IF page = older THEN 0 ELSE Min(page)
      OBVIOUS
    <2>7. page \subseteq Exists /\ page \in SUBSET Messages /\ f.shown \in Shown
      BY <2>2, <2>5, FetchNumbers DEF Largest, Exists
    <2>8. PICK s \in Shown : /\ s = Prepend(page, [m \in page |-> Latest(m)], f.shown)
                             /\ DOMAIN s = page \cup DOMAIN f.shown
                             /\ \A m \in page : s[m] = Latest(m)
                             /\ \A m \in DOMAIN f.shown \ page : s[m] = f.shown[m]
      BY <1>1, <2>7, PageShown
    <2>9. PICK left : left = IF cut = 0 THEN 0 ELSE f.left - 1
      OBVIOUS
    <2>10. PICK top : top = IF f.read = 0 THEN Newest ELSE f.top
      OBVIOUS
    <2>11. PICK g : g = [f EXCEPT !.shown = s, !.cut = cut, !.read = f.read + 1,
                                  !.left = left, !.top = top]
      OBVIOUS
    <2>12. fetch' = g
      BY <2>1, <2>3, <2>5, <2>6, <2>8, <2>9, <2>10, <2>11 DEF ReadPage, PageCursor
    <2>p. PageRead(f, older, page, cut, s, left, top, g)
      BY <2>4, <2>5, <2>6, <2>8, <2>9, <2>10, <2>11 DEF PageRead
    <2>13. /\ GoodFetch(g) /\ g.kind = f.kind /\ g.clean = f.clean /\ g.top = top
           /\ Honest(f.shown, past) => Honest(g.shown, past)
           /\ \A known \in [Messages -> Nat] :
                 Holds(f, known) /\ (\A m \in Messages : known[m] <= Len(past[m]))
                     => Holds(g, known)
           /\ \A n \in 0..Newest : Reaches(f, n) => Reaches(g, n)
      BY <1>1, <2>2, <2>p, PageAdds
    <2>14. /\ heard \in [Messages -> Nat] /\ confirmed \in [Messages -> Nat]
           /\ \A m \in Messages : heard[m] <= Len(past[m])
           /\ \A m \in Messages : confirmed[m] <= Len(past[m])
           /\ full \in 0..Newest
      BY Sizes DEF TimelineInv, KnownInv
    <2>15. Holds(g, heard) /\ (Holds(f, confirmed) => Holds(g, confirmed))
           /\ (Reaches(f, full) => Reaches(g, full))
      BY <2>2, <2>13, <2>14
    <2>16. f.kind = "older" /\ Quiet => Settled(g, past, confirmed, full)
      BY <2>2, <2>13, <2>15 DEF Settled
    <2>17. f.kind = "all" => Reaches(g, top) /\ top <= Newest
      <3> SUFFICES ASSUME f.kind = "all" PROVE Reaches(g, top) /\ top <= Newest
        OBVIOUS
      <3>1. Newest \in Nat /\ f.top \in Nat /\ f.top <= Newest
        BY <1>1, <2>2, FetchNumbers, Sizes DEF ServerInv
      <3>2. top \in 0..Newest
        BY <2>10, <3>1
      <3>3. Reaches(f, top)
        <4>1. CASE f.read = 0
          <5>1. f.cut = MaxMessage + 1
            BY <2>2, <4>1 DEF GoodFetch
          <5> QED
            BY <5>1, Sizes DEF Reaches
        <4>2. CASE f.read # 0
          BY <2>2, <2>10, <4>2
        <4> QED
          BY <4>1, <4>2
      <3> QED
        BY <2>13, <3>1, <3>2, <3>3
    <2>18. heard' = heard /\ past' = past /\ confirmed' = confirmed /\ full' = full /\ owed' = owed
      BY DEF ReadPage
    <2> QED
      BY <1>1, <1>3, <2>2, <2>12, <2>13, <2>15, <2>16, <2>17, <2>18 DEF FetchInv, Rest
  <1> QED
    BY <1>1, <1>2, <1>4, <1>5 DEF TimelineInv

LEMMA FetchEndsStep ==
    ASSUME TimelineInv, FetchEnds
    PROVE  TimelineInv'
  <1> USE DEF serverVars
  <1>1. ServerInv' /\ Newest' = Newest /\ ServerInv
    BY KeepServer DEF TimelineInv, FetchEnds
  <1>2. PICK f : f = fetch
    OBVIOUS
  <1>3. /\ GoodFetch(f) /\ Holds(f, heard)
        /\ f.kind = "all" =>
              /\ Honest(f.shown, past)
              /\ f.clean => Holds(f, confirmed)
              /\ Reaches(f, f.top) /\ f.top <= Newest
        /\ f.kind = "older" /\ Quiet => Settled(f, past, confirmed, full)
        /\ ~f.clean => owed
        /\ f.left = 0
    BY <1>2 DEF FetchEnds, TimelineInv, FetchInv, Rest
  <1>4. /\ f.kind \in {"all", "older"} /\ f.shown \in Shown /\ f.top \in Nat
        /\ f.read \in 1..MaxMessage /\ f.cut \in 0..MaxMessage /\ CutOK(f.cut, f.read)
    BY <1>3, FetchNumbers, Sizes DEF GoodFetch, CutOK
  <1>5. PICK c : c = [shown |-> f.shown, pages |-> f.read, cut |-> f.cut]
    OBVIOUS
  <1>6. GoodPages(c) /\ c # None /\ c.shown = f.shown /\ c.cut = f.cut
    BY <1>4, <1>5, PagesType DEF GoodPages
  <1>7. cache' = c
    BY <1>2, <1>5 DEF FetchEnds
  <1>8. /\ heard' = heard /\ past' = past /\ confirmed' = confirmed /\ mutation' = mutation
        /\ link' = link /\ open' = open /\ fetch' = None
        /\ f.kind = "all" => full' = f.top /\ owed' = (owed /\ ~f.clean)
        /\ f.kind # "all" => full' = full /\ owed' = owed
    BY <1>2 DEF FetchEnds
  <1>9. KnownInv'
    <2>1. full' \in 0..Newest
      <3>1. Newest \in Nat /\ full \in 0..Newest
        BY <1>1, Sizes DEF TimelineInv, KnownInv, ServerInv
      <3> QED
        BY <1>3, <1>4, <1>8, <3>1
    <2>2. owed' \in BOOLEAN
      <3>1. owed \in BOOLEAN
        BY DEF TimelineInv, KnownInv
      <3>2. CASE f.kind = "all"
        <4>1. owed' = (owed /\ ~f.clean)
          BY <1>8, <3>2
        <4> QED
          BY <4>1
      <3>3. CASE f.kind # "all"
        BY <1>8, <3>1, <3>3
      <3> QED
        BY <3>2, <3>3
    <2> QED
      BY <1>1, <1>8, <2>1, <2>2 DEF TimelineInv, KnownInv
  <1>10. MutationInv' /\ Pending' = Pending
    BY <1>8, KeepMutations, GrowsReflexive DEF TimelineInv, ServerInv
  <1>11. Holds(c, heard)
    BY <1>3, <1>6 DEF Holds
  <1>12. Quiet' => Settled(c, past, confirmed, full')
    <2> SUFFICES ASSUME Quiet' PROVE Settled(c, past, confirmed, full')
      OBVIOUS
    <2>1. Pending = {} /\ ~owed'
      BY <1>10 DEF Quiet
    <2>2. Settled(f, past, confirmed, full')
      <3>1. CASE f.kind = "all"
        <4>1. f.clean
          BY <1>3, <1>8, <2>1, <3>1
        <4> QED
          BY <1>3, <1>8, <3>1, <4>1 DEF Settled
      <3>2. CASE f.kind = "older"
        BY <1>3, <1>8, <2>1, <3>2 DEF Quiet
      <3> QED
        BY <1>4, <3>1, <3>2
    <2> QED
      BY <1>6, <2>2 DEF Settled, Holds, Reaches
  <1>13. CacheInv'
    BY <1>6, <1>7, <1>8, <1>11, <1>12 DEF CacheInv, Rest
  <1>14. FetchInv'
    BY <1>8 DEF FetchInv
  <1> QED
    BY <1>1, <1>9, <1>10, <1>13, <1>14 DEF TimelineInv

-----------------------------------------------------------------------------
(* The mutations.                                                           *)

\* onSettled, when the pages are c: the refetch is asked for.
LEMMA SettleStep ==
    ASSUME TimelineInv, NEW c, GoodPages(c), Settle(c), ServerInv',
           UNCHANGED <<past, open, heard>>
    PROVE  owed' = TRUE /\ FetchInv'
  <1>1. owed' = TRUE /\ c # None
    BY PagesNumbers DEF Settle
  <1>2. CASE open
    <2>1. fetch' = Refetch(c)
      BY <1>1, <1>2 DEF Settle, Invalidate
    <2> QED
      BY <1>1, <2>1, RefetchStep
  <1>3. CASE ~open /\ fetch = None
    BY <1>1, <1>3 DEF Settle, FetchInv
  <1>4. CASE ~open /\ fetch # None
    <2>1. PICK f : f = fetch
      OBVIOUS
    <2>2. /\ GoodFetch(f) /\ Holds(f, heard)
          /\ f.kind = "all" =>
                Honest(f.shown, past) /\ Reaches(f, f.top) /\ f.top <= Newest
      BY <1>4, <2>1 DEF TimelineInv, FetchInv
    <2>3. PICK g : g = [f EXCEPT !.clean = FALSE]
      OBVIOUS
    <2>4. fetch' = g
      BY <1>4, <2>1, <2>3 DEF Settle
    <2>5. f \in Fetches
      BY <2>2 DEF GoodFetch
    <2>6. /\ g \in Fetches /\ g.kind = f.kind /\ g.shown = f.shown /\ g.cut = f.cut
          /\ g.read = f.read /\ g.left = f.left /\ g.top = f.top /\ g.clean = FALSE
      BY <2>3, <2>5 DEF Fetches
    <2>7. GoodFetch(g)
      BY <2>2, <2>6 DEF GoodFetch
    <2>8. /\ Holds(g, heard)
          /\ g.kind = "all" => Honest(g.shown, past) /\ Reaches(g, g.top) /\ g.top <= Newest
      BY <2>2, <2>6 DEF Holds, Reaches
    <2>9. Newest' = Newest /\ past' = past /\ heard' = heard
      BY DEF Newest, Exists
    <2>10. ~Quiet'
      BY <1>1 DEF Quiet
    <2> QED
      BY <1>1, <2>4, <2>6, <2>7, <2>8, <2>9, <2>10 DEF FetchInv
  <1> QED
    BY <1>1, <1>2, <1>3, <1>4

\* onMutate keeps the pages as they were and drops the fetch.
LEMMA MutateStep ==
    ASSUME TimelineInv, NEW i \in Mutations, NEW m \in Messages, NEW item \in Item,
           NEW body \in Body, Mutate(i, m, item, body)
    PROVE  TimelineInv'
  <1> USE DEF serverVars, knownVars
  <1>1. ServerInv' /\ KnownInv' /\ Newest' = Newest
    BY KeepServer DEF TimelineInv, KnownInv, Mutate
  <1>2. PICK c : c = cache
    OBVIOUS
  <1>3. GoodPages(c) /\ c # None /\ Holds(c, heard)
    BY <1>2 DEF Mutate, TimelineInv, CacheInv
  <1>4. item.version \in 1..MaxVersion - 1 /\ m \in 0..MaxMessage
    BY Sizes DEF Mutate, Item, Messages
  <1>5. PICK r : r = [at |-> "sent", on |-> m, expected |-> item.version, body |-> body,
                      snapshot |-> c]
    OBVIOUS
  <1>6. /\ r.at = "sent" /\ r.on = m /\ r.expected = item.version /\ r.snapshot = c
        /\ r \in MutationRecords
    <2>1. item.version \in 0..MaxVersion /\ c \in Pages
      BY <1>3, <1>4, Sizes DEF GoodPages
    <2> QED
      BY <1>4, <1>5, <2>1 DEF MutationRecords
  <1>7. mutation \in [Mutations -> MutationRecords] /\ mutation' = [mutation EXCEPT ![i] = r]
    BY <1>2, <1>5 DEF TimelineInv, MutationInv, Mutate
  <1>8. /\ mutation' \in [Mutations -> MutationRecords] /\ mutation'[i] = r
        /\ \A j \in Mutations \ {i} : mutation'[j] = mutation[j]
    BY <1>6, <1>7
  <1>9. i \in Pending' /\ \A j \in Pending' : j # i => j \in Pending
    BY <1>6, <1>8 DEF Pending
  <1>10. MutationInv'
    <2> SUFFICES ASSUME NEW j \in Pending'
                 PROVE  /\ mutation'[j].on \in Messages /\ mutation'[j].expected \in 1..MaxVersion - 1
                        /\ GoodPages(mutation'[j].snapshot) /\ Holds(mutation'[j].snapshot, heard)
                        /\ mutation'[j].at = "applied" =>
                              mutation'[j].expected < Len(past[mutation'[j].on])
      BY <1>8 DEF MutationInv, Mutate
    <2>1. CASE j = i
      BY <1>3, <1>4, <1>6, <1>8, <2>1
    <2>2. CASE j # i
      <3>1. j \in Pending /\ mutation'[j] = mutation[j]
        BY <1>8, <1>9, <2>2 DEF Pending
      <3> QED
        BY <3>1 DEF TimelineInv, MutationInv
    <2> QED
      BY <2>1, <2>2
  <1>11. PICK new : new = [version |-> IF body = Deleted THEN item.version + 1 ELSE item.version,
                           body |-> body]
    OBVIOUS
  <1>12. new \in Item
    <2>1. (IF body = Deleted THEN item.version + 1 ELSE item.version) \in 1..MaxVersion
      BY <1>4, Sizes
    <2> QED
      BY <1>11, <2>1 DEF Item
  <1>13. PICK d : d = appendMessageToPages(c, m, new)
    OBVIOUS
  <1>14. cache' = d /\ GoodPages(d) /\ d # None
    BY <1>2, <1>3, <1>11, <1>12, <1>13, AppendType DEF Mutate
  <1>15. Holds(d, heard)
    <2>1. PICK h \in [Messages -> Nat] : h = heard
      BY Sizes DEF TimelineInv, KnownInv
    <2>2. Holds(c, h) /\ \A k \in Messages : h[k] = h[k] \/ (k = m /\ h[k] <= new.version)
      BY <1>3, <2>1
    <2> QED
      BY <1>3, <1>12, <1>13, <2>1, <2>2, AppendHolds
  <1>16. CacheInv'
    <2>1. ~Quiet' /\ heard' = heard
      BY <1>9 DEF Quiet, Mutate
    <2> QED
      BY <1>14, <1>15, <2>1 DEF CacheInv
  <1>17. FetchInv'
    BY DEF Mutate, FetchInv
  <1> QED
    BY <1>1, <1>10, <1>16, <1>17 DEF TimelineInv

LEMMA EditStep ==
    ASSUME TimelineInv, NEW i \in Mutations, NEW m \in Messages, Edit(i, m) \/ Delete(i, m)
    PROVE  TimelineInv'
  <1>1. /\ cache # None /\ m \in DOMAIN cache.shown /\ GoodPages(cache)
        /\ i \in Body /\ Deleted \in Body
    BY DEF Edit, Delete, TimelineInv, CacheInv, Body
  <1>2. cache.shown[m] \in Item
    BY <1>1, PagesNumbers, ShownType
  <1>3. CASE Edit(i, m)
    BY <1>1, <1>2, <1>3, MutateStep DEF Edit
  <1>4. CASE Delete(i, m)
    <2>1. PICK item \in {cache.shown[m]} \cup {Version(m, v) : v \in 1..Len(past[m])} :
              Mutate(i, m, item, Deleted)
      BY <1>4 DEF Delete
    <2>2. item \in Item
      BY <1>2, <2>1, VersionType DEF TimelineInv
    <2> QED
      BY <1>1, <2>1, <2>2, MutateStep
  <1> QED
    BY <1>3, <1>4

LEMMA ServerMutatesStep ==
    ASSUME TimelineInv, NEW i \in Mutations, ServerMutates(i)
    PROVE  TimelineInv'
  <1>0. /\ ServerInv /\ mutation \in [Mutations -> MutationRecords] /\ mutation[i].at = "sent"
        /\ past \in [Messages -> Seq(Body)]
    BY DEF TimelineInv, MutationInv, ServerInv, ServerMutates
  <1>1. i \in Pending
    BY <1>0 DEF Pending
  <1>2. PICK m \in Messages, n \in 1..MaxVersion - 1 :
            m = mutation[i].on /\ n = mutation[i].expected
    BY <1>1 DEF TimelineInv, MutationInv
  <1>3. PICK r \in MutationRecords : r = mutation[i]
    BY <1>0
  \* Whatever the server decides, the mutation stays under way.
  <1>4. ASSUME NEW at \in {"applied", "refused"},
               mutation' = [mutation EXCEPT ![i].at = at],
               ServerInv', Grows(past, past'), Newest <= Newest',
               at = "applied" => n < Len(past'[m]),
               UNCHANGED <<link, open, cache, fetch, owed>>, UNCHANGED knownVars
        PROVE  TimelineInv'
    <2>1. PICK s : s = [r EXCEPT !.at = at]
      OBVIOUS
    <2>2. /\ s \in MutationRecords /\ s.at = at /\ s.on = r.on /\ s.expected = r.expected
          /\ s.snapshot = r.snapshot
      BY <2>1 DEF MutationRecords
    <2>3. mutation' = [mutation EXCEPT ![i] = s]
      BY <1>0, <1>3, <1>4, <2>1
    <2>4. /\ mutation' \in [Mutations -> MutationRecords] /\ mutation'[i] = s
          /\ \A j \in Mutations \ {i} : mutation'[j] = mutation[j]
      BY <1>0, <2>2, <2>3
    <2>5. Pending' = Pending
      <3>1. \A j \in Mutations : j \in Pending' <=> j \in Pending
        <4> SUFFICES ASSUME NEW j \in Mutations PROVE j \in Pending' <=> j \in Pending
          OBVIOUS
        <4>1. CASE j = i
          BY <1>1, <2>2, <2>4, <4>1 DEF Pending
        <4>2. CASE j # i
          BY <2>4, <4>2 DEF Pending
        <4> QED
          BY <4>1, <4>2
      <3> QED
        BY <3>1 DEF Pending
    <2>6. MutationInv'
      <3> SUFFICES ASSUME NEW j \in Pending
                   PROVE  /\ mutation'[j].on \in Messages
                          /\ mutation'[j].expected \in 1..MaxVersion - 1
                          /\ GoodPages(mutation'[j].snapshot)
                          /\ Holds(mutation'[j].snapshot, heard)
                          /\ mutation'[j].at = "applied" =>
                                mutation'[j].expected < Len(past'[mutation'[j].on])
        BY <1>4, <2>4, <2>5 DEF MutationInv, knownVars
      <3>0. /\ mutation[j].on \in Messages /\ mutation[j].expected \in 1..MaxVersion - 1
            /\ GoodPages(mutation[j].snapshot) /\ Holds(mutation[j].snapshot, heard)
            /\ mutation[j].at = "applied" => mutation[j].expected < Len(past[mutation[j].on])
        BY DEF TimelineInv, MutationInv
      <3>1. CASE j = i
        BY <1>2, <1>3, <1>4, <2>2, <2>4, <3>0, <3>1
      <3>2. CASE j # i
        <4>1. mutation'[j] = mutation[j]
          BY <2>4, <3>2 DEF Pending
        <4>2. PICK k \in Messages : k = mutation[j].on
          BY <3>0
        <4>3. Len(past[k]) \in Nat /\ Len(past'[k]) \in Nat /\ Len(past[k]) <= Len(past'[k])
          <5>1. past' \in [Messages -> Seq(Body)]
            BY <1>4 DEF ServerInv
          <5> QED
            BY <1>0, <1>4, <5>1 DEF Grows
        <4> QED
          BY <3>0, <4>1, <4>2, <4>3, Sizes
      <3> QED
        BY <3>1, <3>2
    <2> QED
      BY <1>4, <2>5, <2>6, ServerStep
  <1>5. CASE Len(past[m]) = n /\ Latest(m).body # Deleted
    <2>1. PICK body \in Body : body = mutation[i].body
      BY <1>0 DEF MutationRecords
    <2>2. Commit(m, body) /\ mutation' = [mutation EXCEPT ![i].at = "applied"]
      BY <1>2, <1>5, <2>1 DEF ServerMutates
    <2>3. m \in Exists /\ Len(past[m]) < MaxVersion /\ sending' \subseteq Exists \cup {m}
      <3>1. n > 0 /\ n < MaxVersion
        BY Sizes
      <3> QED
        BY <1>0, <1>5, <3>1, PastType DEF ServerInv, ServerMutates
    <2>4. /\ ServerInv' /\ Grows(past, past') /\ Newest <= Newest'
          /\ Len(past'[m]) = Len(past[m]) + 1
      BY <1>0, <2>2, <2>3, CommitGrows
    <2>5. n < Len(past'[m])
      BY <1>5, <2>4
    <2> QED
      BY <1>4, <2>2, <2>4, <2>5 DEF ServerMutates
  <1>6. CASE ~(Len(past[m]) = n /\ Latest(m).body # Deleted)
    <2>1. UNCHANGED serverVars /\ mutation' = [mutation EXCEPT ![i].at = "refused"]
          /\ sending' = sending
      BY <1>2, <1>6 DEF ServerMutates
    <2>2. ServerInv' /\ Grows(past, past') /\ Newest' = Newest /\ Newest \in Nat
      BY <1>0, <2>1, KeepServer, GrowsReflexive, Sizes DEF serverVars, ServerInv
    <2> QED
      BY <1>4, <2>1, <2>2 DEF ServerMutates
  <1> QED
    BY <1>5, <1>6

\* A mutation that is over leaves the others as they are.
LEMMA OverStep ==
    ASSUME TimelineInv, NEW i \in Mutations,
           mutation' = [mutation EXCEPT ![i] = [Idle EXCEPT !.at = "over"]],
           UNCHANGED <<past, heard>>
    PROVE  MutationInv'
  <1>1. PICK r : r = [Idle EXCEPT !.at = "over"]
    OBVIOUS
  <1>2. r = [at |-> "over", on |-> 0, expected |-> 0, body |-> First, snapshot |-> None]
    BY <1>1 DEF Idle
  <1>3. r \in MutationRecords /\ r.at = "over"
    BY <1>2, Sizes DEF MutationRecords, Body
  <1>4. mutation \in [Mutations -> MutationRecords] /\ mutation' = [mutation EXCEPT ![i] = r]
    BY <1>1 DEF TimelineInv, MutationInv
  <1>5. /\ mutation' \in [Mutations -> MutationRecords] /\ mutation'[i] = r
        /\ \A j \in Mutations \ {i} : mutation'[j] = mutation[j]
    BY <1>3, <1>4
  <1>6. \A j \in Pending' : j \in Pending /\ mutation'[j] = mutation[j]
    BY <1>3, <1>5 DEF Pending
  <1> QED
    BY <1>5, <1>6 DEF TimelineInv, MutationInv

LEMMA MutationSucceedsStep ==
    ASSUME TimelineInv, NEW i \in Mutations, MutationSucceeds(i)
    PROVE  TimelineInv'
  <1> USE DEF serverVars
  <1>1. ServerInv /\ ServerInv' /\ Newest' = Newest
    BY KeepServer DEF TimelineInv, MutationSucceeds
  <1>2. i \in Pending
    BY DEF Pending, MutationSucceeds
  <1>3. PICK m \in Messages, n \in 1..MaxVersion - 1 :
            m = mutation[i].on /\ n = mutation[i].expected /\ n < Len(past[m])
    BY <1>2 DEF TimelineInv, MutationInv, MutationSucceeds
  <1>4. PICK v \in 1..Len(past[m]) : v = n + 1 /\ v \in 1..MaxVersion
    <2>1. Len(past[m]) \in Nat
      BY <1>1, PastType, Sizes
    <2> QED
      BY <1>3, <2>1, Sizes
  <1>5. PICK item \in Item : item = Version(m, v)
    BY <1>1, VersionType
  <1>6. PICK c : c = cache
    OBVIOUS
  <1>7. c = None \/ GoodPages(c)
    BY <1>6 DEF TimelineInv, CacheInv
  <1>8. PICK d : d = appendMessageToPages(c, m, item)
    OBVIOUS
  <1>9. cache' = d /\ GoodPages(d) /\ d # None
    BY <1>3, <1>4, <1>5, <1>6, <1>7, <1>8, AppendType DEF MutationSucceeds
  <1>10. Holds(d, heard)
    <2>1. PICK h \in [Messages -> Nat] : h = heard
      BY Sizes DEF TimelineInv, KnownInv
    <2>2. /\ c # None => Holds(c, h)
          /\ c = None => \A k \in Messages : h[k] = 0
          /\ \A k \in Messages : h[k] = h[k] \/ (k = m /\ h[k] <= item.version)
      BY <1>6, <2>1 DEF TimelineInv, CacheInv
    <2> QED
      BY <1>7, <1>8, <2>1, <2>2, AppendHolds
  <1>11. /\ Settle(cache') /\ UNCHANGED <<past, open, heard>> /\ full' = full /\ link' = link
         /\ mutation' = [mutation EXCEPT ![i] = [Idle EXCEPT !.at = "over"]]
    BY DEF MutationSucceeds
  <1>12. owed' = TRUE /\ FetchInv'
    BY <1>1, <1>9, <1>11, SettleStep
  <1>13. MutationInv'
    BY <1>11, OverStep
  <1>14. CacheInv'
    BY <1>9, <1>10, <1>11, <1>12 DEF CacheInv, Quiet
  <1>15. KnownInv'
    <2>1. /\ confirmed \in [Messages -> 0..MaxVersion]
          /\ \A k \in Messages : confirmed[k] <= Len(past[k])
      BY DEF TimelineInv, KnownInv
    <2>2. PICK w \in 0..MaxVersion : w = IF v > confirmed[m] THEN v ELSE confirmed[m]
      BY <1>4, <2>1, Sizes
    <2>3. confirmed' = [confirmed EXCEPT ![m] = w]
      BY <1>3, <1>4, <2>2 DEF MutationSucceeds
    <2>4. w <= Len(past[m])
      <3>1. Len(past[m]) \in Nat
        BY <1>1, PastType, Sizes
      <3> QED
        BY <1>4, <2>1, <2>2, <3>1
    <2>5. /\ confirmed' \in [Messages -> 0..MaxVersion]
          /\ \A k \in Messages : confirmed'[k] <= Len(past[k])
      BY <2>1, <2>3, <2>4
    <2> QED
      BY <1>1, <1>11, <1>12, <2>5 DEF TimelineInv, KnownInv
  <1> QED
    BY <1>1, <1>12, <1>13, <1>14, <1>15 DEF TimelineInv

LEMMA MutationFailsStep ==
    ASSUME TimelineInv, NEW i \in Mutations, MutationFails(i)
    PROVE  TimelineInv'
  <1> USE DEF serverVars, knownVars
  <1>1. ServerInv' /\ Newest' = Newest
    BY KeepServer DEF TimelineInv, MutationFails
  <1>2. PICK d : d = mutation[i].snapshot
    OBVIOUS
  <1>3. GoodPages(d) /\ d # None /\ Holds(d, heard)
    BY <1>2, PagesNumbers DEF MutationFails, TimelineInv, MutationInv
  <1>4. cache' = d
    BY <1>2 DEF MutationFails
  <1>5. /\ Settle(cache') /\ UNCHANGED <<past, open, heard>>
        /\ mutation' = [mutation EXCEPT ![i] = [Idle EXCEPT !.at = "over"]]
    BY DEF MutationFails
  <1>6. owed' = TRUE /\ FetchInv'
    BY <1>1, <1>3, <1>4, <1>5, SettleStep
  <1>7. MutationInv'
    BY <1>5, OverStep
  <1>8. CacheInv'
    BY <1>3, <1>4, <1>5, <1>6 DEF CacheInv, Quiet
  <1>9. KnownInv'
    BY <1>1, <1>6 DEF TimelineInv, KnownInv, MutationFails
  <1> QED
    BY <1>1, <1>6, <1>7, <1>8, <1>9 DEF TimelineInv

LEMMA NextStep ==
    ASSUME TimelineInv, [TimelineNext]_timelineVars
    PROVE  TimelineInv'
  <1>1. CASE \E mine \in BOOLEAN : Post(mine)
    BY <1>1, PostStep
  <1>2. CASE \E f \in publishing : PublishFrame(f)
    BY <1>2, PublishFrameStep
  <1>3. CASE \E m \in Messages : UpdateElsewhere(m) \/ SendAnswered(m)
    BY <1>3, UpdateElsewhereStep, SendAnsweredStep
  <1>4. CASE \/ LinkReady \/ Subscribed \/ LinkLost \/ Leave \/ FetchFails
             \/ \E stale \in BOOLEAN : Show(stale)
    BY <1>4, LinkSteps
  <1>5. CASE LoadOlder
    BY <1>5, LoadOlderStep
  <1>6. CASE ReadPage
    BY <1>6, ReadPageStep
  <1>7. CASE FetchEnds
    BY <1>7, FetchEndsStep
  <1>8. CASE \E i \in Mutations : MutationStep(i)
    <2>1. PICK i \in Mutations : MutationStep(i)
      BY <1>8
    <2>2. CASE \E m \in Messages : Edit(i, m) \/ Delete(i, m)
      BY <2>2, EditStep
    <2>3. CASE ServerMutates(i)
      BY <2>3, ServerMutatesStep
    <2>4. CASE MutationSucceeds(i)
      BY <2>4, MutationSucceedsStep
    <2>5. CASE MutationFails(i)
      BY <2>5, MutationFailsStep
    <2> QED
      BY <2>1, <2>2, <2>3, <2>4, <2>5 DEF MutationStep
  <1>9. CASE UNCHANGED timelineVars
    <2>1. fetch' = fetch /\ link' = link /\ open' = open
      BY <1>9 DEF timelineVars
    <2> QED
      BY <1>9, <2>1, LinkStep DEF timelineVars, serverVars, knownVars, TimelineInv, KnownInv
  <1> QED
    BY <1>1, <1>2, <1>3, <1>4, <1>5, <1>6, <1>7, <1>8, <1>9 DEF TimelineNext

-----------------------------------------------------------------------------
(* The theorems.                                                            *)

\* In every reachable state the parts of the invariant hold.
LEMMA TimelineInvariant == TimelineSpec => []TimelineInv
  <1>1. TimelineInit => TimelineInv
    BY InitStep
  <1>2. TimelineInv /\ [TimelineNext]_timelineVars => TimelineInv'
    BY NextStep
  <1> QED
    BY <1>1, <1>2, PTL DEF TimelineSpec

\* The caches, fetches, snapshots and versions of the timeline keep their types:
\* a fetch never holds more pages than there are messages, and a mutation under
\* way always has pages to roll back to.
THEOREM TimelineTypeCorrect == TimelineSpec => []TimelineTypeOK
  <1>1. TimelineInv => TimelineTypeOK
    <2> SUFFICES ASSUME TimelineInv PROVE TimelineTypeOK
      OBVIOUS
    <2>1. past \in [Messages -> UNION {[1..n -> Body] : n \in 0..MaxVersion}]
      <3> DEFINE Pasts == UNION {[1..n -> Body] : n \in 0..MaxVersion}
      <3>1. past \in [Messages -> Seq(Body)]
        BY DEF TimelineInv, ServerInv
      <3>2. \A m \in Messages : past[m] \in Pasts
        <4> SUFFICES ASSUME NEW m \in Messages PROVE past[m] \in Pasts
          OBVIOUS
        <4>1. past[m] \in Seq(Body) /\ Len(past[m]) \in 0..MaxVersion
          BY PastType DEF TimelineInv
        <4>2. past[m] \in [1..Len(past[m]) -> Body]
          BY <4>1
        <4> QED
          BY <4>1, <4>2
      <3> HIDE DEF Pasts
      <3>3. past \in [Messages -> Pasts]
        BY <3>1, <3>2
      <3> QED
        BY <3>3 DEF Pasts
    <2>2. cache = None \/ cache \in Pages
      BY DEF TimelineInv, CacheInv, GoodPages
    <2>3. fetch = None \/
              /\ fetch.kind \in {"all", "older"} /\ DOMAIN fetch.shown \subseteq Messages
              /\ fetch.read + fetch.left \in 1..MaxMessage + 1
      <3> SUFFICES ASSUME fetch # None
                   PROVE  /\ fetch.kind \in {"all", "older"}
                          /\ DOMAIN fetch.shown \subseteq Messages
                          /\ fetch.read + fetch.left \in 1..MaxMessage + 1
        OBVIOUS
      <3>1. GoodFetch(fetch)
        BY DEF TimelineInv, FetchInv
      <3>2. fetch.kind \in {"all", "older"} /\ fetch.shown \in Shown
        BY <3>1, FetchNumbers
      <3>3. DOMAIN fetch.shown \subseteq Messages
        BY <3>2, ShownType
      <3>4. fetch.read + fetch.left \in 1..MaxMessage
        BY <3>1 DEF GoodFetch
      <3> QED
        BY <3>2, <3>3, <3>4, Sizes
    <2>4. \A i \in Mutations :
              mutation[i].at = "idle" \/ mutation[i].at = "over" \/ mutation[i].snapshot # None
      <3> SUFFICES ASSUME NEW i \in Mutations, mutation[i].at # "idle", mutation[i].at # "over"
                   PROVE  mutation[i].snapshot # None
        OBVIOUS
      <3>1. i \in Pending
        <4>1. mutation[i] \in MutationRecords
          BY DEF TimelineInv, MutationInv
        <4>2. mutation[i].at \in {"idle", "sent", "applied", "refused", "over"}
          BY <4>1 DEF MutationRecords
        <4> QED
          BY <4>2 DEF Pending
      <3> QED
        BY <3>1, PagesNumbers DEF TimelineInv, MutationInv
    <2>5. full \in 0..MaxMessage
      <3>1. Newest \in 0..MaxMessage /\ full \in 0..Newest
        BY DEF TimelineInv, ServerInv, KnownInv
      <3> QED
        BY <3>1, Sizes
    <2>6. sending \subseteq Messages /\ {heard, confirmed} \subseteq [Messages -> 0..MaxVersion]
      BY DEF TimelineInv, ServerInv, KnownInv, Exists
    <2> QED
      BY <2>1, <2>2, <2>3, <2>4, <2>5, <2>6 DEF TimelineTypeOK, TimelineInv, ServerInv, KnownInv
  <1> QED
    BY <1>1, TimelineInvariant, PTL

\* When nothing is under way the pages hold: what CacheInv says of a cache at rest.
LEMMA RestingPages ==
    ASSUME TimelineInv, AtRest
    PROVE  /\ Honest(cache.shown, past) /\ Holds(cache, confirmed) /\ Reaches(cache, full)
           /\ \A m \in DOMAIN cache.shown : m \in Messages /\ cache.shown[m] \in Item
  <1>1. cache # None /\ Quiet
    BY DEF AtRest, Quiet
  <1>2. GoodPages(cache) /\ Settled(cache, past, confirmed, full)
    BY <1>1 DEF TimelineInv, CacheInv, Rest
  <1>3. cache.shown \in Shown
    BY <1>2, PagesNumbers
  <1> QED
    BY <1>2, <1>3, ShownType DEF Settled

\* Once every optimistic edit or delete has settled and the refetch it asked for
\* is done, each message on screen is a version that the server had, whatever
\* was rolled back on top of what.
THEOREM RestingTimelineIsHonest == TimelineSpec => []RestIsHonest
  <1>1. TimelineInv => RestIsHonest
    <2> SUFFICES ASSUME TimelineInv, AtRest, NEW m \in DOMAIN cache.shown
                 PROVE  \E v \in 1..Len(past[m]) : cache.shown[m] = Version(m, v)
      BY DEF RestIsHonest
    <2>1. PICK x : x = cache.shown[m]
      OBVIOUS
    <2>2. m \in Messages /\ x \in Item /\ x.version <= Len(past[m]) /\ x.body = past[m][x.version]
      BY <2>1, RestingPages DEF Honest
    <2>3. x.version \in Nat \ {0} /\ Len(past[m]) \in Nat
      BY <2>2, PastType, Sizes DEF Item, TimelineInv
    <2>4. x = [version |-> x.version, body |-> x.body]
      BY <2>2 DEF Item
    <2>5. x = Version(m, x.version) /\ x.version \in 1..Len(past[m])
      BY <2>2, <2>3, <2>4 DEF Version
    <2> QED
      BY <2>1, <2>5
  <1> QED
    BY <1>1, TimelineInvariant, PTL

\* Nor does anything undo an edit or a delete that was confirmed to the user, as
\* long as its message is in the loaded pages: no late frame, no older fetch and
\* no rollback of another mutation.
THEOREM ConfirmedStaysShown == TimelineSpec => []ConfirmedIsShown
  <1>1. TimelineInv => ConfirmedIsShown
    BY RestingPages DEF ConfirmedIsShown, Holds
  <1> QED
    BY <1>1, TimelineInvariant, PTL

\* What arrived while nothing was under way stays, through every fetch, rollback
\* and late frame that follows.
THEOREM HeardIsKept == TimelineSpec => []HeardStays
  <1>1. TimelineInv => HeardStays
    <2>1. CASE cache = None
      BY <2>1, Sizes DEF TimelineInv, CacheInv, HeardStays
    <2>2. CASE cache # None
      BY <2>2 DEF TimelineInv, CacheInv, HeardStays, Holds
    <2> QED
      BY <2>1, <2>2
  <1> QED
    BY <1>1, TimelineInvariant, PTL

\* The loaded pages have no hole up to the newest message of the last whole
\* refetch, however often fetches were cancelled and started over.
THEOREM TimelineHasNoHole == TimelineSpec => []NoHole
  <1>1. TimelineInv => NoHole
    BY RestingPages DEF NoHole, Reaches
  <1> QED
    BY <1>1, TimelineInvariant, PTL

=============================================================================
