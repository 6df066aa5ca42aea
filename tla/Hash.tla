-------------------------------- MODULE Hash --------------------------------
(* The table of chains in hash.c as CMap (map.h) uses it: it doubles and halves
   itself while keys come and go, and one enumeration of it may be in progress.
   A node is known by its key; what it points to is left out. *)
EXTENDS Naturals, FiniteSets, SequencesExt

CONSTANTS
  Key,
  HashOf,      \* the hash function
  InitSize,    \* chains of a new table
  None,        \* no node
  MaxChanges,  \* bound: insertions and deletions during one enumeration
  MaxFailures  \* bound: reallocations that fail

ASSUME HashAssumption ==
  /\ HashOf \in [Key -> Nat]
  /\ InitSize \in Nat \ {0} /\ InitSize % 2 = 0   \* 1 << INIT_BITS
  /\ None \notin Key
  /\ MaxChanges \in Nat /\ MaxFailures \in Nat

VARIABLES
  hash,     \* hash_t: nchains, highmark, lowmark, nodecount, table
  scan,     \* hscan_t of the enumeration, and what it has done so far
  failures  \* reallocations that failed

vars == <<hash, scan, failures>>

Chains(n) == 0 .. n - 1
Members(h, c) == ToSet(h.table[c])
Stored(h) == UNION {Members(h, c) : c \in Chains(h.nchains)}

(***************************************************************************)
(* Chains                                                                  *)
(***************************************************************************)

\* hkey & mask, the mask being nchains - 1 and nchains a power of two.
ChainOf(h, k) == HashOf[k] % h.nchains

Lookup(h, k) == k \in Members(h, ChainOf(h, k))

\* The nodes of the chain s with keys in T, each pushed in front of those before it.
Pushed(s, T) ==
  LET after[i \in 0 .. Len(s)] ==
        IF i = 0 THEN <<>>
        ELSE IF s[i] \in T THEN <<s[i]>> \o after[i - 1]
        ELSE after[i - 1]
  IN  after[Len(s)]

\* Variant: splits the chains by the wrong bit.
GrownWrongBit(h) ==
  LET exposed == {k \in Key : (HashOf[k] \div (2 * h.nchains)) % 2 = 1}
      low(c) == Pushed(h.table[c], Key \ exposed)
      high(c) == Pushed(h.table[c], exposed)
  IN  [h EXCEPT !.nchains = 2 * @, !.highmark = 2 * @, !.lowmark = 2 * @,
         !.table = [c \in Chains(2 * h.nchains) |->
                      IF c < h.nchains THEN low(c) ELSE high(c - h.nchains)]]

\* Each chain is split by the bit of the hash that the larger mask exposes, and the
\* order of its nodes turned around.
Grown(h) ==
  LET exposed == {k \in Key : (HashOf[k] \div h.nchains) % 2 = 1}
      low(c) == Pushed(h.table[c], Key \ exposed)
      high(c) == Pushed(h.table[c], exposed)
  IN  [h EXCEPT !.nchains = 2 * @, !.highmark = 2 * @, !.lowmark = 2 * @,
         !.table = [c \in Chains(2 * h.nchains) |->
                      IF c < h.nchains THEN low(c) ELSE high(c - h.nchains)]]

\* Variant: an empty lower chain stays empty.
ShrunkLosing(h) ==
  LET half == h.nchains \div 2
  IN  [h EXCEPT !.nchains = half, !.highmark = @ \div 2, !.lowmark = @ \div 2,
         !.table = [c \in Chains(half) |->
                      IF h.table[c] = <<>> THEN <<>> ELSE h.table[c] \o h.table[c + half]]]

\* Variant: tacks the lower chains onto the upper ones.
ShrunkSwapped(h) ==
  LET half == h.nchains \div 2
  IN  [h EXCEPT !.nchains = half, !.highmark = @ \div 2, !.lowmark = @ \div 2,
         !.table = [c \in Chains(half) |-> h.table[c + half] \o h.table[c]]]

\* The upper chains are tacked onto the lower ones.
Shrunk(h) ==
  LET half == h.nchains \div 2
  IN  [h EXCEPT !.nchains = half, !.highmark = @ \div 2, !.lowmark = @ \div 2,
         !.table = [c \in Chains(half) |-> h.table[c] \o h.table[c + half]]]

Linked(h, k) ==
  [h EXCEPT !.nodecount = @ + 1, !.table[ChainOf(h, k)] = <<k>> \o @]

Unlinked(h, k) ==
  [h EXCEPT !.nodecount = @ - 1, !.table[ChainOf(h, k)] = RemoveFirst(@, k)]

Cleared(h) ==
  [h EXCEPT !.nodecount = 0, !.table = [c \in Chains(h.nchains) |-> <<>>]]

(***************************************************************************)
(* Enumeration.  scan.next is the node to be returned next, linked unless  *)
(* it was deleted meanwhile (its own next is then null).                   *)
(***************************************************************************)

\* The first node of the first chain from c on that has any, as a scan position.
FirstFrom(h, c) ==
  LET some == {d \in Chains(h.nchains) : d >= c /\ h.table[d] # <<>>}
      first == CHOOSE d \in some : \A e \in some : d <= e
  IN  IF some = {} THEN [chain |-> 0, next |-> None, linked |-> FALSE]
      ELSE [chain |-> first, next |-> Head(h.table[first]), linked |-> TRUE]

\* Variant: goes on to the next chain after every node.
AfterSkipping(h, s) == FirstFrom(h, s.chain + 1)

\* Where hash_scan_next leaves the scan s when it returns s.next.
After(h, s) ==
  LET chain == h.table[ChainOf(h, s.next)]
      at == CHOOSE i \in DOMAIN chain : chain[i] = s.next
  IN  IF s.linked /\ at < Len(chain)
      THEN [chain |-> s.chain, next |-> chain[at + 1], linked |-> TRUE]
      ELSE FirstFrom(h, s.chain + 1)

\* kept: keys that were there all the time; clean: no resize, and the node to be
\* returned next was never deleted; halved: the table shrank; mixed: it grew, or
\* shrank twice.
Scanning(mode, h) ==
  [mode |-> mode, pos |-> FirstFrom(h, 0), seen |-> {}, twice |-> {},
   kept |-> Stored(h), clean |-> TRUE, halved |-> FALSE,
   mixed |-> FALSE, changes |-> 0]

Idle ==
  [mode |-> "idle", pos |-> [chain |-> 0, next |-> None, linked |-> FALSE],
   seen |-> {}, twice |-> {}, kept |-> {}, clean |-> TRUE, halved |-> FALSE,
   mixed |-> FALSE, changes |-> 0]

\* The scan after the table went from hash to h, with key k added or deleted.
Seeing(h, k) ==
  IF scan.mode = "idle" THEN scan
  ELSE LET cut == scan.pos.next = k /\ scan.pos.linked /\ ~Lookup(h, k) IN
       [scan EXCEPT
          !.changes = @ + 1,
          !.kept = @ \ {k},
          !.clean = @ /\ h.nchains = hash.nchains /\ ~cut,
          !.halved = @ \/ h.nchains < hash.nchains,
          !.mixed = @ \/ h.nchains > hash.nchains
                      \/ (scan.halved /\ h.nchains < hash.nchains),
          !.pos.linked = @ /\ ~cut]

MayChange == scan.mode = "idle" \/ (scan.mode = "enum" /\ scan.changes < MaxChanges)

(***************************************************************************)
(* Actions                                                                 *)
(***************************************************************************)

Init ==
  /\ hash = [nchains |-> InitSize, highmark |-> 2 * InitSize,
             lowmark |-> InitSize \div 2, nodecount |-> 0,
             table |-> [c \in Chains(InitSize) |-> <<>>]]
  /\ scan = Idle
  /\ failures = 0

\* CMap::Set and operator[] for a key that is not there.
Insert(k) ==
  /\ MayChange
  /\ ~Lookup(hash, k)
  /\ IF hash.nodecount < hash.highmark
     THEN /\ hash' = Linked(hash, k)
          /\ UNCHANGED failures
     ELSE \/ /\ hash' = Linked(Grown(hash), k)
             /\ UNCHANGED failures
          \/ /\ failures < MaxFailures
             /\ hash' = Linked(hash, k)
             /\ failures' = failures + 1
  /\ scan' = Seeing(hash', k)

\* Variant: a table may shrink below its first size.
DeleteAnySize(k) ==
  /\ MayChange
  /\ Lookup(hash, k)
  /\ hash' = Unlinked(IF hash.nodecount <= hash.lowmark /\ hash.nchains > 1
                      THEN Shrunk(hash) ELSE hash, k)
  /\ scan' = Seeing(hash', k)
  /\ UNCHANGED failures

\* CMap::Del; the node is unlinked, and never freed.
Delete(k) ==
  /\ MayChange
  /\ Lookup(hash, k)
  /\ hash' = Unlinked(IF hash.nodecount <= hash.lowmark /\ hash.nodecount > InitSize
                      THEN Shrunk(hash) ELSE hash, k)
  /\ scan' = Seeing(hash', k)
  /\ UNCHANGED failures

\* CMap::First
First ==
  /\ scan.mode = "idle"
  /\ scan' = Scanning("enum", hash)
  /\ UNCHANGED <<hash, failures>>

\* CMap::Next while it returns a node
NextNode ==
  /\ scan.mode = "enum"
  /\ scan.pos.next # None
  /\ scan' = [scan EXCEPT !.pos = After(hash, @),
                          !.seen = @ \union {scan.pos.next},
                          !.twice = @ \union ({scan.pos.next} \intersect scan.seen)]
  /\ UNCHANGED <<hash, failures>>

\* CMap::Next when there is none left, or a caller that stops early
Finish ==
  /\ scan.mode = "enum"
  /\ scan' = Idle
  /\ UNCHANGED <<hash, failures>>

\* CMap::Clear is hash_free_nodes: scan, delete what is returned, ...
FreeBegin ==
  /\ scan.mode = "idle"
  /\ scan' = Scanning("free", hash)
  /\ UNCHANGED <<hash, failures>>

\* Variant: deletes with hash_delete, which may shrink the table.
FreeNodeShrinking ==
  /\ scan.mode = "free"
  /\ scan.pos.next # None
  /\ scan' = [scan EXCEPT !.pos = After(hash, @)]
  /\ hash' = Unlinked(IF hash.nodecount <= hash.lowmark /\ hash.nodecount > InitSize
                      THEN Shrunk(hash) ELSE hash, scan.pos.next)
  /\ UNCHANGED failures

FreeNode ==
  /\ scan.mode = "free"
  /\ scan.pos.next # None
  /\ scan' = [scan EXCEPT !.pos = After(hash, @)]
  /\ hash' = Unlinked(hash, scan.pos.next)
  /\ UNCHANGED failures

\* ... and then forget whatever is left.
FreeEnd ==
  /\ scan.mode = "free"
  /\ scan.pos.next = None
  /\ scan' = Idle
  /\ hash' = Cleared(hash)
  /\ UNCHANGED failures

Next ==
  \/ \E k \in Key : Insert(k) \/ Delete(k)
  \/ First \/ NextNode \/ Finish
  \/ FreeBegin \/ FreeNode \/ FreeEnd

Spec == Init /\ [][Next]_vars

(***************************************************************************)
(* Properties                                                              *)
(***************************************************************************)

\* The marks follow the number of chains, which never falls below that of a new
\* table (hash.c:303, hash.c:598).
TypeOK ==
  /\ hash.nchains \in Nat /\ hash.nchains >= InitSize
  /\ hash.highmark = 2 * hash.nchains
  /\ hash.lowmark = hash.nchains \div 2
  /\ hash.table \in [Chains(hash.nchains) -> Seq(Key)]
  /\ scan.mode \in {"idle", "enum", "free"}
  /\ scan.pos.next \in Key \union {None}
  /\ failures \in 0 .. MaxFailures

\* hash_verify (hash.c:691), and no key twice: after any growth, shrinkage, insertion
\* and deletion every node is on the chain its key is looked up on, once.
Verified ==
  /\ \A c \in Chains(hash.nchains) :
       /\ IsInjective(hash.table[c])
       /\ \A k \in Members(hash, c) : ChainOf(hash, k) = c
  /\ hash.nodecount = Cardinality(Stored(hash))

\* To its users the table is a set of keys: what Find answers changes by the key that
\* is added or deleted and by nothing else, whatever is rehashed on the way.
Map == INSTANCE KeyMap WITH
         keys <- {k \in Key : Lookup(hash, k)},
         count <- hash.nodecount

ImplementsMap == Map!Spec

\* An enumeration to its end returns every key that was there all the time, whatever
\* was inserted and deleted on the way (form-set in the body of enumform, cgi.cpp:399),
\* provided the table kept its size and the node to be returned next was not deleted.
ScanSeesAll ==
  scan.mode = "enum" /\ scan.pos.next = None /\ scan.clean => scan.kept \subseteq scan.seen

\* Only growth, or a second shrinkage, makes an enumeration return a key twice: neither
\* one shrinkage nor the deletion of the node to be returned next does, nor a key that
\* is deleted and added again.
ScanNoRepeat == ~scan.mixed => scan.twice = {}

\* When hash_free_nodes has deleted what its scan returned there is nothing left
\* that it would forget without freeing it (hash.c:354).
ClearFreesAll ==
  scan.mode = "free" /\ scan.pos.next = None => hash.nodecount = 0 /\ Stored(hash) = {}
=============================================================================
