----------------------------- MODULE FibHashTable -----------------------------
(***************************************************************************)
(* The FIB-strategy table as a hash table (fib-strategy-hashtable.go).     *)
(*                                                                         *)
(* A table is a record of three maps.  Names stand for their hashes: the   *)
(* code takes hashes of different names to differ.                         *)
(*   real    name -> its next hops and strategy                            *)
(*   virt    name of length VirtLen -> md, how long a real name with that  *)
(*           prefix may be                                                 *)
(*   virtNames  name of length VirtLen -> the real names with that prefix  *)
(* Operators return the table after the operation.                         *)
(***************************************************************************)
EXTENDS FibEntries

CONSTANT VirtLen

ASSUME VirtLenAssumption == VirtLen \in Nat

NewHashTable(default) ==
  [real |-> [n \in {<<>>} |-> [EmptyEntry EXCEPT !.strategy = default]],
   virt |-> <<>>, virtNames |-> <<>>]

MinOf(a, b) == IF a < b THEN a ELSE b
MaxOf(a, b) == IF a > b THEN a ELSE b

\* f with f[x] = v
Put(f, x, v) == [y \in DOMAIN f \cup {x} |-> IF y = x THEN v ELSE f[y]]

Drop(f, x) == [y \in DOMAIN f \ {x} |-> f[y]]

\* The longest prefix of the name with a length from hi down to lo in the real
\* table: its length, or lo - 1 if there is none.
Probe(t, name, hi, lo) ==
  IF hi < lo THEN lo - 1
  ELSE StopAt({k \in lo..hi : Pfx(name, k) \in DOMAIN t.real}, hi, lo - 1)

\* findLongestPrefixMatchEnc: the length of the match.  A name longer than
\* VirtLen is first probed from the depth its virtual entry allows.
FindLongestPrefixMatch(t, name) ==
  IF Len(name) <= VirtLen THEN Probe(t, name, Len(name), 0)
  ELSE LET v == Pfx(name, VirtLen)
           deep == IF v \in DOMAIN t.virt
                   THEN Probe(t, name, MinOf(t.virt[v], Len(name)), VirtLen + 1)
                   ELSE VirtLen
       IN IF deep > VirtLen THEN deep ELSE Probe(t, name, VirtLen, 0)

\* insertEntryEnc: a real entry if there is none, and its virtual entry.
InsertEntry(t, name) ==
  LET real == IF name \in DOMAIN t.real THEN t.real ELSE Put(t.real, name, EmptyEntry)
      v == Pfx(name, VirtLen)
      md == IF v \in DOMAIN t.virt THEN t.virt[v] ELSE 0
      names == IF v \in DOMAIN t.virtNames THEN t.virtNames[v] ELSE {}
  IN IF Len(name) < VirtLen THEN [t EXCEPT !.real = real]
     ELSE [real |-> real,
           virt |-> Put(t.virt, v, MaxOf(md, Len(name))),
           virtNames |-> Put(t.virtNames, v, names \cup {name})]

\* Mutant: a virtual entry that follows the name just pruned.
PruneTablesShallow(t, name) ==
  IF t.real[name] # EmptyEntry THEN t
  ELSE [real |-> Drop(t.real, name),
        virt |-> IF Len(name) >= VirtLen /\ Pfx(name, VirtLen) \in DOMAIN t.virt
                 THEN Put(t.virt, Pfx(name, VirtLen), Len(name) - 1) ELSE t.virt,
        virtNames |-> t.virtNames]

\* pruneTables: an entry without next hops and strategy goes, and with the last
\* name of a virtual prefix its virtual entry, if the name was as long as md:
\* md itself never shrinks.
PruneTables(t, name) ==
  IF t.real[name] # EmptyEntry THEN t
  ELSE LET real == Drop(t.real, name)
           v == Pfx(name, VirtLen)
       IN IF Len(name) < VirtLen \/ v \notin DOMAIN t.virt THEN [t EXCEPT !.real = real]
          ELSE LET rest == IF v \in DOMAIN t.virtNames THEN t.virtNames[v] \ {name} ELSE {}
               IN [real |-> real,
                   virt |-> IF Len(name) = t.virt[v] /\ rest = {}
                            THEN Drop(t.virt, v) ELSE t.virt,
                   virtNames |-> IF rest = {} THEN Drop(t.virtNames, v)
                                 ELSE Put(t.virtNames, v, rest)]

HashInsertNextHop(t, name, face, cost) ==
  [InsertEntry(t, name) EXCEPT !.real[name].hops[face] = cost]

HashClearNextHops(t, name) ==
  IF name \notin DOMAIN t.real THEN t
  ELSE PruneTables([t EXCEPT !.real[name].hops = NoHops], name)

\* Mutant: the strategy goes with the next hop.
HashRemoveBoth(t, name, face) ==
  IF name \notin DOMAIN t.real THEN t
  ELSE PruneTables([t EXCEPT !.real[name].hops[face] = Ignored,
                             !.real[name].strategy = NoStrategy], name)

\* Only a next hop that was there is removed, and only then is the entry pruned.
HashRemoveNextHop(t, name, face) ==
  IF name \notin DOMAIN t.real THEN t
  ELSE IF t.real[name].hops[face] = Ignored THEN t
  ELSE PruneTables([t EXCEPT !.real[name].hops[face] = Ignored], name)

HashSetStrategy(t, name, s) == [InsertEntry(t, name) EXCEPT !.real[name].strategy = s]

HashUnSetStrategy(t, name) ==
  IF name \notin DOMAIN t.real THEN t
  ELSE PruneTables([t EXCEPT !.real[name].strategy = NoStrategy], name)

\* From the length of the match back to the first entry with next hops.
HashFindNextHops(t, name) ==
  LET len == FindLongestPrefixMatch(t, name)
      has == {k \in 0..len : Pfx(name, k) \in DOMAIN t.real /\ t.real[Pfx(name, k)].hops # NoHops}
      k == StopAt(has, len, -1)
  IN IF k < 0 THEN NoHops ELSE t.real[Pfx(name, k)].hops

HashFindStrategy(t, name) ==
  LET len == FindLongestPrefixMatch(t, name)
      has == {k \in 0..len : /\ Pfx(name, k) \in DOMAIN t.real
                            /\ t.real[Pfx(name, k)].strategy # NoStrategy}
      k == StopAt(has, len, -1)
  IN IF k < 0 THEN NoStrategy ELSE t.real[Pfx(name, k)].strategy
=============================================================================
