------------------------------- MODULE LSMDB -------------------------------
(***************************************************************************)
(* The LSM database of lsmtree.cpp: a memory table that is written to a    *)
(* new file when it has SOME_THRESHOLD keys, and get() over the memory     *)
(* table and the files, in the order in which they were written.  A file   *)
(* may fail to open, for writing or for reading, and a write may fail.     *)
(*                                                                         *)
(* Keys and values are sequences of characters, of which ":" is one: a     *)
(* file holds lines key:value, and get() splits a line at its first ":".   *)
(***************************************************************************)
EXTENDS Naturals, Sequences, FiniteSetsExt

CONSTANTS Key, Value,     \* what callers put
          SOME_THRESHOLD, \* keys of the memory table that cause a flush
          MaxPuts,        \* bound: the number of puts
          NULL

\* Keys and values that the file format can hold: no ":" in a key, no empty
\* value; a value may hold ":".
Storable ==
  /\ Key \subseteq Seq(STRING) /\ Value \subseteq Seq(STRING) \ {<< >>}
  /\ \A k \in Key : \A i \in DOMAIN k : k[i] # ":"

VARIABLES memtable, \* the keys and values in memory
          ssTables, \* the files, oldest first: each a set of lines
          puts,     \* history: per key what was put, in order
          present,  \* history: the keys put and not deleted since
          lost      \* history: the keys whose line a failing write cut off or left out

vars == <<memtable, ssTables, puts, present, lost>>

Init ==
  /\ memtable = << >>
  /\ ssTables = << >>
  /\ puts = [k \in Key |-> << >>]
  /\ present = {}
  /\ lost = {}

(***************************************************************************)
(* get().  A line is split at its first ":"; a line without one, or with   *)
(* nothing after it, is skipped, since the second getline fails.  A file   *)
(* that does not open for reading is skipped, too.                         *)
(***************************************************************************)
FirstColon(line) == CHOOSE i \in DOMAIN line : line[i] = ":" /\ \A j \in 1 .. i - 1 : line[j] # ":"
CurKey(line) == SubSeq(line, 1, FirstColon(line) - 1)
CurValue(line) == SubSeq(line, FirstColon(line) + 1, Len(line))
Found(k, file) ==
  {line \in file : ":" \in Range(line) /\ CurKey(line) = k /\ CurValue(line) # << >>}

HeldIn(k) == {i \in DOMAIN ssTables : Found(k, ssTables[i]) # {}}

\* get() that looks at the files before the memory table.
GetFilesFirst(k, unread) ==
  LET hits == HeldIn(k) \ unread
      first == CHOOSE i \in hits : \A j \in hits : i <= j
  IN CASE hits # {} -> CurValue(CHOOSE line \in Found(k, ssTables[first]) : TRUE)
       [] hits = {} /\ k \in DOMAIN memtable -> memtable[k]
       [] OTHER -> NULL

Get(k, unread) ==
  LET hits == HeldIn(k) \ unread
      first == CHOOSE i \in hits : \A j \in hits : i <= j
  IN CASE k \in DOMAIN memtable -> memtable[k]
       [] k \notin DOMAIN memtable /\ hits # {} ->
            CurValue(CHOOSE line \in Found(k, ssTables[first]) : TRUE)
       [] OTHER -> NULL

MemPut(k, v) == [x \in DOMAIN memtable \cup {k} |-> IF x = k THEN v ELSE memtable[x]]

\* dumpToSSTable: one line per pair, then clear().  A stream that fails on the way
\* keeps the lines written so far and the beginning of the next; nobody looks.  The
\* order of the keys in the map is left open: any of them may be the ones written.
Line(k, v) == k \o <<":">> \o v
Lines(table, keys) == {Line(k, table[k]) : k \in keys}
CutLines(table, k) == {SubSeq(Line(k, table[k]), 1, n) : n \in 0 .. Len(k) + Len(table[k])}

\* flushMemTable that clears the table before it knows that the file is open.
FlushAlwaysClears(table) ==
  /\ memtable' = << >>
  /\ ssTables' = Append(ssTables, Lines(table, DOMAIN table)) \/ UNCHANGED ssTables
  /\ UNCHANGED lost

FlushMemTable(table) ==
  \/ /\ ssTables' = Append(ssTables, Lines(table, DOMAIN table))
     /\ memtable' = << >>
     /\ UNCHANGED lost
  \/ \* the file cannot be opened
     /\ memtable' = table
     /\ UNCHANGED <<ssTables, lost>>
  \/ \* a write fails
     /\ memtable' = << >>
     /\ \E whole \in SUBSET DOMAIN table : \E k \in DOMAIN table \ whole : \E cut \in CutLines(table, k) :
          ssTables' = Append(ssTables, Lines(table, whole) \cup {cut}) /\ lost' = lost \cup (DOMAIN table \ whole)

Put(k, v) ==
  /\ puts' = [puts EXCEPT ![k] = Append(@, v)]
  /\ present' = present \cup {k}
  /\ LET table == MemPut(k, v) IN
     IF Cardinality(DOMAIN table) >= SOME_THRESHOLD
     THEN FlushMemTable(table)
     ELSE memtable' = table /\ UNCHANGED <<ssTables, lost>>

\* del: the memory table only.
Del(k) ==
  /\ memtable' = [x \in DOMAIN memtable \ {k} |-> memtable[x]]
  /\ present' = present \ {k}
  /\ UNCHANGED <<ssTables, puts, lost>>

NumPuts == FoldSet(LAMBDA k, n : n + Len(puts[k]), 0, Key)

Next ==
  \/ \E k \in Key, v \in Value : NumPuts < MaxPuts /\ Put(k, v)
  \/ \E k \in Key : Del(k)

Spec == Init /\ [][Next]_vars

-----------------------------------------------------------------------------
LastPut(k) == puts[k][Len(puts[k])]

\* No put is lost by a flush whose file does not open, nor by the deletion and
\* return of its key.  A key that is there, and that no failing write has hit or
\* that is in memory, is found, unless every file that holds it fails to open; the
\* value is one that was put for it, and the last one if the key is in memory or
\* the newest file with the key is the only one to open.  (Two files with the key
\* and the older one's value comes back: the files are read oldest first.)
NoKeyLost ==
  \A k \in present : k \in DOMAIN memtable \/ k \notin lost =>
    \A unread \in SUBSET DOMAIN ssTables :
      LET value == Get(k, unread)
          held == HeldIn(k) \ unread
      IN \/ k \in DOMAIN memtable /\ value = LastPut(k)
         \/ held # {} /\ value \in Range(puts[k])
              /\ (held = {Max(HeldIn(k))} => value = LastPut(k))
         \/ held = {} /\ HeldIn(k) # {} /\ value = NULL
=============================================================================
