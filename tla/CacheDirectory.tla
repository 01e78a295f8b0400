--------------------------- MODULE CacheDirectory ---------------------------
(***************************************************************************)
(* The model of the cache directory the test bench keeps beside the cache: *)
(* the tag, the valid bit and the recently-used bit of every way of every  *)
(* set.  The scoreboard invalidates lines when it sees a cache management  *)
(* request, touches a line when it sees an access, and replaces a line     *)
(* when it sees the response of a miss.                                    *)
(***************************************************************************)
EXTENDS Integers

CONSTANTS Ways,   \* ways_m
          Sets,   \* sets_m
          Lines   \* the line numbers requested

ASSUME WaysAssumption == Ways \in Nat /\ Ways > 1
ASSUME SetsAssumption == Sets \in Nat \ {0}
ASSUME LinesAssumption == Lines \subseteq Nat

VARIABLES val,    \* val_m
          tag,    \* tag_m
          plru    \* plru_m

dirVars == <<val, tag, plru>>

Way == 0 .. Ways - 1
Set == 0 .. Sets - 1

getAddrSet(n) == n % Sets
getAddrTag(n) == n \div Sets
getNline(t, s) == t * Sets + s

\* The first way a scan from way 0 finds.
First(W) == CHOOSE w \in W : \A v \in W : w <= v

DirReset ==
  /\ val  = [s \in Set |-> [w \in Way |-> FALSE]]
  /\ tag  = [s \in Set |-> [w \in Way |-> 0]]
  /\ plru = [s \in Set |-> [w \in Way |-> FALSE]]

HitWays(n) ==
  LET s == getAddrSet(n) IN {w \in Way : val[s][w] /\ tag[s][w] = getAddrTag(n)}

Hit(n) == HitWays(n) # {}

\* Mutant: the bits of a set are not cleared when they all become set.
ReplUpdate_NoReset(bits, way) == [bits EXCEPT ![way] = TRUE]

\* The recently-used bits of a set after a use of one of its ways: when all of
\* them are set, all but that of the way just used are cleared.
ReplUpdate(bits, way) ==
  LET set == [bits EXCEPT ![way] = TRUE]
  IN  IF \A w \in Way : set[w] THEN [w \in Way |-> w = way] ELSE set

\* access() when it hits; a miss changes nothing.
DirAccess(n) ==
  LET s == getAddrSet(n)
  IN  /\ Hit(n)
      /\ plru' = [plru EXCEPT ![s] = ReplUpdate(@, First(HitWays(n)))]
      /\ UNCHANGED <<val, tag>>

\* The ways inval(addr) may clear: it compares the tag and not the valid bit.
TagWays(n) == {w \in Way : tag[getAddrSet(n)][w] = getAddrTag(n)}

DirInvalLine(n) ==
  /\ TagWays(n) # {}
  /\ val' = [val EXCEPT ![getAddrSet(n)][First(TagWays(n))] = FALSE]
  /\ UNCHANGED <<tag, plru>>

\* HPDCACHE_CMO_INVAL_SET_WAY, with the set of ways the data select
DirInvalSetWay(n, W) ==
  /\ val' = [val EXCEPT ![getAddrSet(n)] = [w \in Way |-> @[w] /\ w \notin W]]
  /\ UNCHANGED <<tag, plru>>

DirInvalAll ==
  /\ val' = [s \in Set |-> [w \in Way |-> FALSE]]
  /\ UNCHANGED <<tag, plru>>

InvalidWays(s) == {w \in Way : ~val[s][w]}
UnusedWays(s)  == {w \in Way : ~plru[s][w]}

\* Mutant: the scan for an empty way runs from the last way.
Victim_LastEmpty(s) ==
  IF InvalidWays(s) # {} THEN CHOOSE w \in InvalidWays(s) : \A v \in InvalidWays(s) : w >= v
                         ELSE First(UnusedWays(s))

\* The way that repl() replaces: an empty one, or one not recently used.
Victim(s) == IF InvalidWays(s) # {} THEN First(InvalidWays(s)) ELSE First(UnusedWays(s))

\* The response of a miss, which comes in one piece (the memory is as wide as a
\* line); the cache does not fetch a line that it holds.
DirRepl(n) ==
  LET s == getAddrSet(n)
      w == Victim(s)
  IN  /\ ~Hit(n)
      /\ InvalidWays(s) # {} \/ UnusedWays(s) # {}   \* else the assertion fails
      /\ val'  = [val EXCEPT ![s][w] = TRUE]
      /\ tag'  = [tag EXCEPT ![s][w] = getAddrTag(n)]
      /\ plru' = [plru EXCEPT ![s] = ReplUpdate(@, w)]

DirNext ==
  \/ \E n \in Lines : DirAccess(n) \/ DirInvalLine(n) \/ DirRepl(n)
  \/ \E n \in Lines, W \in SUBSET Way : DirInvalSetWay(n, W)
  \/ DirInvalAll

DirSpec == DirReset /\ [][DirNext]_dirVars

-----------------------------------------------------------------------------
(* Properties                                                              *)

DirTypeOK ==
  /\ val  \in [Set -> [Way -> BOOLEAN]]
  /\ tag  \in [Set -> [Way -> Nat]]
  /\ plru \in [Set -> [Way -> BOOLEAN]]

(* An invalidation by address takes: inval(addr) clears the first way with *)
(* the tag of the line, whether that way is valid or not, and returns.     *)
(* Whenever the line is in the directory, that way is the one, and the     *)
(* only one, that holds it; otherwise the line would go on hitting.        *)
DirInvalTakes ==
  \A n \in Lines : \A w \in HitWays(n) : w = First(TagWays(n))

(* repl() always finds a way: in a full set the recently-used bits are     *)
(* never all set ("error: all plru bits are set").                         *)
VictimExists == \A s \in Set : InvalidWays(s) # {} \/ UnusedWays(s) # {}
=============================================================================
