------------------------------ MODULE SetCache ------------------------------
(***************************************************************************)
(* IntegrationWithMacSim/src/cache.cc: the set-associative tag store of    *)
(* MacSim's instruction, data, last-level and constant caches and of its   *)
(* branch target buffer.  A last-level cache is split in tiles: each tile  *)
(* is a cache_c of its own, sees the addresses that the memory system      *)
(* sends to it and leaves the tile number out of its index.                *)
(***************************************************************************)
EXTENDS Integers, FiniteSets, FiniteSetsExt

CONSTANTS
    Addresses,         (* the addresses that are looked up                 *)
    m_line_size, m_num_sets, m_assoc, m_num_tiles, m_interleave_factor,
    Tile,              (* the tile that this cache is                      *)
    Network,           (* memory type l2_decoupled_network                 *)
    PseudoLRU,         (* KNOB_CACHE_USE_PSEUDO_LRU                        *)
    WriteEvict,        (* a GPU store takes its line out of the L1 cache   *)
    MaxCycle,          (* bound on the simulated cycles                    *)
    MaxCount           (* bound on the line counters                       *)

CacheAssumption ==
    /\ Addresses \subseteq Nat
    /\ {m_line_size, m_num_sets, m_assoc, m_num_tiles, m_interleave_factor}
           \subseteq Nat \ {0}
    /\ Tile \in 0 .. m_num_tiles - 1
    /\ {Network, PseudoLRU, WriteEvict} \subseteq BOOLEAN
    /\ {MaxCycle, MaxCount} \subseteq Nat

Sets == 0 .. m_num_sets - 1
Ways == 0 .. m_assoc - 1

(* log2_int rounds down.                                                   *)
log2_int(n) == Max({k \in 0 .. n : 2^k <= n})

(* BANK cuts log2_int(num) bits out of the address.                        *)
BANK(a, num, int) == (a \div 2^log2_int(int)) % 2^log2_int(num)

(* l2_decoupled_network_c::set_cache_id: the tile an address is sent to.   *)
(* With == binding before &, BANK is used only when there is one tile.     *)
network_cache_id(a) ==
    IF m_num_tiles = 1 THEN BANK(a, m_num_tiles, m_interleave_factor)
    ELSE (a \div 2^log2_int(m_interleave_factor)) % m_num_tiles

(* memory_c's and l2_decoupled_local_c's, for all other memory types.      *)
memory_cache_id(a) == BANK(a, m_num_tiles, m_interleave_factor)

set_cache_id(a) == IF Network THEN network_cache_id(a) ELSE memory_cache_id(a)

Mutant_mod_addr(a) ==
    ((a \div 2^log2_int(m_interleave_factor)) \div m_num_tiles)
        * 2^log2_int(m_interleave_factor)

(* The address with the tile number cut out of it: shifts when the number  *)
(* of tiles is a power of two and greater than one, a division otherwise.  *)
mod_addr(a) ==
    LET i == log2_int(m_interleave_factor)
        t == log2_int(m_num_tiles)
    IN  IF m_num_tiles = 1 THEN a
        ELSE IF 2^t = m_num_tiles
             THEN (a \div 2^(i + t)) * 2^i + (a % 2^i)
             ELSE ((a \div 2^i) \div m_num_tiles) * 2^i + (a % 2^i)

find_tag_and_set(a) ==
    LET l == mod_addr(a) \div 2^log2_int(m_line_size)
        mask == 2^log2_int(m_num_sets)
    IN  [tag |-> l - (l % mask), set |-> l % mask]

base_cache_line(a) == a - (a % 2^log2_int(m_line_size))

Mine == {a \in Addresses : set_cache_id(a) = Tile}

VARIABLES
    m_entry,  (* m_set[s]->m_entry[w]                                      *)
    num,      (* m_num_cpu_line and m_num_gpu_line                         *)
    cycle,    (* CYCLE                                                     *)
    used      (* history: when each line was last inserted or hit          *)

vars == <<m_entry, num, cycle, used>>

Invalid == [m_valid |-> FALSE, m_tag |-> 0, m_base |-> 0,
            m_last_access_time |-> 0, m_gpuline |-> FALSE]

Bases == {base_cache_line(a) : a \in Addresses}

Init ==
    /\ m_entry = [s \in Sets |-> [w \in Ways |-> Invalid]]
    /\ num = [gpu \in BOOLEAN |-> 0]
    /\ cycle = 1
    /\ used = [b \in Bases |-> 0]

Hits(a) == LET k == find_tag_and_set(a)
           IN  {w \in Ways : /\ m_entry[k.set][w].m_valid
                             /\ m_entry[k.set][w].m_tag = k.tag}

Touch(e) == [e EXCEPT !.m_last_access_time = cycle]
Mutant_update_line_on_hit(s, w) == m_entry
update_line_on_hit(s, w) == [m_entry EXCEPT ![s][w] = Touch(@)]

(* access_cache of a tile that finds the line; the first way that matches  *)
(* is the one returned.  A lookup that does not update leaves no trace.    *)
access_cache(a) ==
    /\ Hits(a) # {}
    /\ LET s == find_tag_and_set(a).set
           w == Min(Hits(a))
       IN  /\ m_entry' = update_line_on_hit(s, w)
           /\ used' = [used EXCEPT ![base_cache_line(a)] = cycle]
    /\ UNCHANGED <<num, cycle>>

(* find_replacement_line: the first invalid way, else the first of the     *)
(* least recently used ones.  With the pseudo LRU the first way that is    *)
(* invalid or whose time is zero; when there is none all times are zeroed. *)
(* (The code compares with times below 2^31 - 1: runs of so many cycles,   *)
(* where the first way would always be replaced, are not modelled.)        *)
Unused(set) == {w \in Ways : ~set[w].m_valid}
find_replacement_line(set) ==
    IF PseudoLRU
    THEN LET free == {w \in Ways : \/ ~set[w].m_valid
                                   \/ set[w].m_last_access_time = 0}
         IN  IF free # {} THEN Min(free) ELSE 0
    ELSE IF Unused(set) # {} THEN Min(Unused(set))
    ELSE Min({w \in Ways : \A v \in Ways :
                 set[w].m_last_access_time <= set[v].m_last_access_time})

(* The times that the pseudo LRU leaves behind.                            *)
Aged(set) ==
    IF /\ PseudoLRU
       /\ \A w \in Ways : set[w].m_valid /\ set[w].m_last_access_time # 0
    THEN [w \in Ways |-> [set[w] EXCEPT !.m_last_access_time = 0]]
    ELSE set

Replaced(old) ==
    IF old.m_valid THEN [num EXCEPT ![old.m_gpuline] = @ - 1] ELSE num

(* insert_cache with update_set_on_replacement and initialize_cache_line.  *)
(* cache.h: to be used only after access_cache returned NULL.              *)
insert_cache(a, gpuline) ==
    /\ Hits(a) = {} /\ num[gpuline] < MaxCount
    /\ LET k == find_tag_and_set(a)
           w == find_replacement_line(m_entry[k.set])
       IN  /\ m_entry' = [m_entry EXCEPT ![k.set] =
                  [Aged(@) EXCEPT ![w] =
                      [m_valid |-> TRUE, m_tag |-> k.tag,
                       m_base |-> base_cache_line(a),
                       m_last_access_time |-> cycle, m_gpuline |-> gpuline]]]
           /\ num' = [Replaced(m_entry[k.set][w]) EXCEPT ![gpuline] = @ + 1]
           /\ used' = [used EXCEPT ![base_cache_line(a)] = cycle]
    /\ UNCHANGED cycle

(* invalidate_cache_line and null_cache_line_fields, which clears tag,     *)
(* base and valid bit.                                                     *)
invalidate_cache_line(a) ==
    /\ WriteEvict
    /\ Hits(a) # {}
    /\ LET s == find_tag_and_set(a).set
       IN  m_entry' = [m_entry EXCEPT ![s][Min(Hits(a))] =
               [@ EXCEPT !.m_valid = FALSE, !.m_tag = 0, !.m_base = 0]]
    /\ UNCHANGED <<num, cycle, used>>

Tick == /\ cycle < MaxCycle
        /\ cycle' = cycle + 1
        /\ UNCHANGED <<m_entry, num, used>>

Next ==
    \/ \E a \in Mine : \/ access_cache(a)
                       \/ \E g \in BOOLEAN : insert_cache(a, g)
                       \/ invalidate_cache_line(a)
    \/ Tick

Spec == Init /\ [][Next]_vars

-----------------------------------------------------------------------------

Entries == [m_valid : BOOLEAN, m_tag : Nat, m_base : Nat,
            m_last_access_time : 0 .. MaxCycle, m_gpuline : BOOLEAN]

(* The entries are records of cache_entry_c, the counters are numbers.     *)
TypeOK ==
    /\ m_entry \in [Sets -> [Ways -> Entries]]
    /\ num \in [BOOLEAN -> Nat]
    /\ cycle \in 1 .. MaxCycle
    /\ used \in [Bases -> 0 .. MaxCycle]

(* The tile by which find_tag_and_set divides an address.                  *)
DividedTile(a) == (a \div 2^log2_int(m_interleave_factor)) % m_num_tiles

(* The memory system's tile is the one that the index leaves out: always   *)
(* on the network, else when the number of tiles is a power of two.        *)
TilesAgree == Network \/ 2^log2_int(m_num_tiles) = m_num_tiles

(* A lookup never hits on another line: the index that find_tag_and_set    *)
(* computes without the tile number still tells apart all the lines that   *)
(* the memory system sends to this tile.  Where set_cache_id rounds the    *)
(* number of tiles down to a power of two and the index does not, lines    *)
(* are taken for each other; but only lines that differ in the tile that   *)
(* the index leaves out.                                                   *)
HitIsOwnLine ==
    \A a \in Mine : \A w \in Hits(a) :
        LET base == m_entry[find_tag_and_set(a).set][w].m_base IN
        \/ base = base_cache_line(a)
        \/ ~TilesAgree /\ DividedTile(base) # DividedTile(a)

(* insert_cache drops a line only from a full set, and only when every     *)
(* line that stays was inserted or hit in the same cycle or later.         *)
LeastRecentlyUsed ==
    \A s \in Sets, w \in Ways :
        LET old == m_entry[s][w]
            new == m_entry'[s][w]
        IN  old.m_valid /\ new.m_valid /\ old.m_base # new.m_base
            => \A v \in Ways \ {w} :
                   /\ m_entry[s][v].m_valid
                   /\ used[old.m_base] <= used[m_entry[s][v].m_base]

=============================================================================
