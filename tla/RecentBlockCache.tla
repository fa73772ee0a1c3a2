-------------------------- MODULE RecentBlockCache --------------------------
(***************************************************************************)
(* The cache of liquidity (crates/shared/src/recent_block_cache.rs) and    *)
(* the sharing of its requests (crates/shared/src/request_sharing.rs).     *)
(* Clients ask for the value of a key at the published block or at a       *)
(* recent one; a task updates recently used keys at every published block  *)
(* and removes old entries.  Nothing is locked while a request is out.     *)
(*                                                                         *)
(* The value of a key at block n is {n}; {} is the answer of a request     *)
(* that failed, which the cache does not tell from a key without values.   *)
(***************************************************************************)
EXTENDS BlockStream, Sequences, FiniteSets

CONSTANTS
  Key, Client,
  number_of_blocks_to_cache, number_of_entries_to_auto_update, maximum_recent_block_age,
  MaxRequests   \* bound: requests of clients

ASSUME CacheAssumption ==
  /\ number_of_blocks_to_cache \in Nat \ {0}
  /\ number_of_entries_to_auto_update \in Nat \ {0}
  /\ {maximum_recent_block_age, MaxRequests} \subseteq Nat

VARIABLES
  recently_used,                   \* keys, the least recently used one first
  cached_most_recently_at_block,   \* key -> block, 0 without
  entries,                         \* block -> key -> {values}, {} without an entry
  last_update_block,
  update,    \* the background task: block, keys it asked for, values it got
  request,   \* client -> its request
  taken,     \* block the background task took from the stream last
  warm,      \* history: keys of the last update
  requests   \* requests so far

cache == <<recently_used, cached_most_recently_at_block, entries, last_update_block>>
vars == <<head, published, failures, recently_used, cached_most_recently_at_block, entries, last_update_block,
          update, request, taken, warm, requests>>

Number == 1..MaxBlocks
Recent == 0

NoValues == [k \in Key |-> {}]
NoUpdate == [block |-> 0, keys |-> {}, got |-> NoValues]
NoRequest == [pc |-> "idle", key |-> {}, block |-> 0, at |-> 0, since |-> 0, values |-> {},
              seen |-> [k \in Key |-> 0]]

Init ==
  /\ StreamInit
  /\ recently_used = <<>>
  /\ cached_most_recently_at_block = [k \in Key |-> 0]
  /\ entries = [b \in Number |-> NoValues]
  /\ last_update_block = published.number
  /\ update = NoUpdate /\ taken = 0 /\ warm = {} /\ requests = 0
  /\ request = [c \in Client |-> NoRequest]

KeysOf(s) == {s[n] : n \in DOMAIN s}

\* A key is used once: it moves to the end, or the first one makes room for it.
cache_set(used, k) ==
  LET at == CHOOSE n \in DOMAIN used : used[n] = k
      others == IF k \in KeysOf(used)
                THEN SubSeq(used, 1, at - 1) \o SubSeq(used, at + 1, Len(used)) ELSE used
  IN  Append(IF Len(others) < number_of_entries_to_auto_update THEN others ELSE Tail(others), k)

\* Mutant of LookupBlock: any cached block counts as recent.
LookupBlockAnyAge(k, block) ==
  IF block # Recent THEN block ELSE cached_most_recently_at_block[k]

\* Mutant of LookupBlock: the first entry that is recent enough is taken.
LookupFirstBlock(k, block) ==
  LET recent == {n \in Number : entries[n][k] # {}
                                /\ last_update_block - n <= maximum_recent_block_age}
  IN  IF block # Recent THEN block
      ELSE IF recent = {} THEN 0 ELSE CHOOSE n \in recent : \A x \in recent : n <= x

\* The block Mutexed::get looks at, 0 for none.
LookupBlock(k, block) ==
  LET cached == cached_most_recently_at_block[k]
  IN  IF block # Recent THEN block
      ELSE IF last_update_block - cached <= maximum_recent_block_age THEN cached ELSE 0

\* {} for a miss, else the set with the values of the entry.
Lookup(k, block) ==
  LET at == LookupBlock(k, block) IN IF at = 0 THEN {} ELSE entries[at][k]

\* Mutexed::insert.
most_recently(block, keys) ==
  [k \in Key |-> IF k \in keys /\ block > cached_most_recently_at_block[k]
                 THEN block ELSE cached_most_recently_at_block[k]]

inserted(block, keys, values) ==
  [entries EXCEPT ![block] = [k \in Key |-> IF k \in keys THEN {values[k]} ELSE @[k]]]

\* Requests that are out: what shared_or_else finds in flight.
InFlight ==
  {<<k, update.block>> : k \in {x \in update.keys : update.got[x] = {}}}
    \cup {<<request[c].key, request[c].at>> : c \in {x \in Client : request[x].pc = "waiting"}}

----------------------------------------------------------------------------
(* Clients.                                                                *)

Answer(c, values, r) ==
  request' = [request EXCEPT ![c] =
    [r EXCEPT !.pc = "answered", !.values = values,
              !.seen[r.key] = IF r.block = Recent /\ values # {}
                              THEN CHOOSE n \in values : TRUE ELSE @]]

\* Inner::fetch up to the first await: a hit is the answer, a miss asks the node.
Fetch(c, k, block) ==
  LET found == Lookup(k, block)
      r == [request[c] EXCEPT !.pc = "waiting", !.key = k, !.block = block,
              !.at = IF block = Recent THEN last_update_block ELSE block,
              !.since = last_update_block, !.values = {}]
  IN  /\ request[c].pc \in {"idle", "answered"}
      /\ requests < MaxRequests /\ requests' = requests + 1
      /\ block \in {Recent, published.number}
      /\ IF found = {}
         THEN request' = [request EXCEPT ![c] = r] /\ UNCHANGED recently_used
         ELSE LET values == CHOOSE v \in found : TRUE
              IN  /\ Answer(c, values, r)
                  /\ recently_used' = IF block # Recent /\ values # {}
                                      THEN cache_set(recently_used, k) ELSE recently_used
      /\ UNCHANGED <<stream, cached_most_recently_at_block, entries, last_update_block, update,
                     taken, warm>>

\* Mutant of Deliver: requests are shared by key whatever their block is.
DeliverByKey(k, block, values) ==
  /\ <<k, block>> \in InFlight
  /\ request' = [c \in Client |->
       IF request[c].pc = "waiting" /\ request[c].key = k
       THEN [request[c] EXCEPT !.pc = "got", !.values = values] ELSE request[c]]
  /\ update' = IF update.block = block /\ k \in update.keys
               THEN [update EXCEPT !.got[k] = {values}] ELSE update
  /\ UNCHANGED <<head, published, cache, taken, warm, requests>>

\* A shared request ends: all that wait for it get its result.
Deliver(k, block, values) ==
  /\ <<k, block>> \in InFlight
  /\ request' = [c \in Client |->
       IF request[c].pc = "waiting" /\ request[c].key = k /\ request[c].at = block
       THEN [request[c] EXCEPT !.pc = "got", !.values = values] ELSE request[c]]
  /\ update' = IF update.block = block /\ k \in update.keys
               THEN [update EXCEPT !.got[k] = {values}] ELSE update
  /\ UNCHANGED <<head, published, cache, taken, warm, requests>>

NodeAnswers(k, block) == Deliver(k, block, {block}) /\ UNCHANGED failures

\* All retries of fetch_inner have failed.
NodeFails(k, block) == Fails /\ Deliver(k, block, {})

\* Mutant of FinishFetch: the newest fetch is taken for the most recent block.
FinishFetchLast(c) ==
  LET r == request[c] IN
  /\ r.pc = "got"
  /\ cached_most_recently_at_block' = [cached_most_recently_at_block EXCEPT ![r.key] = r.at]
  /\ entries' = inserted(r.at, {r.key}, [NoValues EXCEPT ![r.key] = r.values])
  /\ recently_used' = IF r.block # Recent /\ r.values # {}
                      THEN cache_set(recently_used, r.key) ELSE recently_used
  /\ Answer(c, r.values, r)
  /\ UNCHANGED <<stream, last_update_block, update, taken, warm, requests>>

\* The rest of fetch: values enter the cache at the block they were asked for,
\* whatever happened since.
FinishFetch(c) ==
  LET r == request[c] IN
  /\ r.pc = "got"
  /\ cached_most_recently_at_block' = most_recently(r.at, {r.key})
  /\ entries' = inserted(r.at, {r.key}, [NoValues EXCEPT ![r.key] = r.values])
  /\ recently_used' = IF r.block # Recent /\ r.values # {}
                      THEN cache_set(recently_used, r.key) ELSE recently_used
  /\ Answer(c, r.values, r)
  /\ UNCHANGED <<stream, last_update_block, update, taken, warm, requests>>

----------------------------------------------------------------------------
(* The background task.                                                    *)

StartUpdate ==
  /\ update = NoUpdate
  /\ published.number # taken
  /\ taken' = published.number
  /\ update' = [block |-> published.number, keys |-> KeysOf(recently_used), got |-> NoValues]
  /\ UNCHANGED <<stream, cache, request, warm, requests>>

\* remove_cached_blocks_older_than, first part: of what is left after the removal of
\* old blocks, a key keeps its newest entry, unless that is empty.
Collected(all, oldest) ==
  [b \in Number |-> [k \in Key |->
     IF b >= oldest /\ all[b][k] # {{}} /\ \A n \in b + 1 .. MaxBlocks : all[n][k] = {}
     THEN all[b][k] ELSE {}]]

\* The end of update_cache_at_block.
FinishUpdate ==
  LET b == update.block
      all == inserted(b, update.keys, [k \in Key |-> UNION update.got[k]])
      oldest == b - (number_of_blocks_to_cache - 1)
      recent == most_recently(b, update.keys)
  IN  /\ update # NoUpdate
      /\ \A k \in update.keys : update.got[k] # {}
      /\ entries' = Collected(all, oldest)
      /\ cached_most_recently_at_block' = [k \in Key |-> IF recent[k] >= oldest THEN recent[k] ELSE 0]
      /\ last_update_block' = b
      /\ warm' = update.keys
      /\ update' = NoUpdate
      /\ UNCHANGED <<stream, recently_used, request, taken, requests>>

Next ==
  \/ ((\E number \in Number : NewHead(number)) \/ Poll)
       /\ UNCHANGED <<cache, update, request, taken, warm, requests>>
  \/ \E c \in Client, k \in Key, block \in {Recent, published.number} : Fetch(c, k, block)
  \/ \E k \in Key, block \in Number : NodeAnswers(k, block) \/ NodeFails(k, block)
  \/ \E c \in Client : FinishFetch(c)
  \/ StartUpdate
  \/ FinishUpdate

Spec == Init /\ [][Next]_vars

----------------------------------------------------------------------------
(* Properties.                                                             *)

\* An answer about a certain block holds values of that block only, however requests
\* were shared and whatever was updated or removed while they were out.
PinnedAnswers ==
  \A c \in Client : request[c].pc = "answered" /\ request[c].block # Recent
    => request[c].values \subseteq {request[c].block}

\* An answer about a recent block is not older than maximum_recent_block_age, seen
\* from the last update before the question.
RecentIsRecent ==
  \A c \in Client : request[c].pc = "answered" /\ request[c].block = Recent
    => \A n \in request[c].values : n >= request[c].since - maximum_recent_block_age

\* A client that asks for the recent value of a key again does not go back in time,
\* as long as no request failed.
RecentNeverGoesBack ==
  [][failures = 0 => \A c \in Client, k \in Key : request'[c].seen[k] >= request[c].seen[k]]_vars

\* Keys of the last update are answered from the cache: no fetch that was out during
\* the update, nor its removal of old entries, takes them away again.
UpdatedKeysStayWarm == failures = 0 => \A k \in warm : Lookup(k, Recent) # {}
============================================================================
