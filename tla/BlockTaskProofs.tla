-------------------------- MODULE BlockTaskProofs --------------------------
(***************************************************************************)
(* Proofs about the tasks that follow the chain: RecentBlockCache for any  *)
(* keys, clients and blocks, ServiceMaintenance for any maintainers, and   *)
(* SettlementUpdater for any tables, auctions and solvers.                 *)
(***************************************************************************)
EXTENDS RecentBlockCache, ServiceMaintenance, SettlementUpdater, TLAPS

----------------------------------------------------------------------------
(* RecentBlockCache: the cache of liquidity and its background update.     *)

\* The answer of the node about block b, or of a request that failed.
Answers(b) == {{b}, {}}

Requests == [pc : {"idle", "waiting", "got", "answered"}, key : Key \cup {{}},
             block : Nat, at : Nat, since : Nat, values : SUBSET Nat, seen : [Key -> Nat]]

TypeInv ==
  /\ head \in [number : Number, hash : Nat] /\ published \in [number : Number, hash : Nat]
  /\ failures \in Nat
  /\ recently_used \in Seq(Key)
  /\ cached_most_recently_at_block \in [Key -> Number \cup {0}]
  /\ entries \in [Number -> [Key -> SUBSET SUBSET Nat]]
  /\ last_update_block \in Number
  /\ update \in [block : Number \cup {0}, keys : SUBSET Key, got : [Key -> SUBSET SUBSET Nat]]
  /\ update # NoUpdate => update.block \in Number
  /\ request \in [Client -> Requests]
  /\ taken \in Nat /\ warm \in SUBSET Key /\ requests \in Nat

\* What was got from the node is about the block that was asked for.
EntriesInv == \A b \in Number, k \in Key : entries[b][k] \in {{}} \cup {{v} : v \in Answers(b)}
UpdateInv ==
  \A k \in Key : update.got[k] \in {{}} \cup {{v} : v \in Answers(update.block)}

\* A request is about its block, or about the last update before the question.
RequestInv ==
  \A c \in Client : LET r == request[c] IN
    /\ r.pc # "idle" => r.key \in Key
    /\ r.pc \in {"waiting", "got"} =>
         r.at \in Number /\ r.at = IF r.block = Recent THEN r.since ELSE r.block
    /\ r.pc = "got" => r.values \in Answers(r.at)

\* Blocks are published, taken and updated in this order.
InOrder ==
  /\ last_update_block <= published.number
  /\ update # NoUpdate => last_update_block <= update.block /\ update.block <= published.number

\* The inductive invariant of the answers.
IInv ==
  /\ TypeInv
  /\ EntriesInv /\ UpdateInv /\ RequestInv
  /\ InOrder
  /\ PinnedAnswers
  /\ RecentIsRecent

\* While nothing fails, cached_most_recently_at_block is the newest entry of a key.
NewestIsCached ==
  \A k \in Key : LET b == cached_most_recently_at_block[k] IN
    /\ b # 0 => entries[b][k] # {}
    /\ \A n \in Number : n > b => entries[n][k] = {}

\* While nothing fails, no answer is empty.
AllAnswered ==
  /\ \A b \in Number, k \in Key : {} \notin entries[b][k]
  /\ \A k \in Key : {} \notin update.got[k]
  /\ \A c \in Client : request[c].pc = "got" => request[c].values # {}

\* The last update left its keys at its block or a later one.
WarmInv == \A k \in warm : cached_most_recently_at_block[k] >= last_update_block

\* The inductive invariant of the warm keys.
WInv ==
  /\ IInv
  /\ failures = 0 => NewestIsCached /\ AllAnswered
  /\ WarmInv

\* What a client has seen is cached, or older than any hit from now on.
SeenInv ==
  \A c \in Client, k \in Key :
    \/ request[c].seen[k] <= cached_most_recently_at_block[k]
    \/ request[c].seen[k] < last_update_block - maximum_recent_block_age

\* A recent block that a client waits for is not older than what it has seen.
WaitInv ==
  failures = 0 =>
    \A c \in Client : request[c].pc \in {"waiting", "got"} /\ request[c].block = Recent =>
      request[c].seen[request[c].key] <= request[c].at

\* The inductive invariant of the order of recent answers.
SInv == WInv /\ SeenInv /\ WaitInv

----------------------------------------------------------------------------
(* Operators.                                                              *)

\* Block numbers are positive.
LEMMA NumberNat ==
  /\ \A n \in Number : n \in Nat /\ n # 0
  /\ \A n \in Number \cup {0} : n \in Nat
BY StreamBounds DEF Number

\* What cache_set leaves in the list of recently used keys are keys.
LEMMA CacheSetType ==
  ASSUME NEW used \in Seq(Key), NEW k \in Key
  PROVE  cache_set(used, k) \in Seq(Key)
<1> DEFINE at == CHOOSE n \in DOMAIN used : used[n] = k
           others == IF k \in KeysOf(used)
                     THEN SubSeq(used, 1, at - 1) \o SubSeq(used, at + 1, Len(used)) ELSE used
<1>1. others \in Seq(Key)
  <2>1. CASE k \in KeysOf(used)
    <3>1. at \in DOMAIN used
      BY <2>1 DEF KeysOf
    <3> HIDE DEF at
    <3> QED
      BY <2>1, <3>1
  <2> QED
    BY <2>1
<1> HIDE DEF others
<1>2. Len(others) < number_of_entries_to_auto_update \/ others # <<>>
  BY <1>1, CacheAssumption
<1>3. (IF Len(others) < number_of_entries_to_auto_update THEN others ELSE Tail(others)) \in Seq(Key)
  BY <1>1, <1>2
<1>4. cache_set(used, k)
        = Append(IF Len(others) < number_of_entries_to_auto_update THEN others ELSE Tail(others), k)
  BY DEF cache_set, others
<1> QED
  BY <1>3, <1>4

\* A hit is the value of one block: the one asked for, or a recent one.
LEMMA LookupHit ==
  ASSUME TypeInv, EntriesInv, NEW k \in Key, NEW block \in {Recent, published.number},
         Lookup(k, block) # {}
  PROVE  \E b \in Number :
           /\ (CHOOSE v \in Lookup(k, block) : TRUE) \in Answers(b)
           /\ (CHOOSE v \in Lookup(k, block) : TRUE) \in entries[b][k]
           /\ block # Recent => b = block
           /\ block = Recent => /\ b = cached_most_recently_at_block[k]
                                /\ b >= last_update_block - maximum_recent_block_age
<1> DEFINE b == LookupBlock(k, block)
<1>1. b \in Number /\ Lookup(k, block) = entries[b][k]
  BY CacheAssumption DEF Lookup, LookupBlock, TypeInv, Recent
<1>2. PICK v \in Answers(b) : entries[b][k] = {v}
  BY <1>1 DEF EntriesInv
<1>3. (CHOOSE x \in Lookup(k, block) : TRUE) = v
  BY <1>1, <1>2
<1>4. /\ block # Recent => b = block
      /\ block = Recent => /\ b = cached_most_recently_at_block[k]
                           /\ b >= last_update_block - maximum_recent_block_age
  BY <1>1, CacheAssumption DEF LookupBlock, TypeInv, Number
<1> HIDE DEF b
<1> QED
  BY <1>1, <1>2, <1>3, <1>4

\* What an answer changes.
LEMMA AnswerIs ==
  ASSUME TypeInv, NEW c \in Client, NEW r \in Requests, r.key \in Key,
         NEW b \in Number, NEW values \in Answers(b), Answer(c, values, r)
  PROVE  /\ request' \in [Client -> Requests]
         /\ \A d \in Client : d # c => request'[d] = request[d]
         /\ request'[c].pc = "answered" /\ request'[c].values = values
         /\ request'[c].key = r.key /\ request'[c].block = r.block
         /\ request'[c].since = r.since
         /\ \A k \in Key : request'[c].seen[k] =
              IF k = r.key /\ r.block = Recent /\ values # {} THEN b ELSE r.seen[k]
<1> DEFINE n == CHOOSE x \in values : TRUE
           new == [r EXCEPT !.pc = "answered", !.values = values,
                     !.seen[r.key] = IF r.block = Recent /\ values # {} THEN n ELSE @]
<1>1. values # {} => n = b
  BY DEF Answers
<1>2. b \in Nat /\ values \in SUBSET Nat
  BY StreamBounds DEF Answers, Number
<1>3. request' = [request EXCEPT ![c] = new]
  BY DEF Answer
<1> HIDE DEF n
<1>4. /\ new \in Requests
      /\ new.pc = "answered" /\ new.values = values /\ new.key = r.key /\ new.block = r.block
      /\ new.since = r.since
      /\ \A k \in Key : new.seen[k] =
           IF k = r.key /\ r.block = Recent /\ values # {} THEN b ELSE r.seen[k]
  BY <1>1, <1>2 DEF Requests
<1> HIDE DEF new
<1> QED
  BY <1>3, <1>4 DEF TypeInv

----------------------------------------------------------------------------
(* Answers hold values of the block that was asked for.                    *)

\* The cache starts empty, at the first block.
LEMMA InitIInv == Init => IInv
<1> SUFFICES ASSUME Init PROVE IInv
  OBVIOUS
<1> USE DEF Init, StreamInit, Genesis, NoUpdate, NoValues, NoRequest
<1>1. 1 \in Number
  BY StreamBounds DEF Number
<1>2. TypeInv
  BY <1>1 DEF TypeInv, Requests
<1>3. EntriesInv /\ UpdateInv /\ RequestInv /\ InOrder /\ PinnedAnswers /\ RecentIsRecent
  BY <1>1 DEF EntriesInv, UpdateInv, RequestInv, InOrder, PinnedAnswers, RecentIsRecent, Number
<1> QED
  BY <1>2, <1>3 DEF IInv

\* The block stream moves on: nothing of the cache changes.
LEMMA StreamIInv ==
  ASSUME IInv, (\E number \in Number : NewHead(number)) \/ Poll,
         UNCHANGED <<cache, update, request, taken, warm, requests>>
  PROVE  IInv' /\ UNCHANGED failures
<1> USE DEF cache
<1>1. /\ head' \in [number : Number, hash : Nat] /\ published' \in [number : Number, hash : Nat]
      /\ published.number <= published'.number /\ UNCHANGED failures
  BY DEF NewHead, Poll, IInv, TypeInv, Number
<1>2. TypeInv'
  BY <1>1 DEF IInv, TypeInv, NoUpdate, NoValues
<1>3. InOrder'
  BY <1>1 DEF IInv, InOrder, TypeInv, NoUpdate, NoValues, Number
<1>4. EntriesInv' /\ UpdateInv' /\ RequestInv' /\ PinnedAnswers' /\ RecentIsRecent'
  BY DEF IInv, EntriesInv, UpdateInv, RequestInv, PinnedAnswers, RecentIsRecent
<1> QED
  BY <1>1, <1>2, <1>3, <1>4 DEF IInv

\* A miss asks the node, about the last update if any recent block will do; a hit is
\* the answer.
LEMMA FetchIs ==
  ASSUME TypeInv, EntriesInv, NEW c \in Client, NEW k \in Key,
         NEW block \in {Recent, published.number}, Fetch(c, k, block)
  PROVE  /\ UNCHANGED <<stream, cached_most_recently_at_block, entries, last_update_block, update,
                        taken, warm>>
         /\ requests' \in Nat /\ recently_used' \in Seq(Key)
         /\ request' \in [Client -> Requests]
         /\ \A d \in Client : d # c => request'[d] = request[d]
         /\ request'[c].key = k /\ request'[c].block = block
         /\ request'[c].since = last_update_block
         /\ \/ /\ Lookup(k, block) = {} /\ request'[c].pc = "waiting"
               /\ request'[c].at \in Number
               /\ request'[c].at = IF block = Recent THEN last_update_block ELSE block
               /\ request'[c].seen = request[c].seen
            \/ /\ request'[c].pc = "answered"
               /\ \E b \in Number :
                    /\ request'[c].values \in Answers(b)
                    /\ block # Recent => b = block
                    /\ block = Recent => /\ b = cached_most_recently_at_block[k]
                                         /\ b >= last_update_block - maximum_recent_block_age
                    /\ \A x \in Key : request'[c].seen[x] =
                         IF x = k /\ block = Recent /\ request'[c].values # {}
                         THEN b ELSE request[c].seen[x]
<1> DEFINE r == [request[c] EXCEPT !.pc = "waiting", !.key = k, !.block = block,
              !.at = IF block = Recent THEN last_update_block ELSE block,
              !.since = last_update_block, !.values = {}]
<1>0. Number \subseteq Nat /\ 0 \notin Number
  BY StreamBounds DEF Number
<1>1. /\ r \in Requests /\ r.key = k /\ r.block = block /\ r.since = last_update_block
      /\ r.at \in Number /\ r.at = (IF block = Recent THEN r.since ELSE r.block)
      /\ r.pc = "waiting" /\ r.seen = request[c].seen
  <2>1. /\ request[c] \in Requests /\ last_update_block \in Number
        /\ block = Recent \/ block \in Number
    BY DEF TypeInv
  <2>2. PICK at \in Number : at = IF block = Recent THEN last_update_block ELSE block
    BY <2>1
  <2>3. last_update_block \in Nat /\ block \in Nat /\ at \in Nat
    BY <1>0, <2>1, <2>2 DEF Recent
  <2>4. r = [request[c] EXCEPT !.pc = "waiting", !.key = k, !.block = block, !.at = at,
               !.since = last_update_block, !.values = {}]
    BY <2>2
  <2> HIDE DEF r
  <2> QED
    BY <2>1, <2>2, <2>3, <2>4 DEF Requests
<1>2. /\ UNCHANGED <<stream, cached_most_recently_at_block, entries, last_update_block, update,
                     taken, warm>>
      /\ requests' \in Nat
  BY CacheAssumption DEF Fetch, TypeInv
<1>3. CASE Lookup(k, block) = {}
  <2>1. request' = [request EXCEPT ![c] = r] /\ UNCHANGED recently_used
    BY <1>3 DEF Fetch, r
  <2> HIDE DEF r
  <2> QED
    BY <1>1, <1>2, <1>3, <2>1 DEF TypeInv
<1>4. CASE Lookup(k, block) # {}
  <2> DEFINE values == CHOOSE v \in Lookup(k, block) : TRUE
  <2>1. PICK b \in Number :
          /\ values \in Answers(b)
          /\ block # Recent => b = block
          /\ block = Recent => /\ b = cached_most_recently_at_block[k]
                               /\ b >= last_update_block - maximum_recent_block_age
    BY <1>4, LookupHit
  <2>2. Answer(c, values, r)
    BY <1>4 DEF Fetch
  <2>3. recently_used' \in {recently_used, cache_set(recently_used, k)}
    BY <1>4 DEF Fetch
  <2> HIDE DEF r, values
  <2>4. /\ request' \in [Client -> Requests]
        /\ \A d \in Client : d # c => request'[d] = request[d]
        /\ request'[c].pc = "answered" /\ request'[c].values = values
        /\ request'[c].key = k /\ request'[c].block = block
        /\ request'[c].since = last_update_block
        /\ \A x \in Key : request'[c].seen[x] =
             IF x = k /\ block = Recent /\ values # {} THEN b ELSE request[c].seen[x]
    BY <1>1, <2>1, <2>2, AnswerIs
  <2>5. recently_used' \in Seq(Key)
    BY <2>3, CacheSetType DEF TypeInv
  <2> QED
    BY <1>2, <2>1, <2>4, <2>5
<1> QED
  BY <1>3, <1>4

\* fetch: a hit is answered from an entry for its block, a miss waits for the node.
LEMMA FetchIInv ==
  ASSUME IInv, NEW c \in Client, NEW k \in Key, NEW block \in {Recent, published.number},
         Fetch(c, k, block)
  PROVE  IInv'
<1>1. /\ UNCHANGED <<stream, cached_most_recently_at_block, entries, last_update_block, update,
                     taken, warm>>
      /\ requests' \in Nat /\ recently_used' \in Seq(Key)
      /\ request' \in [Client -> Requests]
      /\ \A d \in Client : d # c => request'[d] = request[d]
      /\ request'[c].key = k /\ request'[c].block = block
      /\ request'[c].since = last_update_block
  BY FetchIs DEF IInv
<1>2. \/ /\ request'[c].pc = "waiting"
         /\ request'[c].at \in Number
         /\ request'[c].at = IF block = Recent THEN last_update_block ELSE block
      \/ /\ request'[c].pc = "answered"
         /\ \E b \in Number :
              /\ request'[c].values \in Answers(b)
              /\ block # Recent => b = block
              /\ block = Recent => b >= last_update_block - maximum_recent_block_age
  BY FetchIs DEF IInv
<1>3. TypeInv'
  BY <1>1 DEF IInv, TypeInv, stream, NoUpdate, NoValues
<1>4. EntriesInv' /\ UpdateInv' /\ InOrder'
  BY <1>1 DEF IInv, EntriesInv, UpdateInv, InOrder, stream, NoUpdate, NoValues
<1>5. RequestInv'
  BY <1>1, <1>2 DEF IInv, RequestInv
<1>6. PinnedAnswers' /\ RecentIsRecent'
  BY <1>1, <1>2 DEF IInv, PinnedAnswers, RecentIsRecent, Answers
<1> QED
  BY <1>3, <1>4, <1>5, <1>6 DEF IInv

\* Only what asked for this key and block gets the answer.
LEMMA DeliverIs ==
  ASSUME TypeInv, NEW k \in Key, NEW block \in Number, NEW values \in Answers(block),
         Deliver(k, block, values)
  PROVE  /\ UNCHANGED <<head, published, cache, taken, warm, requests>>
         /\ update'.block = update.block /\ update'.keys = update.keys
         /\ update' \in [block : Number \cup {0}, keys : SUBSET Key, got : [Key -> SUBSET SUBSET Nat]]
         /\ \A x \in Key : update'.got[x] = update.got[x]
                           \/ (update.block = block /\ update'.got[x] = {values})
         /\ update' # NoUpdate => update # NoUpdate
         /\ request' \in [Client -> Requests]
         /\ \A c \in Client :
              \/ request'[c] = request[c]
              \/ /\ request[c].pc = "waiting" /\ request[c].at = block
                 /\ request'[c].pc = "got" /\ request'[c].values = values
                 /\ request'[c].key = request[c].key /\ request'[c].at = request[c].at
                 /\ request'[c].block = request[c].block
                 /\ request'[c].since = request[c].since
                 /\ request'[c].seen = request[c].seen
<1>0. Number \subseteq Nat /\ 0 \notin Number /\ values \in SUBSET Nat
  BY StreamBounds DEF Number, Answers
<1> USE DEF Deliver
<1>1. /\ update'.block = update.block /\ update'.keys = update.keys
      /\ update' \in [block : Number \cup {0}, keys : SUBSET Key, got : [Key -> SUBSET SUBSET Nat]]
      /\ \A x \in Key : update'.got[x] = update.got[x]
                        \/ (update.block = block /\ update'.got[x] = {values})
  <2> DEFINE Type == [block : Number \cup {0}, keys : SUBSET Key, got : [Key -> SUBSET SUBSET Nat]]
  <2>1. update \in Type
    BY DEF TypeInv
  <2>2. CASE update.block = block /\ k \in update.keys
    <3> DEFINE got == [update.got EXCEPT ![k] = {values}]
    <3>1. update' = [update EXCEPT !.got = got]
      BY <2>2
    <3>2. /\ update.block \in Number \cup {0} /\ update.keys \in SUBSET Key
          /\ update.got \in [Key -> SUBSET SUBSET Nat]
      BY <2>1
    <3>3. {values} \in SUBSET SUBSET Nat
      BY <1>0
    <3>4. /\ got \in [Key -> SUBSET SUBSET Nat]
          /\ \A x \in Key : got[x] = update.got[x] \/ got[x] = {values}
      BY <3>2, <3>3
    <3> HIDE DEF got
    <3>5. /\ update' = [block |-> update.block, keys |-> update.keys, got |-> got]
          /\ update'.block = update.block /\ update'.keys = update.keys /\ update'.got = got
      BY <2>1, <3>1
    <3> QED
      BY <2>2, <3>2, <3>4, <3>5
  <2>3. CASE ~ (update.block = block /\ k \in update.keys)
    BY <2>1, <2>3
  <2> QED
    BY <2>2, <2>3
<1>2. update' # NoUpdate => update # NoUpdate
  <2> SUFFICES ASSUME update = NoUpdate PROVE update' = update
    OBVIOUS
  <2> QED
    BY <1>0 DEF NoUpdate
<1>3. ASSUME NEW c \in Client
      PROVE  /\ request'[c] \in Requests
             /\ \/ request'[c] = request[c]
                \/ /\ request[c].pc = "waiting" /\ request[c].at = block
                   /\ request'[c].pc = "got" /\ request'[c].values = values
                   /\ request'[c].key = request[c].key /\ request'[c].at = request[c].at
                   /\ request'[c].block = request[c].block
                   /\ request'[c].since = request[c].since
                   /\ request'[c].seen = request[c].seen
  <2>1. request[c] \in Requests
    BY DEF TypeInv
  <2>2. \/ request'[c] = request[c]
        \/ /\ request[c].pc = "waiting" /\ request[c].at = block
           /\ request'[c] = [request[c] EXCEPT !.pc = "got", !.values = values]
    OBVIOUS
  <2> QED
    BY <1>0, <2>1, <2>2 DEF Requests
<1>4. request' \in [Client -> Requests]
  BY <1>3
<1> QED
  BY <1>1, <1>2, <1>3, <1>4

\* The node answers for one key and block: all that wait for it get what it holds there.
LEMMA DeliverIInv ==
  ASSUME IInv, NEW k \in Key, NEW block \in Number, NEW values \in Answers(block),
         Deliver(k, block, values), failures' \in Nat
  PROVE  IInv'
<1> USE DEF cache
<1>1. /\ UNCHANGED <<head, published, cache, taken, warm, requests>>
      /\ update'.block = update.block /\ update'.keys = update.keys
      /\ update' \in [block : Number \cup {0}, keys : SUBSET Key, got : [Key -> SUBSET SUBSET Nat]]
      /\ update' # NoUpdate => update # NoUpdate
      /\ request' \in [Client -> Requests]
  BY DeliverIs DEF IInv
<1>2. \A x \in Key : update'.got[x] = update.got[x]
                     \/ (update.block = block /\ update'.got[x] = {values})
  BY DeliverIs DEF IInv
<1>3. \A c \in Client :
        \/ request'[c] = request[c]
        \/ /\ request[c].pc = "waiting" /\ request[c].at = block
           /\ request'[c].pc = "got" /\ request'[c].values = values
           /\ request'[c].key = request[c].key /\ request'[c].at = request[c].at
           /\ request'[c].block = request[c].block
           /\ request'[c].since = request[c].since
  BY DeliverIs DEF IInv
<1>4. TypeInv'
  BY <1>1 DEF IInv, TypeInv
<1>5. RequestInv'
  <2> SUFFICES ASSUME NEW c \in Client
               PROVE  LET r == request'[c] IN
                        /\ r.pc # "idle" => r.key \in Key
                        /\ r.pc \in {"waiting", "got"} =>
                             r.at \in Number /\ r.at = IF r.block = Recent THEN r.since ELSE r.block
                        /\ r.pc = "got" => r.values \in Answers(r.at)
    BY DEF RequestInv
  <2>1. CASE request'[c] = request[c]
    BY <2>1 DEF IInv, RequestInv
  <2>2. CASE request'[c] # request[c]
    BY <1>3, <2>2 DEF IInv, RequestInv
  <2> QED
    BY <2>1, <2>2
<1>6. UpdateInv'
  BY <1>1, <1>2 DEF IInv, UpdateInv
<1>7. EntriesInv' /\ InOrder'
  BY <1>1 DEF IInv, EntriesInv, InOrder
<1>8. PinnedAnswers' /\ RecentIsRecent'
  BY <1>3 DEF IInv, PinnedAnswers, RecentIsRecent
<1> QED
  BY <1>4, <1>5, <1>6, <1>7, <1>8 DEF IInv

\* fetch after its await: what the node answered is stored for the block it was asked about.
LEMMA FinishFetchIInv ==
  ASSUME IInv, NEW c \in Client, FinishFetch(c)
  PROVE  IInv'
<1> DEFINE r == request[c]
<1>0. Number \subseteq Nat /\ 0 \notin Number
  BY StreamBounds DEF Number
<1>1. /\ r \in Requests /\ r.key \in Key /\ r.at \in Number /\ r.values \in Answers(r.at)
      /\ r.at = IF r.block = Recent THEN r.since ELSE r.block
  BY DEF FinishFetch, IInv, TypeInv, RequestInv
<1>2. UNCHANGED <<stream, last_update_block, update, taken, warm, requests>>
  BY DEF FinishFetch
<1>3. /\ request' \in [Client -> Requests]
      /\ \A d \in Client : d # c => request'[d] = request[d]
      /\ request'[c].pc = "answered" /\ request'[c].values = r.values
      /\ request'[c].key = r.key /\ request'[c].block = r.block
      /\ request'[c].since = r.since
  BY <1>1, AnswerIs DEF IInv, FinishFetch
<1>4. recently_used' \in Seq(Key)
  BY <1>1, CacheSetType DEF IInv, TypeInv, FinishFetch
<1>5. cached_most_recently_at_block' \in [Key -> Number \cup {0}]
  BY <1>1 DEF IInv, TypeInv, FinishFetch, most_recently
<1>6. /\ entries' \in [Number -> [Key -> SUBSET SUBSET Nat]]
      /\ \A b \in Number, k \in Key :
           entries'[b][k] = IF b = r.at /\ k = r.key THEN {r.values} ELSE entries[b][k]
  BY <1>1 DEF IInv, TypeInv, FinishFetch, inserted, Requests, NoValues
<1> HIDE DEF r
<1>7. TypeInv'
  BY <1>2, <1>3, <1>4, <1>5, <1>6 DEF IInv, TypeInv, stream, NoUpdate, NoValues
<1>8. EntriesInv'
  BY <1>1, <1>6 DEF IInv, EntriesInv
<1>9. UpdateInv' /\ InOrder'
  BY <1>2 DEF IInv, UpdateInv, InOrder, stream, NoUpdate, NoValues
<1>10. RequestInv'
  BY <1>1, <1>3 DEF IInv, RequestInv
<1>11. \A n \in r.values : n = r.at
  BY <1>1 DEF Answers
<1>12. PinnedAnswers'
  BY <1>1, <1>3, <1>11 DEF IInv, PinnedAnswers
<1>13. RecentIsRecent'
  <2>1. r.block = Recent => r.at >= r.since - maximum_recent_block_age
    BY <1>0, <1>1, CacheAssumption DEF Requests
  <2> QED
    BY <1>3, <1>11, <2>1 DEF IInv, RecentIsRecent
<1> QED
  BY <1>7, <1>8, <1>9, <1>10, <1>12, <1>13 DEF IInv

\* update_cache_at_block up to its request: keys and block are fixed.
LEMMA StartUpdateIInv ==
  ASSUME IInv, StartUpdate
  PROVE  IInv'
<1> USE DEF StartUpdate, cache, stream
<1>0. 0 \notin Number
  BY DEF Number
<1>1. /\ update'.block = published.number /\ published.number \in Number
      /\ update' \in [block : Number \cup {0}, keys : SUBSET Key, got : [Key -> SUBSET SUBSET Nat]]
      /\ \A k \in Key : update'.got[k] = {}
  BY DEF IInv, TypeInv, KeysOf, NoValues
<1>2. TypeInv'
  BY <1>1, StreamBounds DEF IInv, TypeInv, Number
<1>3. UpdateInv' /\ InOrder'
  BY <1>1 DEF UpdateInv, IInv, InOrder, TypeInv, Number
<1>4. EntriesInv' /\ RequestInv' /\ PinnedAnswers' /\ RecentIsRecent'
  BY DEF IInv, EntriesInv, RequestInv, PinnedAnswers, RecentIsRecent
<1> QED
  BY <1>2, <1>3, <1>4 DEF IInv

\* What FinishUpdate leaves in the cache.
LEMMA Collects ==
  ASSUME IInv, FinishUpdate, NEW k \in Key
  PROVE  LET b == update.block
             oldest == b - (number_of_blocks_to_cache - 1)
             all(n) == IF n = b /\ k \in update.keys THEN {UNION update.got[k]} ELSE entries[n][k]
             old == cached_most_recently_at_block[k]
             recent == IF k \in update.keys /\ b > old THEN b ELSE old
         IN  /\ \A n \in Number : entries'[n][k] =
                  IF n >= oldest /\ all(n) # {{}} /\ \A i \in n + 1 .. MaxBlocks : all(i) = {}
                  THEN all(n) ELSE {}
             /\ cached_most_recently_at_block'[k] = IF recent >= oldest THEN recent ELSE 0
<1> DEFINE b == update.block
           oldest == b - (number_of_blocks_to_cache - 1)
           values == [x \in Key |-> UNION update.got[x]]
           whole == inserted(b, update.keys, values)
           all(n) == IF n = b /\ k \in update.keys THEN {UNION update.got[k]} ELSE entries[n][k]
           newest == most_recently(b, update.keys)
<1>1. b \in Number /\ entries \in [Number -> [Key -> SUBSET SUBSET Nat]]
  BY DEF FinishUpdate, IInv, TypeInv
<1>2. \A n \in Number : whole[n][k] = all(n)
  BY <1>1 DEF inserted
<1>3. entries' = Collected(whole, oldest)
  BY DEF FinishUpdate
<1>4. cached_most_recently_at_block' = [x \in Key |-> IF newest[x] >= oldest THEN newest[x] ELSE 0]
  BY DEF FinishUpdate
<1> HIDE DEF whole
<1>5. ASSUME NEW n \in Number
      PROVE  entries'[n][k] =
               IF n >= oldest /\ all(n) # {{}} /\ \A i \in n + 1 .. MaxBlocks : all(i) = {}
               THEN all(n) ELSE {}
  <2>1. \A i \in n + 1 .. MaxBlocks : i \in Number
    BY DEF Number
  <2> HIDE DEF all, oldest
  <2> QED
    BY <1>2, <1>3, <2>1 DEF Collected
<1> QED
  BY <1>4, <1>5 DEF most_recently

\* update_cache_at_block after its await: values enter at their block, old blocks leave.
LEMMA FinishUpdateIInv ==
  ASSUME IInv, FinishUpdate
  PROVE  IInv'
<1>0. Number \subseteq Nat /\ 0 \notin Number
  BY StreamBounds DEF Number
<1>1. /\ update.block \in Number /\ update' = NoUpdate /\ last_update_block' = update.block
      /\ warm' = update.keys /\ update.keys \subseteq Key
      /\ UNCHANGED <<head, published, failures, recently_used, request, taken, requests>>
  BY DEF FinishUpdate, stream, IInv, TypeInv
<1>2. \A k \in Key : cached_most_recently_at_block'[k] \in Number \cup {0}
  BY <1>1, Collects DEF IInv, TypeInv
<1>3. ASSUME NEW b \in Number, NEW k \in Key
      PROVE  /\ entries'[b][k] \in {{}} \cup {{v} : v \in Answers(b)}
             /\ entries'[b][k] \in SUBSET SUBSET Nat
  <2>1. k \in update.keys => UNION update.got[k] \in Answers(update.block)
    BY DEF FinishUpdate, IInv, UpdateInv, Answers
  <2>2. \/ entries'[b][k] \in {entries[b][k], {}}
        \/ b = update.block /\ k \in update.keys /\ entries'[b][k] = {UNION update.got[k]}
    BY Collects
  <2>3. entries'[b][k] \in {{}} \cup {{v} : v \in Answers(b)}
    BY <2>1, <2>2 DEF IInv, EntriesInv
  <2> QED
    BY <1>0, <2>3 DEF Answers
<1>4. /\ DOMAIN entries' = Number /\ \A b \in Number : entries'[b] = [k \in Key |-> entries'[b][k]]
      /\ entries' = [b \in Number |-> entries'[b]]
      /\ cached_most_recently_at_block' = [k \in Key |-> cached_most_recently_at_block'[k]]
  BY DEF FinishUpdate, Collected
<1>5. TypeInv'
  <2>1. NoUpdate \in [block : Number \cup {0}, keys : SUBSET Key, got : [Key -> SUBSET SUBSET Nat]]
    BY DEF NoUpdate, NoValues
  <2>2. entries' \in [Number -> [Key -> SUBSET SUBSET Nat]]
    BY <1>3, <1>4
  <2>3. cached_most_recently_at_block' \in [Key -> Number \cup {0}]
    BY <1>2, <1>4
  <2> QED
    BY <1>1, <2>1, <2>2, <2>3 DEF IInv, TypeInv, NoUpdate, NoValues
<1>6. EntriesInv'
  BY <1>3 DEF EntriesInv
<1>7. UpdateInv' /\ InOrder'
  BY <1>1 DEF UpdateInv, NoUpdate, NoValues, IInv, InOrder, FinishUpdate
<1>8. RequestInv' /\ PinnedAnswers' /\ RecentIsRecent'
  BY <1>1 DEF IInv, RequestInv, PinnedAnswers, RecentIsRecent
<1> QED
  BY <1>5, <1>6, <1>7, <1>8 DEF IInv

\* Every step keeps the invariant, one case per action.
LEMMA NextIInv == IInv /\ [Next]_vars => IInv'
<1> SUFFICES ASSUME IInv, [Next]_vars PROVE IInv'
  OBVIOUS
<1>1. CASE /\ (\E number \in Number : NewHead(number)) \/ Poll
           /\ UNCHANGED <<cache, update, request, taken, warm, requests>>
  BY <1>1, StreamIInv
<1>2. CASE \E c \in Client, k \in Key, block \in {Recent, published.number} : Fetch(c, k, block)
  BY <1>2, FetchIInv
<1>3. CASE \E k \in Key, block \in Number : NodeAnswers(k, block) \/ NodeFails(k, block)
  <2>1. PICK k \in Key, block \in Number : NodeAnswers(k, block) \/ NodeFails(k, block)
    BY <1>3
  <2>2. failures' \in Nat /\ \E values \in Answers(block) : Deliver(k, block, values)
    BY <2>1 DEF NodeAnswers, NodeFails, Fails, IInv, TypeInv, Answers
  <2> QED
    BY <2>2, DeliverIInv
<1>4. CASE \E c \in Client : FinishFetch(c)
  BY <1>4, FinishFetchIInv
<1>5. CASE UNCHANGED vars
  BY <1>5 DEF vars, IInv, TypeInv, EntriesInv, UpdateInv, RequestInv, InOrder, PinnedAnswers,
              RecentIsRecent, NoUpdate, NoValues
<1> QED
  BY <1>1, <1>2, <1>3, <1>4, <1>5, StartUpdateIInv, FinishUpdateIInv DEF Next

\* An answer about a certain block holds values of that block only: for any keys,
\* clients and cache sizes, however fetch shares requests.
THEOREM PinnedAnswersHold == Spec => []PinnedAnswers
<1>1. IInv => PinnedAnswers
  BY DEF IInv
<1> QED
  BY <1>1, InitIInv, NextIInv, PTL DEF Spec

\* An answer about a recent block is not older than maximum_recent_block_age allows.
THEOREM RecentIsRecentHolds == Spec => []RecentIsRecent
<1>1. IInv => RecentIsRecent
  BY DEF IInv
<1> QED
  BY <1>1, InitIInv, NextIInv, PTL DEF Spec

----------------------------------------------------------------------------
(* Keys of the last update stay warm.                                      *)

\* What FinishFetch enters into the cache.
LEMMA Inserts ==
  ASSUME IInv, NEW c \in Client, FinishFetch(c)
  PROVE  /\ \A k \in Key : cached_most_recently_at_block'[k] =
              IF k = request[c].key /\ request[c].at > cached_most_recently_at_block[k]
              THEN request[c].at ELSE cached_most_recently_at_block[k]
         /\ \A b \in Number, k \in Key : entries'[b][k] =
              IF b = request[c].at /\ k = request[c].key THEN {request[c].values} ELSE entries[b][k]
<1> DEFINE r == request[c]
<1>1. r.key \in Key /\ r.at \in Number /\ entries \in [Number -> [Key -> SUBSET SUBSET Nat]]
  BY DEF FinishFetch, IInv, TypeInv, RequestInv
<1>2. entries' = inserted(r.at, {r.key}, [NoValues EXCEPT ![r.key] = r.values])
  BY DEF FinishFetch
<1>3. cached_most_recently_at_block' = most_recently(r.at, {r.key})
  BY DEF FinishFetch
<1> HIDE DEF r
<1>4. \A k \in Key : cached_most_recently_at_block'[k] =
        IF k = r.key /\ r.at > cached_most_recently_at_block[k]
        THEN r.at ELSE cached_most_recently_at_block[k]
  BY <1>3 DEF most_recently
<1>5. \A b \in Number, k \in Key : entries'[b][k] =
        IF b = r.at /\ k = r.key THEN {r.values} ELSE entries[b][k]
  BY <1>1, <1>2 DEF inserted, NoValues
<1> QED
  BY <1>4, <1>5 DEF r

\* Nothing is in use at the start.
LEMMA InitWInv == Init => WInv
<1> SUFFICES ASSUME Init PROVE WInv
  OBVIOUS
<1>1. NewestIsCached /\ AllAnswered /\ WarmInv
  BY DEF Init, NewestIsCached, AllAnswered, WarmInv, NoValues, NoUpdate, NoRequest
<1> QED
  BY <1>1, InitIInv DEF WInv

\* A finished fetch enters its key among the recently used ones.
LEMMA FinishFetchWInv ==
  ASSUME WInv, NEW c \in Client, FinishFetch(c)
  PROVE  WInv'
<1> DEFINE r == request[c]
<1>0. Number \subseteq Nat /\ 0 \notin Number
  BY StreamBounds DEF Number
<1>1. /\ r.key \in Key /\ r.at \in Number /\ r.pc = "got" /\ r \in Requests
      /\ r.values \in Answers(r.at) /\ TypeInv
      /\ cached_most_recently_at_block \in [Key -> Number \cup {0}]
  BY DEF FinishFetch, WInv, IInv, TypeInv, RequestInv
<1>2. /\ \A k \in Key : cached_most_recently_at_block'[k] =
           IF k = r.key /\ r.at > cached_most_recently_at_block[k]
           THEN r.at ELSE cached_most_recently_at_block[k]
      /\ \A b \in Number, k \in Key : entries'[b][k] =
           IF b = r.at /\ k = r.key THEN {r.values} ELSE entries[b][k]
  BY Inserts DEF WInv
<1>3. UNCHANGED <<failures, last_update_block, warm, update>>
  BY DEF FinishFetch, stream
<1>4. request'[c].pc = "answered" /\ \A d \in Client : d # c => request'[d] = request[d]
  BY <1>1, AnswerIs DEF FinishFetch
<1> HIDE DEF r
<1>5. NewestIsCached => NewestIsCached'
  <2> SUFFICES ASSUME NewestIsCached, NEW k \in Key
               PROVE  LET b == cached_most_recently_at_block'[k] IN
                        /\ b # 0 => entries'[b][k] # {}
                        /\ \A n \in Number : n > b => entries'[n][k] = {}
    BY DEF NewestIsCached
  <2> DEFINE old == cached_most_recently_at_block[k]
             new == cached_most_recently_at_block'[k]
  <2>1. /\ old \in Number \cup {0} /\ new \in Number \cup {0}
        /\ new = IF k = r.key /\ r.at > old THEN r.at ELSE old
    BY <1>1, <1>2
  <2>2. old # 0 => entries[old][k] # {}
    BY DEF NewestIsCached
  <2>3. \A n \in Number : n > old => entries[n][k] = {}
    BY DEF NewestIsCached
  <2>4. new # 0 => entries'[new][k] # {}
    BY <1>2, <2>1, <2>2
  <2>5. \A n \in Number : n > new => entries'[n][k] = {}
    <3> HIDE DEF old, new
    <3> QED
      BY <1>0, <1>1, <1>2, <2>1, <2>3
  <2> QED
    BY <2>4, <2>5
<1>6. AllAnswered => AllAnswered'
  <2> SUFFICES ASSUME AllAnswered PROVE AllAnswered'
    OBVIOUS
  <2>1. r.values # {}
    BY <1>1 DEF AllAnswered, r
  <2>2. \A b \in Number, k \in Key : {} \notin entries'[b][k]
    BY <1>2, <2>1 DEF AllAnswered
  <2>3. \A d \in Client : request'[d].pc = "got" => request'[d].values # {}
    BY <1>4 DEF AllAnswered
  <2> QED
    BY <1>3, <2>2, <2>3 DEF AllAnswered
<1>7. WarmInv'
  <2> SUFFICES ASSUME NEW k \in warm
               PROVE  cached_most_recently_at_block'[k] >= last_update_block
    BY <1>3 DEF WarmInv
  <2>1. k \in Key /\ last_update_block \in Nat
    BY NumberNat DEF WInv, IInv, TypeInv
  <2>2. cached_most_recently_at_block[k] \in Nat /\ r.at \in Nat
        /\ cached_most_recently_at_block[k] >= last_update_block
    BY <1>1, <2>1, NumberNat DEF WInv, WarmInv
  <2> QED
    BY <1>2, <2>1, <2>2
<1>8. IInv'
  BY FinishFetchIInv DEF WInv
<1> QED
  BY <1>3, <1>5, <1>6, <1>7, <1>8 DEF WInv

\* A finished update leaves every key that is still in use with an entry.
LEMMA FinishUpdateWInv ==
  ASSUME WInv, FinishUpdate
  PROVE  WInv'
<1> DEFINE b == update.block
           oldest == b - (number_of_blocks_to_cache - 1)
<1>0. Number \subseteq Nat /\ 0 \notin Number /\ MaxBlocks \in Nat /\ oldest \in Int
      /\ b \in Number /\ oldest <= b
  BY StreamBounds, CacheAssumption DEF Number, WInv, IInv, TypeInv, FinishUpdate
<1>1. /\ UNCHANGED <<failures, request>> /\ last_update_block' = b /\ warm' = update.keys
      /\ update' = NoUpdate /\ update.keys \subseteq Key
      /\ cached_most_recently_at_block \in [Key -> Number \cup {0}]
  BY DEF FinishUpdate, stream, WInv, IInv, TypeInv
<1>2. ASSUME NewestIsCached, AllAnswered, NEW k \in Key
      PROVE  LET new == cached_most_recently_at_block'[k] IN
               /\ new # 0 => entries'[new][k] # {}
               /\ \A n \in Number : n > new => entries'[n][k] = {}
               /\ \A n \in Number : {} \notin entries'[n][k]
  <2> DEFINE all(n) == IF n = b /\ k \in update.keys THEN {UNION update.got[k]} ELSE entries[n][k]
             old == cached_most_recently_at_block[k]
             recent == IF k \in update.keys /\ b > old THEN b ELSE old
             new == IF recent >= oldest THEN recent ELSE 0
  <2>1. k \in update.keys => UNION update.got[k] # {}
    BY <1>2 DEF FinishUpdate, WInv, IInv, UpdateInv, AllAnswered, Answers
  <2>2. /\ \A n \in Number : entries'[n][k] =
             IF n >= oldest /\ all(n) # {{}} /\ \A i \in n + 1 .. MaxBlocks : all(i) = {}
             THEN all(n) ELSE {}
        /\ cached_most_recently_at_block'[k] = new
    BY Collects DEF WInv
  <2>3. old \in Number \cup {0} /\ recent \in Number \cup {0} /\ new \in {0, recent}
    BY <1>0, <1>1
  <2>4. \A n \in Number : {} \notin all(n)
    BY <1>2, <2>1 DEF AllAnswered
  <2>5. \A n \in Number : n > recent => all(n) = {}
    <3>1. \A n \in Number : n > old => entries[n][k] = {}
      BY <1>2 DEF NewestIsCached
    <3>2. b \in Nat /\ old \in Nat
      BY <1>0, <2>3, NumberNat
    <3> HIDE DEF old, b
    <3>3. ASSUME NEW n \in Number, n > recent
          PROVE  n > old /\ ~ (n = b /\ k \in update.keys)
      BY <1>0, <3>2, <3>3
    <3> QED
      BY <3>1, <3>3
  <2>6. recent # 0 => all(recent) # {}
    BY <1>0, <1>2, <2>3 DEF NewestIsCached
  <2> HIDE DEF all, recent, oldest
  <2>7. new # 0 => entries'[new][k] = all(new) /\ new = recent
    <3> SUFFICES ASSUME new # 0 PROVE entries'[new][k] = all(new) /\ new = recent
      OBVIOUS
    <3>1. new = recent /\ recent \in Number /\ recent >= oldest
      BY <2>3
    <3>2. all(recent) # {{}}
      BY <2>4, <3>1
    <3>3. \A i \in recent + 1 .. MaxBlocks : i \in Number /\ i > recent
      BY <1>0, <3>1 DEF Number
    <3> QED
      BY <2>2, <2>5, <3>1, <3>2, <3>3
  <2>8. \A n \in Number : n > new => entries'[n][k] = {}
    BY <1>0, <2>2, <2>3, <2>5
  <2>9. \A n \in Number : {} \notin entries'[n][k]
    BY <2>2, <2>4
  <2> QED
    BY <2>2, <2>6, <2>7, <2>8, <2>9
<1>3. failures' = 0 => NewestIsCached' /\ AllAnswered'
  <2> SUFFICES ASSUME failures' = 0 PROVE NewestIsCached' /\ AllAnswered'
    OBVIOUS
  <2>1. NewestIsCached /\ AllAnswered
    BY <1>1 DEF WInv
  <2>2. NewestIsCached'
    BY <1>2, <2>1 DEF NewestIsCached
  <2>3. AllAnswered'
    BY <1>1, <1>2, <2>1 DEF AllAnswered, NoUpdate, NoValues
  <2> QED
    BY <2>2, <2>3
<1>4. WarmInv'
  <2> SUFFICES ASSUME NEW k \in update.keys PROVE cached_most_recently_at_block'[k] >= b
    BY <1>1 DEF WarmInv
  <2>1. k \in Key /\ cached_most_recently_at_block[k] \in Number \cup {0}
    BY <1>1
  <2>2. cached_most_recently_at_block'[k] =
          LET old == cached_most_recently_at_block[k]
              recent == IF b > old THEN b ELSE old
          IN  IF recent >= oldest THEN recent ELSE 0
    BY <2>1, Collects DEF WInv
  <2>3. b \in Nat /\ oldest \in Int /\ oldest <= b /\ cached_most_recently_at_block[k] \in Nat
    BY <1>0, <2>1, NumberNat
  <2> HIDE DEF b, oldest
  <2> QED
    BY <2>2, <2>3
<1>5. IInv'
  BY FinishUpdateIInv DEF WInv
<1> QED
  BY <1>3, <1>4, <1>5 DEF WInv

\* Every step keeps the invariant for warm keys.
LEMMA NextWInv == WInv /\ [Next]_vars => WInv'
<1> SUFFICES ASSUME WInv, [Next]_vars PROVE WInv'
  OBVIOUS
<1>0. IInv'
  BY NextIInv DEF WInv
<1>1. CASE /\ (\E number \in Number : NewHead(number)) \/ Poll
           /\ UNCHANGED <<cache, update, request, taken, warm, requests>>
  <2>1. UNCHANGED failures
    BY <1>1, StreamIInv DEF WInv
  <2> QED
    BY <1>0, <1>1, <2>1 DEF WInv, cache, NewestIsCached, AllAnswered, WarmInv
<1>2. CASE \E c \in Client, k \in Key, block \in {Recent, published.number} : Fetch(c, k, block)
  <2>1. PICK c \in Client, k \in Key, block \in {Recent, published.number} : Fetch(c, k, block)
    BY <1>2
  <2>2. /\ UNCHANGED <<stream, cached_most_recently_at_block, entries, last_update_block, update,
                       warm>>
        /\ \A d \in Client : request'[d].pc = "got" => request'[d] = request[d]
    BY <2>1, FetchIs DEF WInv, IInv
  <2> QED
    BY <1>0, <2>2 DEF WInv, stream, NewestIsCached, AllAnswered, WarmInv
<1>3. CASE \E k \in Key, block \in Number : NodeAnswers(k, block) \/ NodeFails(k, block)
  <2>1. PICK k \in Key, block \in Number : NodeAnswers(k, block) \/ NodeFails(k, block)
    BY <1>3
  <2>2. UNCHANGED <<cache, warm>>
    BY <2>1 DEF NodeAnswers, NodeFails, Deliver
  <2>3. failures' = 0 => failures = 0 /\ Deliver(k, block, {block})
    BY <2>1 DEF NodeAnswers, NodeFails, Fails, WInv, IInv, TypeInv
  <2>4. ASSUME Deliver(k, block, {block}), AllAnswered PROVE AllAnswered'
    <3>1. PICK values \in Answers(block) : values = {block} /\ Deliver(k, block, values)
      BY <2>4 DEF Answers
    <3>2. \A x \in Key : update'.got[x] = update.got[x] \/ update'.got[x] = {{block}}
      BY <2>4 DEF Deliver, WInv, IInv, TypeInv
    <3>3. \A c \in Client : request'[c] = request[c] \/ request'[c].values = {block}
      BY <3>1, DeliverIs DEF WInv, IInv
    <3> QED
      BY <2>2, <2>4, <3>1, <3>2, <3>3 DEF AllAnswered, cache
  <2> QED
    BY <1>0, <2>2, <2>3, <2>4 DEF WInv, cache, NewestIsCached, WarmInv
<1>4. CASE \E c \in Client : FinishFetch(c)
  BY <1>4, FinishFetchWInv
<1>5. CASE StartUpdate
  BY <1>0, <1>5 DEF StartUpdate, stream, cache, WInv, NewestIsCached, AllAnswered, WarmInv, NoValues
<1>6. CASE UNCHANGED vars
  BY <1>0, <1>6 DEF vars, WInv, NewestIsCached, AllAnswered, WarmInv
<1> QED
  BY <1>1, <1>2, <1>3, <1>4, <1>5, <1>6, FinishUpdateWInv DEF Next

\* As long as no request fails, keys of the last update are answered from the cache,
\* however many keys, fetches and updates there are.
THEOREM KeysStayWarm == Spec => []UpdatedKeysStayWarm
<1>1. WInv => UpdatedKeysStayWarm
  <2> SUFFICES ASSUME WInv, failures = 0, NEW k \in warm PROVE Lookup(k, Recent) # {}
    BY DEF UpdatedKeysStayWarm
  <2>1. /\ k \in Key /\ cached_most_recently_at_block[k] \in Number \cup {0}
        /\ last_update_block \in Number
        /\ cached_most_recently_at_block[k] >= last_update_block
    BY DEF WInv, WarmInv, IInv, TypeInv
  <2>2. LookupBlock(k, Recent) = cached_most_recently_at_block[k]
        /\ cached_most_recently_at_block[k] # 0
    BY <2>1, CacheAssumption, StreamBounds DEF LookupBlock, Number
  <2> QED
    BY <2>1, <2>2 DEF WInv, NewestIsCached, Lookup
<1> QED
  BY <1>1, InitWInv, NextWInv, PTL DEF Spec

----------------------------------------------------------------------------
(* Recent answers do not go back, unless entries are removed from the      *)
(* cache before they are too old to be recent.                             *)

RemovedAreOld == maximum_recent_block_age < number_of_blocks_to_cache

\* A recent answer from an entry is no older than the last answer.
LEMMA FetchSInv ==
  ASSUME SInv, NEW c \in Client, NEW k \in Key, NEW block \in {Recent, published.number},
         Fetch(c, k, block)
  PROVE  /\ SeenInv' /\ WaitInv'
         /\ \A d \in Client, x \in Key : request'[d].seen[x] >= request[d].seen[x]
<1>0. Number \subseteq Nat /\ 0 \notin Number /\ maximum_recent_block_age \in Nat
  BY StreamBounds, CacheAssumption DEF Number
<1>1. /\ UNCHANGED <<failures, cached_most_recently_at_block, last_update_block>>
      /\ \A d \in Client : d # c => request'[d] = request[d]
      /\ request'[c].key = k /\ request'[c].block = block
  BY FetchIs DEF SInv, WInv, IInv, stream
<1>2. /\ \A d \in Client, x \in Key : request[d].seen[x] \in Nat
      /\ last_update_block \in Nat /\ cached_most_recently_at_block[k] \in Number \cup {0}
  BY <1>0 DEF SInv, WInv, IInv, TypeInv, Requests
<1>3. \/ request[c].seen[k] <= cached_most_recently_at_block[k]
      \/ request[c].seen[k] < last_update_block - maximum_recent_block_age
  BY DEF SInv, SeenInv
<1>4. CASE /\ Lookup(k, block) = {} /\ request'[c].pc = "waiting"
           /\ request'[c].at = IF block = Recent THEN last_update_block ELSE block
           /\ request'[c].seen = request[c].seen
  <2>1. ASSUME failures = 0, block = Recent PROVE request[c].seen[k] <= last_update_block
    <3>1. CASE cached_most_recently_at_block[k] = 0
      BY <1>0, <1>2, <1>3, <3>1
    <3>2. CASE cached_most_recently_at_block[k] # 0
      <4>1. entries[cached_most_recently_at_block[k]][k] # {}
        BY <2>1, <3>2 DEF SInv, WInv, NewestIsCached
      <4>2. ~ last_update_block - cached_most_recently_at_block[k] <= maximum_recent_block_age
        BY <1>4, <2>1, <3>2, <4>1 DEF Lookup, LookupBlock
      <4>3. cached_most_recently_at_block[k] \in Nat /\ request[c].seen[k] \in Nat
        BY <1>2, NumberNat
      <4> QED
        BY <1>0, <1>2, <1>3, <4>2, <4>3
    <3> QED
      BY <3>1, <3>2
  <2>2. SeenInv'
    BY <1>1, <1>4 DEF SInv, SeenInv
  <2>3. WaitInv'
    BY <1>1, <1>4, <2>1 DEF SInv, WaitInv
  <2>4. \A d \in Client, x \in Key : request'[d].seen[x] >= request[d].seen[x]
    BY <1>1, <1>2, <1>4
  <2> QED
    BY <2>2, <2>3, <2>4
<1>5. ASSUME request'[c].pc = "answered", NEW b \in Number,
             block = Recent => /\ b = cached_most_recently_at_block[k]
                               /\ b >= last_update_block - maximum_recent_block_age,
             \A x \in Key : request'[c].seen[x] =
               IF x = k /\ block = Recent /\ request'[c].values # {}
               THEN b ELSE request[c].seen[x]
      PROVE  /\ SeenInv' /\ WaitInv'
             /\ \A d \in Client, x \in Key : request'[d].seen[x] >= request[d].seen[x]
  <2>1. SeenInv'
    BY <1>0, <1>1, <1>5 DEF SInv, SeenInv
  <2>2. WaitInv'
    BY <1>1, <1>5 DEF SInv, WaitInv
  <2>3. block = Recent => b >= request[c].seen[k]
    BY <1>0, <1>2, <1>3, <1>5
  <2>4. \A d \in Client, x \in Key : request'[d].seen[x] >= request[d].seen[x]
    BY <1>1, <1>2, <1>5, <2>3
  <2> QED
    BY <2>1, <2>2, <2>4
<1>6. \/ /\ Lookup(k, block) = {} /\ request'[c].pc = "waiting"
         /\ request'[c].at = IF block = Recent THEN last_update_block ELSE block
         /\ request'[c].seen = request[c].seen
      \/ /\ request'[c].pc = "answered"
         /\ \E b \in Number :
              /\ block = Recent => /\ b = cached_most_recently_at_block[k]
                                   /\ b >= last_update_block - maximum_recent_block_age
              /\ \A x \in Key : request'[c].seen[x] =
                   IF x = k /\ block = Recent /\ request'[c].values # {}
                   THEN b ELSE request[c].seen[x]
  BY FetchIs DEF SInv, WInv, IInv
<1> QED
  BY <1>4, <1>5, <1>6

\* A recent answer from the node is no older than the last answer.
LEMMA FinishFetchSInv ==
  ASSUME SInv, NEW c \in Client, FinishFetch(c)
  PROVE  /\ SeenInv' /\ WaitInv'
         /\ failures = 0 =>
              \A d \in Client, x \in Key : request'[d].seen[x] >= request[d].seen[x]
<1> DEFINE r == request[c]
<1>0. Number \subseteq Nat /\ 0 \notin Number
  BY StreamBounds DEF Number
<1>1. /\ r.key \in Key /\ r.at \in Number /\ r.pc = "got" /\ r \in Requests
      /\ r.values \in Answers(r.at) /\ TypeInv
  BY DEF FinishFetch, SInv, WInv, IInv, TypeInv, RequestInv
<1>2. \A k \in Key : cached_most_recently_at_block'[k] =
           IF k = r.key /\ r.at > cached_most_recently_at_block[k]
           THEN r.at ELSE cached_most_recently_at_block[k]
  BY Inserts DEF SInv, WInv
<1>3. UNCHANGED <<failures, last_update_block>>
  BY DEF FinishFetch, stream
<1>4. /\ request'[c].pc = "answered" /\ \A d \in Client : d # c => request'[d] = request[d]
      /\ \A k \in Key : request'[c].seen[k] =
           IF k = r.key /\ r.block = Recent /\ r.values # {} THEN r.at ELSE r.seen[k]
  BY <1>1, AnswerIs DEF FinishFetch
<1>5. /\ \A d \in Client, x \in Key : request[d].seen[x] \in Nat
      /\ \A k \in Key : cached_most_recently_at_block[k] \in Nat
      /\ last_update_block \in Nat /\ maximum_recent_block_age \in Nat
  BY NumberNat, CacheAssumption DEF SInv, WInv, IInv, TypeInv, Requests
<1>6. failures = 0 /\ r.block = Recent => r.seen[r.key] <= r.at
  BY <1>1 DEF SInv, WaitInv
<1> HIDE DEF r
<1>7. SeenInv'
  <2> SUFFICES ASSUME NEW d \in Client, NEW k \in Key
               PROVE  \/ request'[d].seen[k] <= cached_most_recently_at_block'[k]
                      \/ request'[d].seen[k] < last_update_block - maximum_recent_block_age
    BY <1>3 DEF SeenInv
  <2>1. \/ request[d].seen[k] <= cached_most_recently_at_block[k]
        \/ request[d].seen[k] < last_update_block - maximum_recent_block_age
    BY DEF SInv, SeenInv
  <2>2. r.at \in Nat /\ cached_most_recently_at_block[k] \in Nat /\ request[d].seen[k] \in Nat
    BY <1>0, <1>1, <1>5
  <2>3. \/ request'[d].seen[k] = request[d].seen[k]
        \/ request'[d].seen[k] = r.at /\ k = r.key
    BY <1>4 DEF r
  <2>4. cached_most_recently_at_block'[k] >= cached_most_recently_at_block[k]
        /\ (k = r.key => cached_most_recently_at_block'[k] >= r.at)
        /\ cached_most_recently_at_block'[k] \in Nat
    BY <1>2, <2>2
  <2> QED
    BY <1>5, <2>1, <2>2, <2>3, <2>4
<1>8. WaitInv'
  BY <1>3, <1>4 DEF SInv, WaitInv
<1>9. failures = 0 => \A d \in Client, x \in Key : request'[d].seen[x] >= request[d].seen[x]
  BY <1>4, <1>5, <1>6 DEF r
<1> QED
  BY <1>7, <1>8, <1>9

\* An update moves the most recent block of its keys forward only.
LEMMA FinishUpdateSInv ==
  ASSUME SInv, RemovedAreOld, FinishUpdate
  PROVE  SeenInv' /\ WaitInv'
<1> DEFINE b == update.block
           oldest == b - (number_of_blocks_to_cache - 1)
<1>0. Number \subseteq Nat /\ 0 \notin Number /\ oldest \in Int /\ b \in Nat
      /\ maximum_recent_block_age \in Nat /\ oldest <= b - maximum_recent_block_age
  BY StreamBounds, CacheAssumption
     DEF Number, SInv, WInv, IInv, TypeInv, FinishUpdate, RemovedAreOld
<1>1. /\ UNCHANGED <<failures, request>> /\ last_update_block' = b
      /\ last_update_block \in Nat /\ last_update_block <= b
  BY <1>0 DEF FinishUpdate, stream, SInv, WInv, IInv, TypeInv, InOrder
<1>2. SeenInv'
  <2> SUFFICES ASSUME NEW d \in Client, NEW k \in Key
               PROVE  \/ request[d].seen[k] <= cached_most_recently_at_block'[k]
                      \/ request[d].seen[k] < b - maximum_recent_block_age
    BY <1>1 DEF SeenInv
  <2> DEFINE old == cached_most_recently_at_block[k]
             recent == IF k \in update.keys /\ b > old THEN b ELSE old
  <2>1. cached_most_recently_at_block'[k] = IF recent >= oldest THEN recent ELSE 0
    BY Collects DEF SInv, WInv
  <2>2. \/ request[d].seen[k] <= old
        \/ request[d].seen[k] < last_update_block - maximum_recent_block_age
    BY DEF SInv, SeenInv
  <2>3. old \in Nat /\ request[d].seen[k] \in Nat
    BY NumberNat DEF SInv, WInv, IInv, TypeInv, Requests
  <2> HIDE DEF old, oldest, b
  <2> QED
    BY <1>0, <1>1, <2>1, <2>2, <2>3
<1>3. WaitInv'
  BY <1>1 DEF SInv, WaitInv
<1> QED
  BY <1>2, <1>3

\* Every step keeps the order of what a client has seen.
LEMMA NextSInv ==
  ASSUME SInv, RemovedAreOld, [Next]_vars
  PROVE  /\ SInv'
         /\ failures = 0 =>
              \A c \in Client, k \in Key : request'[c].seen[k] >= request[c].seen[k]
<1>0. WInv' /\ \A c \in Client, k \in Key : request[c].seen[k] \in Nat
  BY NextWInv DEF SInv, WInv, IInv, TypeInv, Requests
<1>1. CASE /\ (\E number \in Number : NewHead(number)) \/ Poll
           /\ UNCHANGED <<cache, update, request, taken, warm, requests>>
  <2>1. UNCHANGED failures
    BY <1>1, StreamIInv DEF SInv, WInv
  <2> QED
    BY <1>0, <1>1, <2>1 DEF SInv, cache, SeenInv, WaitInv
<1>2. CASE \E c \in Client, k \in Key, block \in {Recent, published.number} : Fetch(c, k, block)
  BY <1>0, <1>2, FetchSInv DEF SInv
<1>3. CASE \E k \in Key, block \in Number : NodeAnswers(k, block) \/ NodeFails(k, block)
  <2>1. PICK k \in Key, block \in Number : NodeAnswers(k, block) \/ NodeFails(k, block)
    BY <1>3
  <2>2. UNCHANGED cache
    BY <2>1 DEF NodeAnswers, NodeFails, Deliver
  <2>5. failures' = 0 => failures = 0
    BY <2>1 DEF NodeAnswers, NodeFails, Fails, SInv, WInv, IInv, TypeInv
  <2>3. PICK values \in Answers(block) : Deliver(k, block, values)
    BY <2>1 DEF NodeAnswers, NodeFails, Answers
  <2>4. \A c \in Client :
          /\ request'[c].seen = request[c].seen
          /\ request'[c].pc \in {"waiting", "got"} =>
               /\ request[c].pc \in {"waiting", "got"} /\ request'[c].key = request[c].key
               /\ request'[c].block = request[c].block /\ request'[c].at = request[c].at
    BY <2>3, DeliverIs DEF SInv, WInv, IInv
  <2> QED
    BY <1>0, <2>2, <2>4, <2>5 DEF SInv, cache, SeenInv, WaitInv
<1>4. CASE \E c \in Client : FinishFetch(c)
  BY <1>0, <1>4, FinishFetchSInv DEF SInv
<1>5. CASE StartUpdate
  BY <1>0, <1>5 DEF StartUpdate, stream, cache, SInv, SeenInv, WaitInv
<1>6. CASE FinishUpdate
  BY <1>0, <1>6, FinishUpdateSInv DEF SInv, FinishUpdate
<1>7. CASE UNCHANGED vars
  BY <1>0, <1>7 DEF vars, SInv, SeenInv, WaitInv
<1> QED
  BY <1>1, <1>2, <1>3, <1>4, <1>5, <1>6, <1>7 DEF Next

\* If entries that are recent enough are not removed from the cache, as with the
\* settings of the driver, a client that asks again does not go back in time.
THEOREM RecentAnswersInOrder ==
  ASSUME RemovedAreOld
  PROVE  Spec => RecentNeverGoesBack
<1>1. Init => SInv
  BY InitWInv DEF SInv, SeenInv, WaitInv, Init, NoRequest
<1>2. SInv /\ [Next]_vars => SInv'
  BY NextSInv
<1>3. SInv /\ [Next]_vars =>
        [failures = 0 => \A c \in Client, k \in Key :
           request'[c].seen[k] >= request[c].seen[k]]_vars
  BY NextSInv
<1> QED
  BY <1>1, <1>2, <1>3, PTL DEF Spec, RecentNeverGoesBack

----------------------------------------------------------------------------
(* ServiceMaintenance: the maintainers of a service at every new block.    *)

MaintenanceTypes ==
  /\ head \in Block /\ published \in Block
  /\ retry_block \in Blocks /\ running \in Blocks /\ last_updated_block \in Blocks
  /\ todo \subseteq Maintainer /\ failed \subseteq Maintainer
  /\ handled \in [Maintainer -> Blocks]

\* The node never returns to a block it has left, so a run is of a block the node has
\* had, and a maintainer that runs now runs on that block or on a later one.
BehindHead ==
  /\ published.hash <= head.hash /\ retry_block.hash <= head.hash
  /\ running.hash <= head.hash
  /\ \A m \in Maintainer : handled[m].hash <= head.hash

\* The maintainers that succeeded in the current run.
RunMaintained ==
  running # NoBlock =>
    \A m \in Maintainer : m \notin todo \cup failed => handled[m].hash >= running.hash

\* The inductive invariant.
MaintenanceInv ==
  MaintenanceTypes /\ BehindHead /\ RunMaintained /\ UpdatedMeansMaintained

\* Blocks carry numbers.
LEMMA HashType ==
  /\ \A b \in Blocks : b.hash \in Nat
  /\ Block \subseteq Blocks /\ NoBlock \in Blocks /\ NoBlock.hash = 0
BY DEF Blocks, Block, NoBlock

LEMMA MaintenanceInitInv == MaintenanceInit => MaintenanceInv
<1> SUFFICES ASSUME MaintenanceInit PROVE MaintenanceInv
  OBVIOUS
<1>1. Genesis \in Block /\ Genesis.hash = 1
  BY StreamBounds DEF Genesis, Block
<1>2. MaintenanceTypes
  BY <1>1, HashType DEF MaintenanceInit, StreamInit, MaintenanceTypes
<1> QED
  BY <1>1, <1>2, HashType DEF MaintenanceInit, StreamInit, MaintenanceInv, BehindHead,
                              RunMaintained, UpdatedMeansMaintained

\* The node and the stream leave the runs alone.
LEMMA StreamMaintenanceInv ==
  ASSUME MaintenanceInv, Node \/ PollNode
  PROVE  MaintenanceInv'
<1>1. CASE Node
  <2>1. PICK number \in 1..MaxBlocks : NewHead(number)
    BY <1>1 DEF Node
  <2>2. head' \in Block /\ head'.hash = head.hash + 1 /\ published' = published
    BY <2>1, StreamBounds DEF NewHead, Block, MaintenanceInv, MaintenanceTypes
  <2>3. MaintenanceTypes'
    BY <1>1, <2>2 DEF Node, MaintenanceInv, MaintenanceTypes
  <2>4. BehindHead'
    BY <1>1, <2>2, HashType DEF Node, MaintenanceInv, MaintenanceTypes, BehindHead
  <2> QED
    BY <1>1, <2>3, <2>4 DEF Node, MaintenanceInv, RunMaintained, UpdatedMeansMaintained
<1>2. CASE PollNode
  BY <1>2, HashType DEF PollNode, Poll, MaintenanceInv, MaintenanceTypes, BehindHead,
                        RunMaintained, UpdatedMeansMaintained
<1> QED
  BY <1>1, <1>2

\* A run begins with every maintainer still to do.
LEMMA StartMaintenanceInv ==
  ASSUME MaintenanceInv, Start
  PROVE  MaintenanceInv'
<1>1. PICK block \in {published, retry_block} : StartRun(block)
  BY DEF Start
<1>2. block \in Blocks /\ block.hash <= head.hash
  BY <1>1, HashType DEF MaintenanceInv, MaintenanceTypes, BehindHead
<1>3. MaintenanceTypes'
  BY <1>1, <1>2, HashType DEF StartRun, stream, MaintenanceInv, MaintenanceTypes
<1>4. BehindHead'
  BY <1>1, <1>2, HashType DEF StartRun, stream, MaintenanceInv, MaintenanceTypes, BehindHead
<1> QED
  BY <1>1, <1>3, <1>4 DEF StartRun, MaintenanceInv, RunMaintained, UpdatedMeansMaintained

\* A maintainer that succeeds has come as far as the node.
LEMMA RunMaintenanceInv ==
  ASSUME MaintenanceInv, NEW m \in Maintainer, RunMaintainer(m)
  PROVE  MaintenanceInv'
<1>1. \A n \in Maintainer : handled'[n] = IF n = m THEN head ELSE handled[n]
  BY DEF RunMaintainer, MaintenanceInv, MaintenanceTypes
<1>2. \A n \in Maintainer : handled[n].hash <= handled'[n].hash
  BY <1>1, HashType DEF MaintenanceInv, MaintenanceTypes, BehindHead
<1>3. MaintenanceTypes'
  BY HashType DEF RunMaintainer, stream, MaintenanceInv, MaintenanceTypes
<1>4. BehindHead'
  BY <1>1, HashType DEF RunMaintainer, stream, MaintenanceInv, MaintenanceTypes, BehindHead
<1>5. RunMaintained'
  <2> SUFFICES ASSUME running # NoBlock, NEW n \in Maintainer, n \notin todo' \cup failed
               PROVE  handled'[n].hash >= running.hash
    BY DEF RunMaintainer, RunMaintained
  <2>1. CASE n = m
    BY <1>1, <2>1, HashType DEF MaintenanceInv, MaintenanceTypes, BehindHead
  <2>2. CASE n # m
    BY <1>1, <2>2 DEF RunMaintainer, MaintenanceInv, RunMaintained
  <2> QED
    BY <2>1, <2>2
<1>6. UpdatedMeansMaintained'
  <2> SUFFICES ASSUME NEW n \in Maintainer
               PROVE  handled'[n].hash >= last_updated_block.hash
    BY DEF RunMaintainer, UpdatedMeansMaintained
  <2>1. handled[n].hash >= last_updated_block.hash
    BY DEF MaintenanceInv, UpdatedMeansMaintained
  <2>2. handled[n] \in Blocks /\ handled'[n] \in Blocks /\ last_updated_block \in Blocks
    BY <1>3 DEF MaintenanceInv, MaintenanceTypes
  <2> QED
    BY <1>2, <2>1, <2>2, HashType
<1> QED
  BY <1>3, <1>4, <1>5, <1>6 DEF MaintenanceInv

\* Every step keeps the invariant, one case per action.
LEMMA MaintenanceNextInv == MaintenanceInv /\ [MaintenanceNext]_maintenanceVars => MaintenanceInv'
<1> SUFFICES ASSUME MaintenanceInv, [MaintenanceNext]_maintenanceVars PROVE MaintenanceInv'
  OBVIOUS
<1>1. ASSUME NEW m \in Maintainer, MaintainerFails(m) PROVE MaintenanceInv'
  BY <1>1 DEF MaintainerFails, MaintenanceInv, MaintenanceTypes, BehindHead, RunMaintained,
              UpdatedMeansMaintained
<1>2. CASE FinishRun
  <2>1. MaintenanceTypes'
    BY <1>2, HashType DEF FinishRun, stream, MaintenanceInv, MaintenanceTypes
  <2>2. BehindHead'
    BY <1>2, HashType DEF FinishRun, stream, MaintenanceInv, MaintenanceTypes, BehindHead
  <2>3. RunMaintained'
    BY <1>2 DEF FinishRun, RunMaintained
  <2>4. UpdatedMeansMaintained'
    <3>1. CASE failed = {}
      BY <1>2, <3>1 DEF FinishRun, MaintenanceInv, RunMaintained, UpdatedMeansMaintained
    <3>2. CASE failed # {}
      BY <1>2, <3>2 DEF FinishRun, MaintenanceInv, UpdatedMeansMaintained
    <3> QED
      BY <3>1, <3>2
  <2> QED
    BY <2>1, <2>2, <2>3, <2>4 DEF MaintenanceInv
<1>3. CASE UNCHANGED maintenanceVars
  BY <1>3 DEF maintenanceVars, MaintenanceInv, MaintenanceTypes, BehindHead, RunMaintained,
              UpdatedMeansMaintained
<1> QED
  BY <1>1, <1>2, <1>3, StreamMaintenanceInv, StartMaintenanceInv, RunMaintenanceInv
  DEF MaintenanceNext, Run

\* The metric last_updated_block promises no more than was done: for any maintainers,
\* blocks and failures, every maintainer has succeeded on that block or a later one.
THEOREM MetricIsHonest == MaintenanceSpec => []UpdatedMeansMaintained
<1>1. MaintenanceInv => UpdatedMeansMaintained
  BY DEF MaintenanceInv
<1> QED
  BY <1>1, MaintenanceInitInv, MaintenanceNextInv, PTL DEF MaintenanceSpec

----------------------------------------------------------------------------
(* SettlementUpdater: the attribution of settlements to auctions.          *)

\* The row in hand is still without an auction, and what
\* recover_auction_id_from_calldata decided still holds when it is written.
\* Only the task writes auction ids, and reorganisations only remove them.
UpdateCurrent ==
  /\ pc \in {"fetch", "recover", "commit"} => hash \in Tx /\ auction[slot] = None
  /\ pc = "commit" =>
       /\ auction_id = Claimed[hash]
       /\ add_data => Claimed[hash] \in Auction /\ ~ AlreadyProcessed(Claimed[hash])

\* The inductive invariant.
UpdaterInv == TypeOK /\ UpdateCurrent /\ AttributedUnlessRaced /\ OneObservationPerAuction

\* A transaction claims an auction or the default id.
LEMMA ClaimedType ==
  ASSUME NEW t \in Tx
  PROVE  Claimed[t] \in Auction \cup {Default} /\ Claimed[t] # None
BY ClaimedAssumption, DistinctAssumption

LEMMA UpdaterInitInv == UpdaterInit => UpdaterInv
BY DEF UpdaterInit, UpdaterInv, TypeOK, UpdateCurrent, AttributedUnlessRaced, Attributed,
       OneObservationPerAuction

\* Indexing new settlements changes no row that has an auction.
LEMMA AppendInv ==
  ASSUME UpdaterInv, NEW new \in [Slot -> Tx \cup {None}], AppendEvents(new)
  PROVE  UpdaterInv'
<1> USE DEF AppendEvents, locals
<1>1. TypeOK'
  BY DEF UpdaterInv, TypeOK
<1>2. \A s \in Slot : tx[s] # None => tx'[s] = tx[s]
  BY DEF UpdaterInv, TypeOK
<1>3. UpdateCurrent'
  BY DEF UpdaterInv, TypeOK, UpdateCurrent, AlreadyProcessed
<1>4. AttributedUnlessRaced'
  BY <1>2, DistinctAssumption DEF UpdaterInv, TypeOK, AttributedUnlessRaced, Attributed
<1>5. OneObservationPerAuction'
  BY DEF UpdaterInv, OneObservationPerAuction
<1> QED
  BY <1>1, <1>3, <1>4, <1>5 DEF UpdaterInv

\* A reorganisation removes a row together with its auction and observation.
LEMMA ReplaceInv ==
  ASSUME UpdaterInv, NEW h, NEW new \in [Slot -> Tx \cup {None}], ReplaceEvents(h, new)
  PROVE  UpdaterInv'
<1> USE DEF ReplaceEvents, locals
<1>1. TypeOK'
  BY DEF UpdaterInv, TypeOK
<1>2. \A s \in Slot : auction'[s] # None => auction'[s] = auction[s]
  BY DEF UpdaterInv, TypeOK
<1>3. UpdateCurrent'
  BY <1>2, ClaimedType DEF UpdaterInv, TypeOK, UpdateCurrent, AlreadyProcessed
<1>4. AttributedUnlessRaced'
  BY DEF UpdaterInv, TypeOK, AttributedUnlessRaced, Attributed
<1>5. OneObservationPerAuction'
  BY DEF UpdaterInv, TypeOK, OneObservationPerAuction
<1> QED
  BY <1>1, <1>3, <1>4, <1>5 DEF UpdaterInv

\* The write of an update: one more attributed settlement, and an observation
\* only for an auction without one.
LEMMA CommitInv ==
  ASSUME UpdaterInv, UpdateSettlementDetails
  PROVE  UpdaterInv'
<1> USE DEF UpdateSettlementDetails, Forget
<1>1. /\ slot \in Slot /\ hash \in Tx /\ hash # None
      /\ auction[slot] = None /\ auction_id = Claimed[hash]
      /\ auction_id \in Auction \cup {Default} /\ auction_id # None
  BY ClaimedType, DistinctAssumption DEF UpdaterInv, TypeOK, UpdateCurrent
<1>2. add_data => auction_id \in Auction /\ ~ AlreadyProcessed(auction_id)
  BY <1>1 DEF UpdaterInv, UpdateCurrent
<1>3. TypeOK'
  <2>1. executions' \subseteq Tx \X Auction \X Nat
    <3>1. executions \subseteq Tx \X Auction \X Nat
      BY DEF UpdaterInv, TypeOK
    <3>2. CASE ~ add_data
      <4>1. executions' = executions
        BY <3>2
      <4> QED
        BY <3>1, <4>1
    <3>3. CASE add_data
      <4>1. Height[slot] \in Nat
        BY <1>1, HeightAssumption
      <4>2. <<hash, auction_id, Height[slot]>> \in Tx \X Auction \X Nat
        BY <1>1, <1>2, <3>3, <4>1
      <4>3. executions' \subseteq executions \cup {<<hash, auction_id, Height[slot]>>}
        BY <3>3
      <4> QED
        BY <3>1, <4>2, <4>3
    <3> QED
      BY <3>2, <3>3
  <2>2. auction' \in [Slot -> Auction \cup {Default, None}]
    BY <1>1 DEF UpdaterInv, TypeOK
  <2>3. observations' \in [Slot -> Tx \cup {None}]
    BY <1>1 DEF UpdaterInv, TypeOK
  <2>4. raced' \in BOOLEAN
    BY DEF UpdaterInv, TypeOK
  <2> QED
    BY <2>1, <2>2, <2>3, <2>4 DEF UpdaterInv, TypeOK
<1>4. UpdateCurrent'
  BY DEF UpdateCurrent
<1>5. SUFFICES ASSUME ~ raced'
               PROVE  Attributed' /\ OneObservationPerAuction'
  BY <1>3, <1>4 DEF UpdaterInv, AttributedUnlessRaced, OneObservationPerAuction
<1>6. ~ raced /\ tx[slot] = hash
  BY <1>5
<1>7. /\ auction' = [auction EXCEPT ![slot] = auction_id]
      /\ observations' = [observations EXCEPT ![slot] = IF add_data THEN hash ELSE @]
      /\ tx' = tx
  BY <1>1, <1>6
<1>8. Attributed'
  BY <1>1, <1>6, <1>7 DEF UpdaterInv, TypeOK, AttributedUnlessRaced, Attributed
<1>9. OneObservationPerAuction'
  <2>1. \A s \in Slot : observations[s] # None =>
          auction[s] = Claimed[observations[s]] /\ s # slot
    BY <1>1, <1>6 DEF UpdaterInv, TypeOK, AttributedUnlessRaced, Attributed
  <2>2. CASE ~ add_data
    <3>1. observations' = observations
      BY <1>7, <2>2 DEF UpdaterInv, TypeOK
    <3> QED
      BY <1>6, <3>1 DEF UpdaterInv, OneObservationPerAuction
  <2>3. CASE add_data
    <3>1. \A s \in Slot : observations[s] # None => Claimed[observations[s]] # Claimed[hash]
      BY <1>1, <1>2, <2>1, <2>3 DEF AlreadyProcessed
    <3>2. \A s \in Slot : observations'[s] = IF s = slot THEN hash ELSE observations[s]
      BY <1>7, <2>3 DEF UpdaterInv, TypeOK
    <3> QED
      BY <1>6, <3>1, <3>2 DEF UpdaterInv, OneObservationPerAuction
  <2> QED
    BY <2>2, <2>3
<1> QED
  BY <1>8, <1>9

LEMMA UpdaterNextInv ==
  ASSUME UpdaterInv, [UpdaterNext]_updaterVars
  PROVE  UpdaterInv'
<1> USE DEF tables, locals
<1>1. ASSUME NEW new \in [Slot -> Tx \cup {None}], AppendEvents(new)
      PROVE  UpdaterInv'
  BY <1>1, AppendInv
<1>2. ASSUME NEW new \in [Slot -> Tx \cup {None}], NEW h, ReplaceEvents(h, new)
      PROVE  UpdaterInv'
  BY <1>2, ReplaceInv
<1>3. ASSUME NEW a \in Auction, SaveCompetition(a) PROVE UpdaterInv'
  BY <1>3 DEF SaveCompetition, UpdaterInv, TypeOK, UpdateCurrent, AlreadyProcessed,
              AttributedUnlessRaced, Attributed, OneObservationPerAuction
<1>4. CASE GetSettlementWithoutAuction
  BY <1>4 DEF GetSettlementWithoutAuction, Unprocessed, UpdaterInv, TypeOK, UpdateCurrent,
              AttributedUnlessRaced, Attributed, OneObservationPerAuction
<1>5. CASE NothingToUpdate
  BY <1>5 DEF NothingToUpdate, Forget, UpdaterInv, TypeOK, UpdateCurrent,
              AttributedUnlessRaced, Attributed, OneObservationPerAuction
<1>6. CASE FetchTransaction
  BY <1>6 DEF FetchTransaction, UpdaterInv, TypeOK, UpdateCurrent, AttributedUnlessRaced,
              Attributed, OneObservationPerAuction
<1>7. CASE RecoverAuctionId
  <2>1. hash \in Tx /\ Claimed[hash] \in Auction \cup {Default}
    BY <1>7, ClaimedType DEF RecoverAuctionId, UpdaterInv, UpdateCurrent
  <2>2. add_data' \in BOOLEAN /\ (add_data' => Claimed[hash] \in Auction /\ ~ AlreadyProcessed(Claimed[hash]))
    BY <1>7 DEF RecoverAuctionId, AddAuctionData, UpdaterInv, TypeOK
  <2>3. TypeOK'
    BY <1>7, <2>1, <2>2 DEF RecoverAuctionId, UpdaterInv, TypeOK
  <2>4. UpdateCurrent'
    BY <1>7, <2>1, <2>2 DEF RecoverAuctionId, UpdaterInv, UpdateCurrent, AlreadyProcessed
  <2> QED
    BY <1>7, <2>3, <2>4 DEF RecoverAuctionId, UpdaterInv, AttributedUnlessRaced, Attributed,
                            OneObservationPerAuction
<1>8. CASE UpdateSettlementDetails
  BY <1>8, CommitInv
<1>9. CASE UpdateFails
  BY <1>9 DEF UpdateFails, Forget, UpdaterInv, TypeOK, UpdateCurrent, AttributedUnlessRaced,
              Attributed, OneObservationPerAuction
<1>10. CASE Notified
  BY <1>10 DEF Notified, UpdaterInv, TypeOK, UpdateCurrent, AttributedUnlessRaced, Attributed,
               OneObservationPerAuction
<1>11. CASE Restart
  BY <1>11 DEF Restart, Forget, UpdaterInv, TypeOK, UpdateCurrent, AttributedUnlessRaced,
               Attributed, OneObservationPerAuction
<1>12. CASE BecomeQuiet
  BY <1>12 DEF BecomeQuiet, UpdaterInv, TypeOK, UpdateCurrent, AlreadyProcessed,
               AttributedUnlessRaced, Attributed, OneObservationPerAuction
<1>13. CASE UNCHANGED updaterVars
  BY <1>13 DEF updaterVars, UpdaterInv, TypeOK, UpdateCurrent, AlreadyProcessed,
               AttributedUnlessRaced, Attributed, OneObservationPerAuction
<1> QED
  BY <1>1, <1>2, <1>3, <1>4, <1>5, <1>6, <1>7, <1>8, <1>9, <1>10, <1>11, <1>12, <1>13
  DEF UpdaterNext, Indexer, Updater

\* As long as no update was written over another transaction's row, every stored
\* auction id and observation belongs to the transaction of its event, whatever
\* reorganisations, failures and restarts happen while updates are running.
THEOREM AttributionCorrect == UpdaterSpec => []AttributedUnlessRaced
<1>1. UpdaterInit => UpdaterInv
  BY UpdaterInitInv
<1>2. UpdaterInv /\ [UpdaterNext]_updaterVars => UpdaterInv'
  BY UpdaterNextInv
<1>3. UpdaterInv => AttributedUnlessRaced
  BY DEF UpdaterInv
<1> QED
  BY <1>1, <1>2, <1>3, PTL DEF UpdaterSpec

\* Under the same condition no auction gets a second observation, however often
\* settlements are replaced, updates fail or the task restarts.
THEOREM RewardedOnce == UpdaterSpec => []OneObservationPerAuction
<1>1. UpdaterInit => UpdaterInv
  BY UpdaterInitInv
<1>2. UpdaterInv /\ [UpdaterNext]_updaterVars => UpdaterInv'
  BY UpdaterNextInv
<1>3. UpdaterInv => OneObservationPerAuction
  BY DEF UpdaterInv
<1> QED
  BY <1>1, <1>2, <1>3, PTL DEF UpdaterSpec
============================================================================
