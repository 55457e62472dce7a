------------------------------ MODULE ProxyCache ------------------------------
(***************************************************************************)
(* The web proxy's object cache, src/proxylab-handout/cache.c, driven by   *)
(* the threads of src/proxylab-handout/proxy.c (run_thread).               *)
(*                                                                         *)
(* The cache is a doubly linked list of CacheItem nodes (head, tail,       *)
(* remainlen) guarded by one pthread rwlock.  A CacheItem is an address    *)
(* from the pool Items; alloc is the set of items malloc'd and not yet     *)
(* freed, and the fields of an item are functions over Items.  A freed     *)
(* item's fields are reset: any read of them is undefined behaviour, which *)
(* stops the thread (pc "ub") before the value could matter.               *)
(*                                                                         *)
(* Every critical section of the code is one step: a write section runs   *)
(* only when nobody holds the lock, and a read section only reads, so      *)
(* interleaving inside it cannot change its outcome.  The only lock state  *)
(* that outlives a step is a reader that never leaves its section: a       *)
(* lookup whose scan loops forever (pc "spin") keeps the read lock, and    *)
(* from then on every write section is blocked.                            *)
(*                                                                         *)
(* A URL is a model value; the server's response to URL u is the byte      *)
(* sequence Resp[u], where 0 is a NUL byte and the other values stand for  *)
(* any other bytes, so that what a client receives can be compared with    *)
(* what the server sent.                                                   *)
(***************************************************************************)
EXTENDS Naturals, Sequences, FiniteSets, SequencesExt

CONSTANTS
  Threads,          \* the proxy's service threads (one per connection)
  Urls,             \* URLs clients ask for
  Items,            \* addresses malloc can return for a CacheItem
  Resp,             \* Resp[u]: the bytes of the server's response for URL u
  MAX_CACHE_SIZE,   \* cache.h: total object bytes the cache may hold
  MAX_OBJECT_SIZE,  \* cache.h: largest object the proxy means to cache
  MAXBUF,           \* csapp.h: bytes per Rio_readnb from the server
  NoUrl             \* the tag of no item: a freed or never used address

NULL == 0


ASSUME NULL \notin Items /\ NoUrl \notin Urls /\ Resp \in [Urls -> Seq(Nat) \ {<<>>}]
ASSUME MAX_OBJECT_SIZE \in Nat /\ MAX_OBJECT_SIZE <= MAX_CACHE_SIZE /\ MAXBUF \in Nat \ {0}

VARIABLES
  head, tail, remainlen,     \* CacheList *list
  prev, next, tag, olen, obj, \* the CacheItem fields, per address
  alloc,                     \* addresses of live CacheItems
  readers,                   \* threads holding the read lock
  pc,                        \* per thread: where it is in run_thread
  url,                       \* per thread: the URL of its request
  item,                      \* per thread: the item cache_lookup found
  buf                        \* per thread: the object it holds (hit or fetched)

cacheVars == <<head, tail, remainlen, prev, next, tag, olen, obj, alloc>>
vars == <<cacheVars, readers, pc, url, item, buf>>

(* The bytes the server sends for URL u. *)
Response(u) == Resp[u]

(* A byte of a fresh malloc block that nobody has written: not a byte the *)
(* server sent.                                                           *)
UNINIT == -1

MIN(x, y) == IF x > y THEN y ELSE x

(* The element of a one-element set: binds a helper's result once (see    *)
(* MMExplicit).                                                           *)
The(S) == CHOOSE x \in S : TRUE

(***************************************************************************)
(* run_thread's copy loop (proxy.c 175-183): the response arrives in       *)
(* Rio_readnb chunks of MAXBUF bytes; a chunk is appended to the object    *)
(* only if the object still fits in MAX_OBJECT_SIZE, and a chunk that does *)
(* not fit is skipped while later ones are still tried.                    *)
(***************************************************************************)
(* Mutant: memcpy(object, resp, len), the chunk written at the start of  *)
(* the object instead of at objectlen; the memset left the rest zero.      *)
RECURSIVE CopyFrom_nooff(_, _, _)
CopyFrom_nooff(r, off, object) ==
  IF off >= Len(r) THEN object
  ELSE LET len == MIN(MAXBUF, Len(r) - off)
           chunk == SubSeq(r, off + 1, off + len)
       IN  CopyFrom_nooff(r, off + len,
             IF Len(object) + len <= MAX_OBJECT_SIZE
             THEN [k \in 1 .. Len(object) + len |->
                     IF k <= len THEN chunk[k] ELSE IF k <= Len(object) THEN object[k] ELSE 0]
             ELSE object)

RECURSIVE CopyFrom(_, _, _)
CopyFrom(r, off, object) ==
  IF off >= Len(r) THEN object
  ELSE LET len == MIN(MAXBUF, Len(r) - off)
           chunk == SubSeq(r, off + 1, off + len)
       IN  CopyFrom(r, off + len,
                    IF Len(object) + len <= MAX_OBJECT_SIZE THEN object \o chunk ELSE object)

(***************************************************************************)
(* The cache as a record, so that the helpers of cache.c compose.  A       *)
(* helper returns [ub |-> TRUE, ...] when it dereferences NULL or a freed  *)
(* item.                                                                   *)
(***************************************************************************)
Cache == [head |-> head, tail |-> tail, remainlen |-> remainlen, prev |-> prev,
          next |-> next, tag |-> tag, olen |-> olen, obj |-> obj, alloc |-> alloc]

StoreCache(c) ==
  /\ head' = c.head /\ tail' = c.tail /\ remainlen' = c.remainlen
  /\ prev' = c.prev /\ next' = c.next /\ tag' = c.tag /\ olen' = c.olen
  /\ obj' = c.obj /\ alloc' = c.alloc

Live(c, p) == p \in c.alloc

(* The write p->field = v, for a field function f; no write through NULL. *)
Set(f, p, v) == IF p = NULL THEN f ELSE [f EXCEPT ![p] = v]

(* move_to_head (cache.c 31-47). *)
move_to_head(c, it) ==
  IF c.head = it THEN [ub |-> FALSE, c |-> c]
  ELSE IF c.head = NULL THEN [ub |-> FALSE, c |-> [c EXCEPT !.head = it, !.tail = it]]
  ELSE IF ~Live(c, it) THEN [ub |-> TRUE, c |-> c]
  ELSE LET p == c.prev[it]
           n == c.next[it]
       IN  IF (p # NULL /\ ~Live(c, p)) \/ (n # NULL /\ ~Live(c, n))
           THEN [ub |-> TRUE, c |-> c]
           ELSE [ub |-> FALSE,
                 c |-> [c EXCEPT !.tail = IF c.tail = it THEN p ELSE @,
                                 !.next = [Set(@, p, n) EXCEPT ![it] = c.head],
                                 !.prev = [Set(@, n, p) EXCEPT ![it] = NULL],
                                 !.head = it]]

(* free(temp->tag); free(temp->object); free(temp): the address is no      *)
(* longer live.  Its fields are cleared, since reading them is an error.   *)
Free(c, p) ==
  [c EXCEPT !.alloc = @ \ {p}, !.prev[p] = NULL, !.next[p] = NULL,
            !.tag[p] = NoUrl, !.olen[p] = 0, !.obj[p] = <<>>]

(* cache_evict (cache.c 70-80): unlink the tail through its prev pointer.   *)
(* NULL and a freed tail are both outside alloc.                           *)
cache_evict(c) ==
  LET temp == c.tail
  IN  IF ~Live(c, temp) THEN [ub |-> TRUE, c |-> c]
      ELSE [ub |-> FALSE,
            c |-> Free([c EXCEPT !.tail = c.prev[temp],
                                 !.remainlen = @ + c.olen[temp]], temp)]

(* The loop of cache_add (cache.c 53-54): evict while remainlen is short.  *)
(* Each turn frees a live item or stops at an error, so it terminates.     *)
RECURSIVE EvictUntil(_, _)
EvictUntil(c, need) ==
  IF c.remainlen >= need THEN [ub |-> FALSE, c |-> c]
  ELSE The({ IF e.ub THEN e ELSE EvictUntil(e.c, need) : e \in {cache_evict(c)} })

(***************************************************************************)
(* strcpy(item->object, object) (cache.c 61) copies up to the first NUL    *)
(* and the NUL itself into the Malloc(objectlen + 1) block; the bytes of   *)
(* the block after it keep whatever malloc left there.  With no NUL in the *)
(* object, proxy.c's memset (175) put one just after it, unless the object *)
(* fills char object[MAX_OBJECT_SIZE]: then strcpy reads past the array   *)
(* and writes past the block, undefined behaviour.                         *)
(***************************************************************************)
StrEnd(object) == SelectInSeq(object, LAMBDA b : b = 0)
Overruns(object) == StrEnd(object) = 0 /\ Len(object) >= MAX_OBJECT_SIZE
Stored(object) ==
  LET e == IF StrEnd(object) = 0 THEN Len(object) ELSE StrEnd(object)
  IN  [k \in 1 .. Len(object) |-> IF k <= e THEN object[k] ELSE UNINIT]

(* Mutant: cache_add without the eviction loop. *)
cache_add_noevict(c, u, object, it) ==
  LET n == [c EXCEPT !.alloc = @ \cup {it}, !.tag[it] = u, !.obj[it] = Stored(object),
                     !.prev[it] = NULL, !.next[it] = NULL, !.olen[it] = Len(object),
                     !.remainlen = @ - Len(object)]
  IN  [ub |-> FALSE, fresh |-> it \notin c.alloc, c |-> move_to_head(n, it).c]

(* Mutant: cache_add that never charges remainlen for the new object. *)
cache_add_nocharge(c, u, object, it) ==
  The({ IF e.ub THEN [ub |-> TRUE, fresh |-> TRUE, c |-> c]
        ELSE [ub |-> FALSE, fresh |-> it \notin e.c.alloc,
              c |-> move_to_head([e.c EXCEPT !.alloc = @ \cup {it}, !.tag[it] = u,
                                  !.obj[it] = Stored(object), !.prev[it] = NULL,
                                  !.next[it] = NULL, !.olen[it] = Len(object)], it).c]
      : e \in {EvictUntil(c, Len(object))} })

(***************************************************************************)
(* cache_add (cache.c 49-68), under the write lock: evict, then Malloc the *)
(* item at address it, fill it, charge remainlen and move it to the head.  *)
(* fresh says whether it is an address Malloc could return (not live).     *)
(***************************************************************************)
cache_add(c, u, object, it) ==
  The({ IF e.ub THEN [ub |-> TRUE, fresh |-> TRUE, c |-> c]
        ELSE IF Overruns(object) THEN [ub |-> TRUE, fresh |-> it \notin e.c.alloc, c |-> e.c]
        ELSE The({ [ub |-> m.ub, fresh |-> it \notin e.c.alloc, c |-> m.c] :
                   m \in { move_to_head(n, it) :
                           n \in {[e.c EXCEPT !.alloc = @ \cup {it}, !.tag[it] = u,
                                   !.obj[it] = Stored(object), !.prev[it] = NULL,
                                   !.next[it] = NULL, !.olen[it] = Len(object),
                                   !.remainlen = @ - Len(object)]} } })
      : e \in {EvictUntil(c, Len(object))} })

(***************************************************************************)
(* The scan of cache_lookup (cache.c 88-90) from item p.  Reading the tag  *)
(* of a freed item is an error ("ub"); coming back to an item already     *)
(* passed means the loop never ends ("spin").                              *)
(***************************************************************************)
RECURSIVE ScanFrom(_, _, _, _)
ScanFrom(c, p, u, seen) ==
  IF p = NULL THEN [res |-> "miss", it |-> NULL]
  ELSE IF p \in seen THEN [res |-> "spin", it |-> NULL]
  ELSE IF ~Live(c, p) THEN [res |-> "ub", it |-> p]
  ELSE IF c.tag[p] = u THEN [res |-> "hit", it |-> p]
  ELSE ScanFrom(c, c.next[p], u, seen \cup {p})

-----------------------------------------------------------------------------
(* cache_init (cache.c 6-12), before any thread runs. *)
Init ==
  /\ head = NULL /\ tail = NULL /\ remainlen = MAX_CACHE_SIZE
  /\ prev = [p \in Items |-> NULL] /\ next = [p \in Items |-> NULL]
  /\ tag = [p \in Items |-> NoUrl] /\ olen = [p \in Items |-> 0]
  /\ obj = [p \in Items |-> <<>>] /\ alloc = {}
  /\ readers = {}
  /\ pc = [t \in Threads |-> "idle"] /\ url = [t \in Threads |-> NoUrl]
  /\ item = [t \in Threads |-> NULL] /\ buf = [t \in Threads |-> <<>>]

(* A write section may start only when no reader holds the lock. *)
WriteLockFree == readers = {}

(* run_thread reads the request line and its URL (proxy.c 94-100). *)
Request(t, u) ==
  /\ pc[t] = "idle"
  /\ pc' = [pc EXCEPT ![t] = "lookup"] /\ url' = [url EXCEPT ![t] = u]
  /\ UNCHANGED <<cacheVars, readers, item, buf>>

(* The request line cannot be read or split into three words (proxy.c    *)
(* 96-100): end_thread before the cache is consulted.                    *)
BadRequest(t) ==
  /\ pc[t] = "idle"
  /\ pc' = [pc EXCEPT ![t] = "done"]
  /\ UNCHANGED <<cacheVars, readers, url, item, buf>>

(* The read section of cache_lookup (cache.c 87-97): scan, copy the       *)
(* object out, unlock.  A miss returns 0 and run_thread fetches.          *)
LookupRead(t) ==
  /\ pc[t] = "lookup"
  /\ \E s \in {ScanFrom(Cache, head, url[t], {})} :
       CASE s.res = "hit" ->
              /\ pc' = [pc EXCEPT ![t] = "move"]
              /\ item' = [item EXCEPT ![t] = s.it]
              /\ buf' = [buf EXCEPT ![t] = obj[s.it]]
              /\ UNCHANGED readers
         [] s.res = "miss" ->
              /\ pc' = [pc EXCEPT ![t] = "fetch"] /\ UNCHANGED <<readers, item, buf>>
         [] s.res = "spin" ->
              /\ pc' = [pc EXCEPT ![t] = "spin"] /\ readers' = readers \cup {t}
              /\ UNCHANGED <<item, buf>>
         [] s.res = "ub" ->
              /\ pc' = [pc EXCEPT ![t] = "ub"] /\ UNCHANGED <<readers, item, buf>>
  /\ UNCHANGED <<cacheVars, url>>

(* The write section of cache_lookup (cache.c 98-101): move_to_head on   *)
(* the item found before the lock was dropped.  run_thread then answers  *)
(* from the copy, or fetches if its length is 0 (proxy.c 103-106).       *)
LookupMove(t) ==
  /\ pc[t] = "move" /\ WriteLockFree
  /\ \E r \in {move_to_head(Cache, item[t])} :
       IF r.ub THEN pc' = [pc EXCEPT ![t] = "ub"] /\ UNCHANGED cacheVars
       ELSE /\ StoreCache(r.c)
            /\ pc' = [pc EXCEPT ![t] = IF Len(buf[t]) > 0 THEN "done" ELSE "fetch"]
  /\ UNCHANGED <<readers, url, item, buf>>

(* run_thread's miss path (proxy.c 108-185).  It ends without touching   *)
(* the cache when the method is not GET (110-111), the URL does not parse *)
(* (113-123) or Open_clientfd fails (168-170); otherwise the response is  *)
(* forwarded and copied into object.  The request data deciding which is  *)
(* abstracted, so the choice is nondeterministic.                         *)
FetchFail(t) ==
  /\ pc[t] = "fetch"
  /\ pc' = [pc EXCEPT ![t] = "done"]
  /\ UNCHANGED <<cacheVars, readers, url, item, buf>>

Fetch(t) ==
  /\ pc[t] = "fetch"
  /\ \E object \in {CopyFrom(Resp[url[t]], 0, <<>>)} :
       /\ buf' = [buf EXCEPT ![t] = object]
       /\ pc' = [pc EXCEPT ![t] = IF Len(object) <= MAX_OBJECT_SIZE THEN "add" ELSE "done"]
  /\ UNCHANGED <<cacheVars, readers, url, item>>

(* cache_add's write section; Malloc returns any address not live. *)
Add(t) ==
  /\ pc[t] = "add" /\ WriteLockFree
  /\ \E it \in Items :
     \E r \in {cache_add(Cache, url[t], buf[t], it)} :
       /\ r.fresh
       /\ StoreCache(r.c)
       /\ pc' = [pc EXCEPT ![t] = IF r.ub THEN "ub" ELSE "done"]
  /\ UNCHANGED <<readers, url, item, buf>>

(* end_thread (proxy.c 189-196); the slot serves the next connection. *)
Reply(t) ==
  /\ pc[t] = "done"
  /\ pc' = [pc EXCEPT ![t] = "idle"] /\ url' = [url EXCEPT ![t] = NoUrl]
  /\ item' = [item EXCEPT ![t] = NULL] /\ buf' = [buf EXCEPT ![t] = <<>>]
  /\ UNCHANGED <<cacheVars, readers>>

Next ==
  \E t \in Threads :
    \/ \E u \in Urls : Request(t, u)
    \/ BadRequest(t)
    \/ LookupRead(t) \/ LookupMove(t)
    \/ FetchFail(t) \/ Fetch(t) \/ Add(t) \/ Reply(t)

Spec == Init /\ [][Next]_vars

-----------------------------------------------------------------------------
TypeOK ==
  /\ head \in Items \cup {NULL} /\ tail \in Items \cup {NULL}
  /\ remainlen \in 0 .. MAX_CACHE_SIZE /\ alloc \subseteq Items
  /\ prev \in [Items -> Items \cup {NULL}] /\ next \in [Items -> Items \cup {NULL}]
  /\ tag \in [Items -> Urls \cup {NoUrl}] /\ olen \in [Items -> 0 .. MAX_OBJECT_SIZE]
  /\ readers \subseteq Threads
  /\ pc \in [Threads -> {"idle", "lookup", "move", "fetch", "add", "done", "spin", "ub"}]
  /\ item \in [Threads -> Items \cup {NULL}]

(***************************************************************************)
(* remainlen (cache.c 65, 75) is the capacity less the lengths of the      *)
(* live items: cache_add charges what it stores, and cache_evict credits   *)
(* what it frees, through every eviction loop and every address reuse.     *)
(***************************************************************************)
RemainAccounting ==
  remainlen + MapThenSumSet(LAMBDA p : olen[p], alloc) = MAX_CACHE_SIZE

(***************************************************************************)
(* A cache hit gives the client what the server sent for that URL, when   *)
(* the response is text that strcpy (cache.c 61) copies whole: no NUL     *)
(* byte, and shorter than the object buffer so that the memset of         *)
(* proxy.c 175 leaves its terminator.  The objectlen bytes cache_lookup   *)
(* copies out (cache.c 95-96) are then the whole response, as run_thread's *)
(* copy loop (proxy.c 177-185) assembled it chunk by chunk, through any   *)
(* evictions and reuses of the item's address by the other thread.        *)
(***************************************************************************)
TextResponse(u) ==
  Len(Response(u)) < MAX_OBJECT_SIZE /\ \A k \in DOMAIN Response(u) : Response(u)[k] # 0

HitReturnsTextResponse ==
  \A t \in Threads : pc[t] = "move" /\ TextResponse(url[t]) => buf[t] = Response(url[t])

(***************************************************************************)
(* No thread reads or writes a CacheItem after cache_evict freed it, nor   *)
(* dereferences a NULL tail: the links move_to_head and cache_evict leave  *)
(* behind (cache.c 36-45, 73-74) only lead to live items.                  *)
(***************************************************************************)
NoUseAfterFree == \A t \in Threads : pc[t] # "ub"

(***************************************************************************)
(* cache_lookup's scan (cache.c 88-90) ends: following next from head      *)
(* never comes back to an item, so a lookup never keeps the read lock     *)
(* forever.                                                                *)
(***************************************************************************)
LookupTerminates == \A t \in Threads : pc[t] # "spin"

(***************************************************************************)
(* The item cache_lookup found under the read lock is still that URL's     *)
(* live item when it calls move_to_head under the write lock (cache.c      *)
(* 97-99), although another thread may write in between.                   *)
(***************************************************************************)
LookupItemStaysCached ==
  \A t \in Threads : pc[t] = "move" => item[t] \in alloc /\ tag[item[t]] = url[t]
====
