---------------------------- MODULE DesignCache ----------------------------
(***************************************************************************)
(* FigmaClient.getFile and getNodes over the disk cache FigmaCache, which  *)
(* every pi process shares: ask for the file's version, look the answer up *)
(* under it, else fetch, store and evict.  The file is edited all the      *)
(* while.  Contents are told apart by the version they show; a file being  *)
(* written holds Partial, which does not parse.                            *)
(***************************************************************************)
EXTENDS Integers, FiniteSets

CONSTANTS
  Clients,     \* calls side by side
  Queries,     \* node ids and options
  MaxVersion,  \* bound: versions of the file
  MaxRetries,  \* FIGMA_MAX_RETRIES
  MaxEntries,  \* FigmaCache's maxEntries
  MaxCalls,    \* bound: calls in all
  Partial

VARIABLES
  current,  \* the file's version at Figma
  entries,  \* the cache directory: of each key's file, what it holds and which
            \* files have been written since
  calls,    \* calls begun
  client,   \* each call: pc, query, asked, version, attempt, answer, what it listed
            \* and doomed, and the openings up to its listing
  openings, \* history: how many files have been opened for writing
  paid      \* history: how many of them an eviction has listed and gone through

cacheVars == <<current, entries, calls, client, openings, paid>>

NoCall == [pc |-> "idle", query |-> Partial, asked |-> 0, version |-> 0,
         attempt |-> 0, answer |-> Partial, listed |-> {}, doomed |-> {}, upTo |-> 0]

CacheInit ==
  /\ current = 1 /\ entries = [k \in {} |-> Partial] /\ calls = 0
  /\ client = [c \in Clients |-> NoCall] /\ openings = 0 /\ paid = 0

EditDesign ==
  /\ current < MaxVersion
  /\ current' = current + 1
  /\ UNCHANGED <<entries, calls, client, openings, paid>>

At(c, pc) == client[c].pc = pc
Proceed(c, pc) == client' = [client EXCEPT ![c].pc = pc]

Ask(c, q) ==
  /\ At(c, "idle") /\ calls < MaxCalls
  /\ calls' = calls + 1
  /\ client' = [client EXCEPT ![c] = [NoCall EXCEPT !.pc = "version", !.query = q,
                                                  !.asked = current]]
  /\ UNCHANGED <<current, entries, openings, paid>>

(* fetchJsonWithRetries, one attempt: the version, or the nodes.  Figma    *)
(* does give each file a version: 'unknown' is not modelled.               *)
Answered(c) ==
  /\ At(c, "version") \/ At(c, "fetch")
  /\ client' = [client EXCEPT ![c].attempt = 0,
       ![c].pc = IF @ = "version" THEN "lookup" ELSE "open",
       ![c].version = IF At(c, "version") THEN current ELSE @,
       ![c].answer = IF At(c, "fetch") THEN current ELSE @]
  /\ UNCHANGED <<current, entries, calls, openings, paid>>

(* A 429, a timeout or a network error, made again while attempts last.    *)
Repeated(c) ==
  /\ At(c, "version") \/ At(c, "fetch")
  /\ client[c].attempt < MaxRetries
  /\ client' = [client EXCEPT ![c].attempt = @ + 1]
  /\ UNCHANGED <<current, entries, calls, openings, paid>>

(* Any other status, or the last attempt.                                  *)
Refused(c) ==
  /\ At(c, "version") \/ At(c, "fetch")
  /\ Proceed(c, "failed")
  /\ UNCHANGED <<current, entries, calls, openings, paid>>

(* Broken variant: the version is left out of the key.                     *)
KeyUnversioned(c) == [query |-> client[c].query, version |-> 0]
(* cacheParts                                                              *)
Key(c) == [query |-> client[c].query, version |-> client[c].version]

Held == DOMAIN entries
Without(keys) ==
  [k \in Held \ keys |-> [entries[k] EXCEPT !.newer = @ \ keys]]

Lookup(c) ==
  /\ At(c, "lookup")
  /\ IF Key(c) \in Held /\ entries[Key(c)].content # Partial
     THEN client' = [client EXCEPT ![c].pc = "done", ![c].answer = entries[Key(c)].content]
     ELSE Proceed(c, "fetch")
  /\ UNCHANGED <<current, entries, calls, openings, paid>>

(* FigmaCache.set: the file is emptied and written, in place.              *)
Write(c, content) ==
  entries' = [k \in Held \cup {Key(c)} |->
                IF k = Key(c) THEN [content |-> content, newer |-> {}]
                ELSE [entries[k] EXCEPT !.newer = @ \cup {Key(c)}]]

OpenEntry(c) ==
  /\ At(c, "open") /\ Write(c, Partial) /\ Proceed(c, "write")
  /\ openings' = openings + 1
  /\ UNCHANGED <<current, calls, paid>>

(* A file removed under the writer's hands stays removed.                  *)
WriteEntry(c) ==
  /\ At(c, "write") /\ Proceed(c, "evict")
  /\ IF Key(c) \in Held THEN Write(c, client[c].answer) ELSE UNCHANGED entries
  /\ UNCHANGED <<current, calls, openings, paid>>

(* A full disk, or a directory that cannot be written.                     *)
WriteFails(c) ==
  /\ At(c, "open") \/ At(c, "write")
  /\ Proceed(c, "failed")
  /\ UNCHANGED <<current, entries, calls, openings, paid>>

(* evictOldEntries: a directory within the limit, or unreadable, is left.  *)
ListEntries(c) ==
  /\ At(c, "evict")
  /\ \/ Cardinality(Held) <= MaxEntries /\ Proceed(c, "done") /\ paid' = openings
     \/ Proceed(c, "done") /\ UNCHANGED paid
     \/ /\ Cardinality(Held) > MaxEntries
        /\ client' = [client EXCEPT ![c].pc = "stat", ![c].listed = Held, ![c].upTo = openings]
        /\ UNCHANGED paid
  /\ UNCHANGED <<current, entries, calls, openings>>

(* The stats, side by side: the oldest beyond the limit are those that as  *)
(* many newer ones as are kept have overtaken.  A file that has gone since *)
(* the listing makes its stat reject, and with it the call, which has its  *)
(* answer: nothing is evicted.                                             *)
StatEntries(c) ==
  LET listed == client[c].listed IN
  /\ At(c, "stat")
  /\ IF listed \subseteq Held
     THEN client' = [client EXCEPT ![c].pc = "remove", ![c].doomed =
            {k \in listed : Cardinality(entries[k].newer \cap listed) >= MaxEntries}]
     ELSE Proceed(c, "failed")
  /\ UNCHANGED <<current, entries, calls, openings, paid>>

(* A file another call has removed already makes rm reject, and the call;  *)
(* the other files go all the same.                                        *)
RemoveOld(c) ==
  /\ At(c, "remove")
  /\ entries' = Without(client[c].doomed)
  /\ paid' = IF client[c].upTo > paid THEN client[c].upTo ELSE paid
  /\ Proceed(c, IF client[c].doomed \subseteq Held THEN "done" ELSE "failed")
  /\ UNCHANGED <<current, calls, openings>>

CallReturns(c) ==
  /\ At(c, "done") \/ At(c, "failed")
  /\ client' = [client EXCEPT ![c] = NoCall]
  /\ UNCHANGED <<current, entries, calls, openings, paid>>

CacheNext ==
  \/ EditDesign
  \/ \E c \in Clients :
       \/ \E q \in Queries : Ask(c, q)
       \/ Answered(c) \/ Repeated(c) \/ Refused(c) \/ Lookup(c)
       \/ OpenEntry(c) \/ WriteEntry(c) \/ WriteFails(c)
       \/ ListEntries(c) \/ StatEntries(c) \/ RemoveOld(c) \/ CallReturns(c)

CacheSpec == CacheInit /\ [][CacheNext]_cacheVars

-----------------------------------------------------------------------------
(* Whatever is edited while calls look up, fetch, write and evict side by  *)
(* side: what a call answers is no older than the file was when it was     *)
(* asked (FigmaClient.ts:56).  And the cache outgrows its limit by no more *)
(* than the files opened since the last listing that found it within the   *)
(* limit or whose eviction went through: one is skipped when a file it     *)
(* listed is gone before its stat, or it cannot list (FigmaCache.ts:38).   *)
AnswerIsCurrent ==
  /\ \A c \in Clients : At(c, "done") => client[c].answer \in client[c].asked .. current
  /\ Cardinality(Held) <= MaxEntries + (openings - paid)
=============================================================================
