----------------------------- MODULE ListWriters -----------------------------
(***************************************************************************)
(* The two programs that fill DragonflyDB with recommendation lists: the   *)
(* seeder (SeedDragonfly), which writes the id mappings, the popular list  *)
(* and a list per user through plain pipelines of go-redis, and the batch  *)
(* processor (precompute_recommendations), which searches Milvus for a     *)
(* batch of users and writes their lists in one MULTI/EXEC of redis-py.    *)
(* Either may fail at any remote call and exits then.  The batch processor *)
(* makes passes, of all users or of those affected since the last one, and *)
(* nothing keeps two passes from running at the same time.                 *)
(*                                                                         *)
(* A list is the sequence of its items; scores follow their places.  What  *)
(* Milvus finds for a user is left out.                                    *)
(***************************************************************************)
EXTENDS Naturals, FiniteSets, FiniteSetsExt, Sequences, SequencesExt

CONSTANTS
    Users,       \* sequence of users, in the order the seeder takes them
    Catalogue,   \* sequence of items, of which a seeder generates the first ones
    CategoryOf,  \* the category of an item
    Preferences, \* the categories a user prefers, no one twice
    BatchSize,
    TopK,        \* topKCount
    Passes,      \* the runs of the batch processor
    Selections   \* user_embeddings that a pass may be given: sequences of users

ASSUME SizesAssumption == BatchSize \in Nat \ {0} /\ TopK \in Nat \ {0}
ASSUME OrderAssumption == Users \in Seq(ToSet(Users)) /\ Catalogue \in Seq(ToSet(Catalogue))
ASSUME OnceAssumption  == IsInjective(Users) /\ IsInjective(Catalogue)
ASSUME SelectionsAssumption ==
    \A selected \in Selections : selected \in Seq(ToSet(Users)) /\ IsInjective(selected)

VARIABLES
    items,   \* the items the seeder generated
    phase,   \* the phase of SeedDragonfly, or how it ended
    index,   \* items or users of the phase that are in the pipeline or beyond
    pipe,    \* commands of the pipeline
    flush,   \* is the pipeline being executed
    cmdErr,  \* did DragonflyDB refuse a command of it
    idMap,   \* stock:id_map:{item}, the offset of an item
    nextBit, \* stock:next_bit_pos
    popular, \* rec:popular:top_k
    rec,     \* rec:{user}:top_k
    job,     \* the next step of each pass, or how it ended
    users,   \* user_embeddings of a pass, by their users
    first,   \* place of the first user of its batch
    stale    \* history: users of a pass whose list nobody has written since it began

seeder      == <<phase, index, pipe, flush, cmdErr>>
batch       == <<job, users, first>>
writersVars == <<items, seeder, idMap, nextBit, popular, rec, batch, stale>>

Missing == [by |-> "none"]

WritersInit ==
    /\ \E n \in 0 .. Len(Catalogue) : items = SubSeq(Catalogue, 1, n)
    /\ phase = "mappings" /\ index = 0 /\ pipe = <<>> /\ flush = FALSE /\ cmdErr = FALSE
    /\ idMap = <<>> /\ nextBit = Missing /\ popular = Missing
    /\ rec = [u \in ToSet(Users) |-> Missing]
    /\ job = [p \in Passes |-> "none"] /\ users = [p \in Passes |-> <<>>]
    /\ first = [p \in Passes |-> 1] /\ stale = [p \in Passes |-> {}]

-----------------------------------------------------------------------------
(* generateUserRecs *)

InCategory(category) == {item \in ToSet(items) : CategoryOf[item] = category}
Preferred(u) == UNION {InCategory(c) : c \in ToSet(Preferences[u])}

\* Whole categories are added, in any order, until there are enough.
Supplements(u) ==
    LET others == {CategoryOf[item] : item \in ToSet(items)} \ ToSet(Preferences[u])
        size(categories) == Cardinality(Preferred(u) \cup UNION {InCategory(c) : c \in categories})
    IN  IF Cardinality(Preferred(u)) >= TopK THEN {{}}
        ELSE {categories \in SUBSET others :
                /\ size(categories) >= TopK \/ categories = others
                /\ categories # {} => \E c \in categories : size(categories \ {c}) < TopK}

Candidates(u, supplement) == Preferred(u) \cup UNION {InCategory(c) : c \in supplement}

\* Shuffled, and cut to TopK.
Cuts(candidates) ==
    UNION {SetToSeqs(s) : s \in kSubset(Min({TopK, Cardinality(candidates)}), candidates)}

\* A mistake: the supplement takes the place of the preferred items.
GenerateUserRecsAnew(u) ==
    UNION {Cuts(UNION {InCategory(c) : c \in supplement}) : supplement \in Supplements(u)}

GenerateUserRecs(u) == UNION {Cuts(Candidates(u, supplement)) : supplement \in Supplements(u)}

-----------------------------------------------------------------------------
(* SeedDragonfly *)

\* A mistake: a pipeline is executed only when it is full.
BatchEndsWhenFull(n, len) == n % BatchSize = 0

\* After the n-th of len elements the pipeline is executed.
BatchEnds(n, len) == n % BatchSize = 0 \/ n = len

Queue(command, len) ==
    /\ pipe' = Append(pipe, command)
    /\ index' = index + 1
    /\ flush' = BatchEnds(index + 1, len)
    /\ UNCHANGED <<items, phase, cmdErr, idMap, nextBit, popular, rec, batch, stale>>

\* The pipeline before was executed without an error.
GoesOn == ~flush /\ ~cmdErr

SeedMapping ==
    /\ phase = "mappings" /\ GoesOn /\ index < Len(items)
    /\ Queue([op |-> "map", item |-> items[index + 1], offset |-> index], Len(items))

SeedUser ==
    /\ phase = "users" /\ GoesOn /\ index < Len(Users)
    /\ \E list \in GenerateUserRecs(Users[index + 1]) :
          Queue([op |-> "rec", user |-> Users[index + 1], list |-> list], Len(Users))

\* Exec: the commands run one by one, and others may run in between; one that
\* is refused does not stop those behind it.
Exec ==
    /\ flush
    /\ LET command == Head(pipe) IN
          \/ /\ command.op = "map"
             /\ idMap' = [item \in DOMAIN idMap \cup {command.item} |->
                            IF item = command.item THEN command.offset ELSE idMap[item]]
             /\ UNCHANGED <<rec, stale, cmdErr>>
          \/ /\ command.op = "rec"
             /\ rec' = [rec EXCEPT ![command.user] =
                          [by |-> "seed", list |-> command.list, expires |-> TRUE]]
             /\ stale' = [p \in Passes |-> stale[p] \ {command.user}]
             /\ UNCHANGED <<idMap, cmdErr>>
          \/ /\ cmdErr' = TRUE
             /\ UNCHANGED <<idMap, rec, stale>>
    /\ pipe' = Tail(pipe)
    /\ flush' = (Len(pipe) > 1)
    /\ UNCHANGED <<items, phase, index, nextBit, popular, batch>>

\* A mistake: the error of the pipeline is not looked at.
SetNextBitAnyway ==
    /\ phase = "mappings" /\ ~flush /\ index = Len(items)
    /\ nextBit' = [by |-> "seed", position |-> Len(items)]
    /\ phase' = "popular" /\ index' = 0
    /\ UNCHANGED <<items, pipe, flush, cmdErr, idMap, popular, rec, batch, stale>>

\* The last line of seedStockMappings.
SetNextBit ==
    /\ phase = "mappings" /\ GoesOn /\ index = Len(items)
    /\ nextBit' = [by |-> "seed", position |-> Len(items)]
    /\ phase' = "popular" /\ index' = 0
    /\ UNCHANGED <<items, pipe, flush, cmdErr, idMap, popular, rec, batch, stale>>

SeedPopularItems ==
    /\ phase = "popular"
    /\ popular' = [by |-> "seed", list |-> SubSeq(items, 1, Min({TopK, Len(items)})), expires |-> FALSE]
    /\ phase' = "users"
    /\ UNCHANGED <<items, index, pipe, flush, cmdErr, idMap, nextBit, rec, batch, stale>>

SeedEnds ==
    /\ phase = "users" /\ GoesOn /\ index = Len(Users)
    /\ phase' = "done"
    /\ UNCHANGED <<items, index, pipe, flush, cmdErr, idMap, nextBit, popular, rec, batch, stale>>

\* An error ends the program: a command was refused, or the connection is lost,
\* and then commands that were not sent are never executed.
SeedFails ==
    /\ phase \notin {"done", "failed"}
    /\ phase' = "failed" /\ flush' = FALSE /\ pipe' = <<>>
    /\ UNCHANGED <<items, index, cmdErr, idMap, nextBit, popular, rec, batch, stale>>

-----------------------------------------------------------------------------
(* precompute_recommendations *)

\* chunk(user_embeddings, batch_size): the users of a batch.
Chunk(p) == ToSet(SubSeq(users[p], first[p], Min({first[p] + BatchSize - 1, Len(users[p])})))

\* A pass over the users it is given: all of them, those affected, or none.
StartPass(p) ==
    /\ job[p] = "none"
    /\ \E selected \in Selections :
          /\ users' = [users EXCEPT ![p] = selected]
          /\ stale' = [stale EXCEPT ![p] = ToSet(selected)]
          /\ job' = [job EXCEPT ![p] = IF selected = <<>> THEN "done" ELSE "search"]
    /\ UNCHANGED <<items, seeder, idMap, nextBit, popular, rec, first>>

\* Hits for every vector of the batch, or an error.
Search(p) ==
    /\ job[p] = "search"
    /\ \E next \in {"execute", "failed"} : job' = [job EXCEPT ![p] = next]
    /\ UNCHANGED <<items, seeder, idMap, nextBit, popular, rec, users, first, stale>>

\* zip(user_ids, results), SET and EXPIRE for each.
Write(p, expires) ==
    /\ rec' = [u \in DOMAIN rec |->
                  IF u \in Chunk(p) THEN [by |-> "job", pass |-> p, expires |-> expires] ELSE rec[u]]
    /\ stale' = [q \in Passes |-> stale[q] \ Chunk(p)]

NextBatch(p) == IF first[p] + BatchSize <= Len(users[p]) THEN "search" ELSE "done"

\* A mistake: pipeline(transaction=False), which may break off after a SET.
ExecuteUnwatched(p) ==
    /\ job[p] = "execute"
    /\ \/ Write(p, TRUE) /\ job' = [job EXCEPT ![p] = NextBatch(p)]
       \/ Write(p, FALSE) /\ job' = [job EXCEPT ![p] = "failed"]
    /\ first' = [first EXCEPT ![p] = @ + BatchSize]
    /\ UNCHANGED <<items, seeder, idMap, nextBit, popular, users>>

\* A mistake: an error is caught, and the pass goes on with the next batch.
ExecuteAndGoOn(p) ==
    /\ job[p] = "execute"
    /\ Write(p, TRUE) \/ UNCHANGED <<rec, stale>>
    /\ first' = [first EXCEPT ![p] = @ + BatchSize]
    /\ job' = [job EXCEPT ![p] = NextBatch(p)]
    /\ UNCHANGED <<items, seeder, idMap, nextBit, popular, users>>

\* MULTI/EXEC: all or nothing; an error may come before or after.
Execute(p) ==
    /\ job[p] = "execute"
    /\ \/ /\ Write(p, TRUE) /\ first' = [first EXCEPT ![p] = @ + BatchSize]
          /\ \E next \in {NextBatch(p), "failed"} : job' = [job EXCEPT ![p] = next]
       \/ job' = [job EXCEPT ![p] = "failed"] /\ UNCHANGED <<rec, stale, first>>
    /\ UNCHANGED <<items, seeder, idMap, nextBit, popular, users>>

-----------------------------------------------------------------------------

SeedStep == SeedMapping \/ SeedUser \/ Exec \/ SetNextBit \/ SeedPopularItems \/ SeedEnds

PassStep(p) == StartPass(p) \/ Search(p) \/ Execute(p)

WritersNext == SeedStep \/ SeedFails \/ \E p \in Passes : PassStep(p)

WritersSpec == WritersInit /\ [][WritersNext]_writersVars

-----------------------------------------------------------------------------

NextBitIsFree ==
    nextBit # Missing => {idMap[item] : item \in DOMAIN idMap} = {n - 1 : n \in 1 .. nextBit.position}

\* A seeder that ends without an error has left nothing out, whatever the
\* number of items and users against the size of a batch: each item is mapped
\* to its place, the popular list is there, and each user has a list.  One
\* that died on the way left a next bit position only if every bit below it
\* has its item and no item a bit beyond.
SeedIsComplete ==
    /\ NextBitIsFree
    /\ phase = "done" =>
          /\ \A n \in DOMAIN items : items[n] \in DOMAIN idMap /\ idMap[items[n]] = n - 1
          /\ popular # Missing /\ \A u \in DOMAIN rec : rec[u] # Missing

\* A pass renews the lists of its users in the order it was given them, however
\* it overlaps with the seeder and other passes and at whatever call it breaks
\* off: when a list is the pass's own, those of the users before have all been
\* written since the pass began, and when it ends without an error, so have
\* those of all its users.  No list is without an expiry, which a user who drops
\* out would keep for ever.
PassesRenewInOrder ==
    /\ \A u \in DOMAIN rec : rec[u] # Missing => rec[u].expires
    /\ \A p \in Passes :
          /\ \A m, n \in DOMAIN users[p] :
                m < n /\ rec[users[p][n]].by = "job" /\ rec[users[p][n]].pass = p
                    => users[p][m] \notin stale[p]
          /\ job[p] = "done" => stale[p] = {}

\* A seeded list is as long as the items allow, names no item twice, and holds
\* every preferred item unless the last category that was added brought more
\* than was needed: the shuffle then treats all alike.
SeededListsFill ==
    \A u \in DOMAIN rec : rec[u].by = "seed" =>
        /\ Len(rec[u].list) = Min({TopK, Len(items)}) /\ IsInjective(rec[u].list)
        /\ (\A supplement \in Supplements(u) : Cardinality(Candidates(u, supplement)) <= TopK)
              => Preferred(u) \subseteq ToSet(rec[u].list)
=============================================================================
