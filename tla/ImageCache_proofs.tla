-------------------------- MODULE ImageCache_proofs --------------------------
(***************************************************************************)
(* The safety properties of ImageCache, for any coins, any number of       *)
(* downloads and transformations under way and any answers of the server.  *)
(***************************************************************************)
EXTENDS ImageCache, TLAPS

\* The variables are functions on the keys, the threads and the coins.
Typed ==
  /\ file \in [Keys -> Contents("source") \cup Contents("target")]
  /\ mem \in [Keys -> Pixmaps("source") \cup Pixmaps("target")]
  /\ TypeOK

\* Which operation can be where, and on which thread.
Placed ==
  \A t \in Threads :
    /\ th[t].op \in {"paint", "askSource", "askTarget", "told"} => t = UI
    /\ t = UI => th[t].op \in {"idle", "paint", "askSource", "askTarget", "told"}
    /\ th[t].op = "idle" => th[t].at = "out"
    /\ th[t].at \in {"lock", "open", "answer"} => th[t].op = "load"
    /\ th[t].op = "keep" => th[t].at \in {"preload", "insert", "unlock"}
    /\ th[t].at = "unlock" => th[t].op = "keep"
    /\ th[t].at \in {"square", "squareWritten", "round", "roundWritten"} => th[t].op = "transform"
    /\ th[t].at = "draw" => th[t].op = "paint"
    /\ th[t].at = "copy" => th[t].op = "origin"
    /\ th[t].at = "get" => th[t].op \in {"paint", "origin"}

\* A pixmap is held at two places.
Holders == \A t \in Threads : held[t] # "no" <=> th[t].at \in {"draw", "copy"}

TornKind == [source |-> "tornSource", target |-> "tornTarget"]

\* Who relies on an entry finds one; the insertion under way will make one.
Loaded ==
  \A t \in Threads :
    /\ th[t].at \in {"get", "draw", "copy"} => mem[Key(t)] # "absent"
    /\ th[t].op \in {"askTarget", "transform"} => mem[<<th[t].coin, "source">>] # "absent"

\* What an entry, a pointer and a drawn row go back to.
Entries ==
  /\ \A k \in Keys : mem[k] = "null" => TornKind[k[2]] \in mishaps[k[1]]
  /\ \A t \in Threads :
       /\ held[t] # "null"
       /\ held[t] = "freed" =>
            mishaps[th[t].coin] \cap {TornKind[Kind(th[t].op)], "raced"} # {}
  /\ BlankExplained

\* The picture in memory is that of the file, unless it is downloaded again.
Pictures ==
  /\ \A c \in Coins :
       mem[<<c, "source">>] \in Whole["source"] =>
         file[<<c, "source">>] \in Whole["source"] \/ "again" \in mishaps[c]
  /\ \A t \in Threads : th[t].at = "answer" => file[<<th[t].coin, "source">>] = "partial"

IInv == Typed /\ Placed /\ Holders /\ LoadLockKept /\ Loaded /\ Entries /\ Pictures

-----------------------------------------------------------------------------
ThreadState == [op : Ops, at : Places, coin : Coins]

LEMMA UiIsNoTask == UI \notin Tasks /\ UI \in Threads /\ Tasks \subseteq Threads
  BY MaxTasksAssumption DEF UI, Tasks, Threads

LEMMA Kinds ==
  /\ Whole["source"] = {"big", "small"} /\ Whole["target"] = {"square", "round"}
  /\ TornKind["source"] = "tornSource" /\ TornKind["target"] = "tornTarget"
  BY DEF Whole, TornKind

LEMMA KeyOfThread ==
  ASSUME th \in [Threads -> ThreadState], NEW t \in Threads
  PROVE  /\ th[t] \in ThreadState /\ th[t].coin \in Coins
         /\ Key(t) \in Keys /\ Key(t)[1] = th[t].coin /\ Key(t)[2] = Kind(th[t].op)
         /\ Kind(th[t].op) \in {"source", "target"}
  BY DEF Key, Keys, Kind, ThreadState

LEMMA InitIInv == Init => IInv
<1> SUFFICES ASSUME Init PROVE IInv
  OBVIOUS
<1> USE DEF Init
<1>1. Typed
  <2>1. PICK c \in Coins : th = [t \in Threads |-> Idle(c)]
    OBVIOUS
  <2>2. th \in [Threads -> ThreadState]
    BY <2>1 DEF Idle, ThreadState, Ops, Places
  <2>3. file \in [Keys -> Contents("source") \cup Contents("target")]
    <3>1. UNION {Contents(kind) \ {"partial"} : kind \in {"source", "target"}}
             \subseteq Contents("source") \cup Contents("target")
      OBVIOUS
    <3>2. QED BY <3>1
  <2>4. mem \in [Keys -> Pixmaps("source") \cup Pixmaps("target")] /\ \A k \in Keys : mem[k] \in Pixmaps(k[2])
    BY DEF Pixmaps
  <2>5. mishaps \in [Coins -> SUBSET Mishaps]
    BY DEF Mishaps
  <2>6. QED BY <2>2, <2>3, <2>4, <2>5 DEF Typed, TypeOK, ThreadState
<1>2. Placed
  BY DEF Placed, Idle
<1>3. LoadLockKept
  BY UiIsNoTask DEF LoadLockKept, Downloading, Idle
<1>4. Holders /\ Loaded /\ Entries
  BY DEF Holders, Loaded, Entries, BlankExplained, Idle
<1>5. Pictures
  <2>1. \A c \in Coins : mem[<<c, "source">>] = "absent"
    BY DEF Keys
  <2>2. "absent" \notin Whole["source"]
    BY Kinds
  <2>3. QED BY <2>1, <2>2 DEF Pictures, Idle
<1> QED BY <1>1, <1>2, <1>3, <1>4, <1>5 DEF IInv

\* The key looked up has an entry after the step.
Entered(t) == mem'[Key(t)] # "absent"

\* What looking a key up changes: the threads, and what the view is told.
LookedUp(t) ==
  /\ th' \in [Threads -> ThreadState] /\ Placed'
  /\ done' \subseteq Coins /\ needsPaint' \subseteq Coins
  /\ drawn' \in [Coins -> {"nothing", "default", "blank", "square", "round"}]
  /\ \A c \in Coins : drawn'[c] = "blank" => drawn[c] = "blank"
  /\ \A u \in Threads :
       /\ held[u] # "no" \/ th[u].at = "answer" \/ th'[u].at \in {"answer", "draw", "copy"} => th'[u] = th[u]
       /\ Downloading(u) <=> Downloading(u)'
       /\ Downloading(u) => th'[u].coin = th[u].coin
       /\ th'[u].at \in {"get", "draw", "copy"} =>
            \/ th'[u] = th[u]
            \/ /\ u = t /\ th'[u].coin = th[u].coin
               /\ \/ Entered(t) /\ th[u].op = "paint" /\ th'[u].op = "paint"
                  \/ th[u].op = "transform" /\ th'[u].op = "origin"
       /\ th'[u].op \in {"askTarget", "transform"} =>
            \/ th'[u].op = th[u].op /\ th'[u].coin = th[u].coin
            \/ u = t /\ Entered(t) /\ th[u].op = "askSource" /\ th'[u].coin = th[u].coin
            \/ th[t].op = "askTarget" /\ th[t].coin = th'[u].coin

LEMMA LookupThreads ==
  ASSUME Typed, Placed, Holders, NEW t \in Threads,
         th[t].at \in {"contains", "preload", "insert"},
         \/ FoundBy(t) /\ Entered(t)
         \/ MissedBy(t)
         \/ /\ th' = At(t, th[t].op, "preload") \/ th' = At(t, th[t].op, "insert")
            /\ th[t].op # "keep" \/ th[t].at = "preload"
            /\ UNCHANGED <<done, needsPaint, drawn>>
  PROVE  LookedUp(t)
<1> DEFINE c == th[t].coin
<1>0. /\ th \in [Threads -> ThreadState] /\ th[t] \in ThreadState /\ c \in Coins
      /\ done \subseteq Coins /\ needsPaint \subseteq Coins
      /\ drawn \in [Coins -> {"nothing", "default", "blank", "square", "round"}]
  BY DEF Typed, TypeOK, ThreadState
<1>1. held[t] = "no" /\ th[t].op # "idle"
  BY DEF Placed, Holders
<1> HIDE DEF c
<1>2. ASSUME NEW op \in Ops, NEW at \in {"contains", "preload", "insert", "get", "lock"},
             th' = At(t, op, at), th[t].op # "keep",
             op \in {"askSource", "askTarget"} => t = UI,
             op \in {"load", "origin"} => t # UI,
             op \in {"paint", "askTarget"} /\ op # th[t].op => Entered(t),
             op = "askTarget" => th[t].op \in {"askSource", "askTarget"},
             op = "transform" => th[t].op = "transform",
             op = "origin" => th[t].op \in {"origin", "transform"},
             at = "get" => \/ op = "paint" /\ Entered(t) /\ th[t].op = "paint"
                           \/ op = "origin" /\ th[t].op = "transform",
             \/ op = th[t].op /\ at \in {"preload", "insert"}
             \/ op \in {"askSource", "askTarget"} /\ at = "contains"
             \/ op = "paint" /\ t = UI /\ at = "get"
             \/ op = "origin" /\ at = "get"
             \/ op = "load" /\ at = "lock",
             UNCHANGED <<done, needsPaint, drawn>>
      PROVE  LookedUp(t)
  <2>1. /\ th'[t] = [op |-> op, at |-> at, coin |-> c]
        /\ \A u \in Threads \ {t} : th'[u] = th[u]
        /\ th' \in [Threads -> ThreadState]
    BY <1>0, <1>2 DEF At, c, ThreadState, Ops, Places
  <2>2. Placed'
    BY <1>1, <1>2, <2>1 DEF Placed
  <2>3. QED
    BY <1>0, <1>1, <1>2, <2>1, <2>2 DEF c, LookedUp, Downloading
<1>3. CASE /\ th[t].op = "keep"
           /\ th' = At(t, th[t].op, "unlock") \/ th' = At(t, th[t].op, "insert")
              \/ th' = At(t, th[t].op, "preload")
           /\ done' = done \cup {c} \/ done' = done
           /\ UNCHANGED <<needsPaint, drawn>>
  BY <1>0, <1>1, <1>3 DEF At, Placed, LookedUp, Downloading, ThreadState, Ops, Places
<1>4. CASE Emits(t) /\ th[t].op # "keep" /\ UNCHANGED <<needsPaint, drawn>>
  BY <1>0, <1>1, <1>4 DEF Emits, Ends, Idle, c, Placed, LookedUp, Downloading, ThreadState, Ops, Places
<1>5. CASE t = UI /\ Repaint(c) /\ th[t].op # "keep"
           /\ (drawn' = [drawn EXCEPT ![c] = "default"] \/ UNCHANGED drawn)
  BY <1>0, <1>1, <1>5 DEF Repaint, Idle, Placed, LookedUp, Downloading, ThreadState, Ops, Places
<1>6. ASSUME NEW op \in {"load", "transform"}, t = UI, th[t].op # "keep", Launch(op, c),
             op = "transform" => th[t].op = "askTarget" PROVE LookedUp(t)
  <2> DEFINE f == CHOOSE u \in Free : TRUE
  <2>1. f \in Free
    BY <1>6 DEF Launch
  <2>2. f \in Tasks /\ th[f].op = "idle"
    BY <2>1 DEF Free
  <2>3. th' = [Start(f, op, c) EXCEPT ![UI] = Idle(c)]
    BY <1>6 DEF Launch
  <2> HIDE DEF f
  <2>4. f \in Threads /\ f # UI /\ held[f] = "no" /\ th[f].at = "out"
    BY <2>2, UiIsNoTask DEF Placed, Holders
  <2>5. /\ th'[f] = [op |-> op, at |-> "contains", coin |-> c]
        /\ th'[UI] = Idle(c)
        /\ \A u \in Threads \ {f, UI} : th'[u] = th[u]
        /\ th' \in [Threads -> ThreadState]
    BY <1>0, <1>6, <2>3, <2>4, UiIsNoTask DEF Start, Idle, ThreadState, Ops, Places
  <2>6. \A u \in Threads : Downloading(u) <=> Downloading(u)'
    BY <1>6, <2>2, <2>4, <2>5 DEF Downloading, Idle
  <2>7. \A u \in Threads :
          /\ held[u] # "no" \/ th[u].at = "answer" \/ th'[u].at \in {"answer", "draw", "copy"} => th'[u] = th[u]
          /\ Downloading(u) => th'[u].coin = th[u].coin
    BY <1>1, <1>6, <2>2, <2>4, <2>5 DEF Downloading, Idle
  <2>10. \A u \in Threads :
          /\ th'[u].at \in {"get", "draw", "copy"} => th'[u] = th[u]
          /\ th'[u].op \in {"askTarget", "transform"} =>
               \/ th'[u].op = th[u].op /\ th'[u].coin = th[u].coin
               \/ th[t].op = "askTarget" /\ th[t].coin = th'[u].coin
    BY <1>6, <2>5 DEF Idle, c
  <2>8. /\ drawn' \in [Coins -> {"nothing", "default", "blank", "square", "round"}]
        /\ \A d \in Coins : drawn'[d] = "blank" => drawn[d] = "blank"
        /\ UNCHANGED <<done, needsPaint>>
    BY <1>0, <1>6 DEF Launch
  <2>9. Placed'
    BY <1>6, <2>4, <2>5 DEF Placed, Idle
  <2> QED BY <1>0, <2>5, <2>6, <2>7, <2>8, <2>9, <2>10 DEF LookedUp
<1>7. CASE FoundBy(t) /\ Entered(t)
  <2>1. CASE th[t].op = "paint"
    BY <1>2, <1>7, <2>1 DEF FoundBy, Placed, Ops
  <2>2. CASE th[t].op = "askSource"
    BY <1>2, <1>7, <2>2 DEF FoundBy, Placed, Ops
  <2>3. CASE th[t].op \in {"askTarget", "told"}
    BY <1>5, <1>7, <2>3 DEF FoundBy, c, Placed
  <2>4. CASE th[t].op \in {"load", "transform"}
    BY <1>4, <1>7, <2>4 DEF FoundBy
  <2>5. CASE th[t].op = "keep"
    BY <1>3, <1>7, <2>5 DEF FoundBy, c
  <2>6. QED BY <1>7, <2>1, <2>2, <2>3, <2>4, <2>5 DEF FoundBy
<1>8. CASE MissedBy(t)
  <2>1. CASE th[t].op = "paint"
    BY <1>2, <1>8, <2>1 DEF MissedBy, Placed, Ops
  <2>2. CASE th[t].op \in {"askSource", "askTarget"}
    BY <1>6, <1>8, <2>2 DEF MissedBy, c, Placed
  <2>3. CASE th[t].op = "told"
    BY <1>5, <1>8, <2>3 DEF MissedBy, c, Placed
  <2>4. CASE th[t].op = "load"
    BY <1>2, <1>8, <2>4 DEF MissedBy, Ops, Placed
  <2>5. CASE th[t].op = "transform"
    BY <1>2, <1>8, <2>5 DEF MissedBy, Ops, Placed
  <2>6. QED BY <1>8, <2>1, <2>2, <2>3, <2>4, <2>5 DEF MissedBy
<1>9. CASE /\ th' = At(t, th[t].op, "preload") \/ th' = At(t, th[t].op, "insert")
           /\ th[t].op # "keep" \/ th[t].at = "preload"
           /\ UNCHANGED <<done, needsPaint, drawn>>
  BY <1>0, <1>2, <1>3, <1>9 DEF Placed, ThreadState
<1> QED BY <1>7, <1>8, <1>9

\* The downloads and their locks are as they were.
LEMMA SameDownloads ==
  ASSUME LoadLockKept, UNCHANGED locks,
         \A u \in Tasks :
           /\ Downloading(u) <=> Downloading(u)'
           /\ Downloading(u) => th'[u].coin = th[u].coin,
         \A c \in locks : "refused" \in mishaps[c] => "refused" \in mishaps'[c]
  PROVE  LoadLockKept'
<1>1. \A t, u \in Tasks : Downloading(t)' /\ Downloading(u)' /\ th'[t].coin = th'[u].coin => t = u
  BY DEF LoadLockKept, Downloading
<1>2. \A t \in Tasks : Downloading(t)' => th'[t].coin \in locks'
  BY DEF LoadLockKept, Downloading
<1>3. ASSUME NEW c \in locks PROVE (\E t \in Tasks : Downloading(t)' /\ th'[t].coin = c) \/ "refused" \in mishaps'[c]
  BY DEF LoadLockKept, Downloading
<1> QED BY <1>1, <1>2, <1>3 DEF LoadLockKept

\* Entries are never taken away, so who found one finds it again.
LEMMA LookupLoads ==
  ASSUME Typed, Loaded, NEW t \in Threads, LookedUp(t),
         \A k \in Keys : mem[k] # "absent" => mem'[k] # "absent"
  PROVE  Loaded'
<1>1. \A u \in Threads :
         /\ Key(u) \in Keys
         /\ Key(u)[1] = th[u].coin /\ Key(u)[2] = Kind(th[u].op)
         /\ <<th[u].coin, "source">> \in Keys
  BY KeyOfThread DEF Typed, TypeOK, ThreadState, Keys
<1>2. ASSUME NEW u \in Threads, th'[u].at \in {"get", "draw", "copy"}
      PROVE  mem'[Key(u)'] # "absent"
  <2>1. CASE th'[u] = th[u]
    BY <1>1, <1>2, <2>1 DEF Loaded, Key
  <2>2. CASE /\ u = t /\ th'[u].coin = th[u].coin
             /\ Entered(t) /\ th[u].op = "paint" /\ th'[u].op = "paint"
    BY <2>2 DEF Entered, Key, Kind
  <2>3. CASE th[u].op = "transform" /\ th'[u].op = "origin" /\ th'[u].coin = th[u].coin
    BY <1>1, <2>3 DEF Loaded, Key, Kind
  <2> QED BY <1>2, <2>1, <2>2, <2>3 DEF LookedUp
<1>3. ASSUME NEW u \in Threads, th'[u].op \in {"askTarget", "transform"}
      PROVE  mem'[<<th'[u].coin, "source">>] # "absent"
  <2>1. CASE th'[u].op = th[u].op /\ th'[u].coin = th[u].coin
    BY <1>1, <1>3, <2>1 DEF Loaded
  <2>2. CASE u = t /\ Entered(t) /\ th[u].op = "askSource" /\ th'[u].coin = th[u].coin
    BY <2>2 DEF Entered, Key, Kind
  <2>3. CASE th[t].op = "askTarget" /\ th[t].coin = th'[u].coin
    BY <1>1, <2>3 DEF Loaded
  <2> QED BY <1>3, <2>1, <2>2, <2>3 DEF LookedUp
<1> QED BY <1>2, <1>3 DEF Loaded

-----------------------------------------------------------------------------
(* The steps that look a key up. *)

\* contains() and preload's check of the file change nothing but the thread.
LEMMA LookupStep ==
  ASSUME IInv, NEW t \in Threads, Contains(t) \/ Preload(t)
  PROVE  IInv'
<1>1. /\ th[t].at \in {"contains", "preload"}
      /\ UNCHANGED <<file, mem, locks, held, mishaps>>
  BY DEF Contains, Preload
<1>2. LookedUp(t)
  <2>1. CASE Contains(t)
    BY <2>1, LookupThreads DEF Contains, Entered, IInv, Placed
  <2>2. CASE Preload(t)
    BY <2>2, LookupThreads DEF Preload, Entered, IInv, Placed
  <2> QED BY <2>1, <2>2
<1>3. Typed'
  BY <1>1, <1>2 DEF IInv, Typed, TypeOK, LookedUp, ThreadState
<1>4. Placed'
  BY <1>2 DEF LookedUp
<1>5. Holders'
  BY <1>1, <1>2 DEF IInv, Holders, LookedUp
<1>6. LoadLockKept'
  BY <1>1, <1>2, SameDownloads, UiIsNoTask DEF IInv, LookedUp
<1>7. Loaded'
  BY <1>1, <1>2, LookupLoads DEF IInv
<1>8. Entries'
  BY <1>1, <1>2 DEF IInv, Entries, BlankExplained, LookedUp
<1>9. Pictures'
  BY <1>1, <1>2 DEF IInv, Pictures, LookedUp
<1> QED BY <1>3, <1>4, <1>5, <1>6, <1>7, <1>8, <1>9 DEF IInv

\* What an insertion puts into the cache and remembers.
LEMMA Inserted ==
  ASSUME Typed, NEW k \in Keys
  PROVE  /\ k[1] \in Coins /\ k[2] \in {"source", "target"} /\ k = <<k[1], k[2]>>
         /\ Read(k) \in Pixmaps(k[2]) /\ Read(k) # "absent"
         /\ Read(k) = "null" => TornKind[k[2]] \in Torn(k)
         /\ Read(k) \in Whole[k[2]] => file[k] \in Whole[k[2]]
         /\ mem[k] \in {"absent", "null"} \/ "raced" \in Raced(k)
         /\ Torn(k) \cup Raced(k) \subseteq Mishaps
<1>1. k[1] \in Coins /\ k[2] \in {"source", "target"} /\ k = <<k[1], k[2]>>
  BY DEF Keys
<1>2. /\ "absent" \notin Whole[k[2]] /\ "null" \notin Whole[k[2]]
      /\ TornKind[k[2]] = IF k[2] = "source" THEN "tornSource" ELSE "tornTarget"
  BY <1>1, Kinds
<1>3. mem[k] \in Whole[k[2]] \cup {"absent", "null"}
  BY DEF Typed, TypeOK, Pixmaps
<1> QED BY <1>1, <1>2, <1>3 DEF Read, Torn, Raced, Pixmaps, Mishaps

LEMMA InsertStep ==
  ASSUME IInv, NEW t \in Threads, Insert(t)
  PROVE  IInv'
<1> DEFINE k == Key(t)
<1>1. /\ th[t].at = "insert" /\ FoundBy(t)
      /\ mem' = [mem EXCEPT ![k] = Read(k)]
      /\ held' = Freed(k)
      /\ mishaps' = [mishaps EXCEPT ![k[1]] = @ \cup Torn(k) \cup Raced(k)]
      /\ UNCHANGED <<file, locks>>
  BY DEF Insert
<1>2. k \in Keys
  BY KeyOfThread DEF IInv, Typed, TypeOK, ThreadState
<1>3. /\ mem \in [Keys -> Pixmaps("source") \cup Pixmaps("target")]
      /\ mishaps \in [Coins -> SUBSET Mishaps]
      /\ held \in [Threads -> {"no", "live", "freed", "null"}]
      /\ \A l \in Keys : mem[l] \in Pixmaps(l[2])
  BY DEF IInv, Typed, TypeOK
<1>4. /\ k[1] \in Coins /\ k[2] \in {"source", "target"} /\ k = <<k[1], k[2]>>
      /\ Read(k) \in Pixmaps(k[2]) /\ Read(k) # "absent"
      /\ Read(k) = "null" => TornKind[k[2]] \in Torn(k)
      /\ Read(k) \in Whole[k[2]] => file[k] \in Whole[k[2]]
      /\ mem[k] \in {"absent", "null"} \/ "raced" \in Raced(k)
      /\ Torn(k) \cup Raced(k) \subseteq Mishaps
  BY <1>2, Inserted DEF IInv
<1>5. /\ mem'[k] = Read(k)
      /\ \A l \in Keys \ {k} : mem'[l] = mem[l]
      /\ \A l \in Keys : mem'[l] \in Pixmaps(l[2])
      /\ mem' \in [Keys -> Pixmaps("source") \cup Pixmaps("target")]
  BY <1>1, <1>2, <1>3, <1>4
<1>6. /\ mishaps'[k[1]] = mishaps[k[1]] \cup Torn(k) \cup Raced(k)
      /\ \A c \in Coins : mishaps[c] \subseteq mishaps'[c]
      /\ mishaps' \in [Coins -> SUBSET Mishaps]
  BY <1>1, <1>3, <1>4
<1>7. \A u \in Threads :
        /\ held'[u] \in {"no", "live", "freed", "null"}
        /\ held[u] = "no" <=> held'[u] = "no"
        /\ held'[u] = "null" => held[u] = "null"
        /\ held'[u] = "freed" => held[u] = "freed" \/ (Key(u) = k /\ held[u] = "live" /\ mem[k] # "absent")
  BY <1>1, <1>3 DEF Freed
<1>8. LookedUp(t)
  BY <1>1, <1>4, <1>5, LookupThreads DEF IInv, Entered
<1>9. Typed'
  BY <1>1, <1>5, <1>6, <1>7, <1>8 DEF Freed, IInv, Typed, TypeOK, LookedUp, ThreadState
<1>10. Placed' /\ Holders'
  BY <1>7, <1>8 DEF IInv, Holders, LookedUp
<1>11. LoadLockKept'
  <2>1. locks \subseteq Coins
    BY DEF IInv, Typed, TypeOK
  <2> QED BY <1>1, <1>6, <1>8, <2>1, SameDownloads, UiIsNoTask DEF IInv, LookedUp
<1>12. Loaded'
  BY <1>4, <1>5, <1>8, LookupLoads DEF IInv
<1>13. Entries'
  <2>1. \A l \in Keys : mem'[l] = "null" => TornKind[l[2]] \in mishaps'[l[1]]
    <3>1. \A l \in Keys : l[1] \in Coins
      BY DEF Keys
    <3> QED BY <1>2, <1>4, <1>5, <1>6, <3>1 DEF IInv, Entries
  <2>2. ASSUME NEW u \in Threads, held'[u] = "freed"
        PROVE  mishaps'[th'[u].coin] \cap {TornKind[Kind(th'[u].op)], "raced"} # {}
    <3>1. th'[u] = th[u] /\ th[u].coin \in Coins
      BY <1>7, <1>8, <2>2, KeyOfThread DEF LookedUp, IInv, Typed, TypeOK, ThreadState
    <3>2. CASE held[u] = "freed"
      BY <1>6, <3>1, <3>2 DEF IInv, Entries
    <3>3. CASE Key(u) = k /\ held[u] = "live" /\ mem[k] # "absent"
      <4>1. th[u].coin = k[1] /\ Kind(th[u].op) = k[2]
        BY <3>3, KeyOfThread DEF IInv, Typed, TypeOK, ThreadState
      <4>2. TornKind[k[2]] \in mishaps[k[1]] \/ "raced" \in Raced(k)
        BY <1>2, <1>4, <3>3 DEF IInv, Entries
      <4> QED BY <1>6, <3>1, <4>1, <4>2
    <3> QED BY <1>7, <2>2, <3>2, <3>3
  <2>3. \A u \in Threads : held'[u] # "null"
    BY <1>7 DEF IInv, Entries
  <2>4. BlankExplained'
    BY <1>6, <1>8 DEF IInv, Entries, BlankExplained, LookedUp
  <2> QED BY <2>1, <2>2, <2>3, <2>4 DEF Entries
<1>14. Pictures'
  <2>1. ASSUME NEW c \in Coins, mem'[<<c, "source">>] \in Whole["source"]
        PROVE  file'[<<c, "source">>] \in Whole["source"] \/ "again" \in mishaps'[c]
    <3>1. CASE k = <<c, "source">>
      BY <1>1, <1>4, <1>5, <2>1, <3>1
    <3>2. CASE k # <<c, "source">>
      BY <1>1, <1>5, <1>6, <2>1, <3>2 DEF IInv, Pictures, Keys
    <3> QED BY <3>1, <3>2
  <2>2. \A u \in Threads : th'[u].at = "answer" => file'[<<th'[u].coin, "source">>] = "partial"
    BY <1>1, <1>8 DEF IInv, Pictures, LookedUp
  <2> QED BY <2>1, <2>2 DEF Pictures
<1> QED BY <1>9, <1>10, <1>11, <1>12, <1>13, <1>14 DEF IInv

-----------------------------------------------------------------------------
(* The other steps. *)

\* Painting, telling and looking at the list: the UI thread alone.
LEMMA ViewStep ==
  ASSUME IInv, NEW c \in Coins, Show(c) \/ Paint(c) \/ Tell(c)
  PROVE  IInv'
<1>1. /\ UNCHANGED <<file, mem, locks, held, drawn, mishaps>>
      /\ needsPaint' \subseteq Coins /\ done' \subseteq Coins
  BY DEF Show, Paint, Tell, IInv, Typed, TypeOK
<1>2. CASE UNCHANGED th
  BY <1>1, <1>2 DEF IInv, Typed, TypeOK, Placed, Holders, LoadLockKept, Downloading, Loaded, Entries,
                    BlankExplained, Pictures, Key
<1>3. ASSUME NEW op \in {"paint", "told"}, th[UI].op = "idle",
             th' = [th EXCEPT ![UI] = [op |-> op, at |-> "contains", coin |-> c]]
      PROVE  IInv'
  <2>1. /\ th \in [Threads -> ThreadState] /\ UI \in Threads
        /\ th'[UI] = [op |-> op, at |-> "contains", coin |-> c]
        /\ \A u \in Threads \ {UI} : th'[u] = th[u]
        /\ th' \in [Threads -> ThreadState]
    BY <1>3, UiIsNoTask DEF IInv, Typed, TypeOK, ThreadState, Ops, Places
  <2>2. held[UI] = "no"
    BY <1>3, <2>1 DEF IInv, Placed, Holders
  <2>3. Typed'
    BY <1>1, <2>1 DEF IInv, Typed, TypeOK, ThreadState
  <2>4. Placed' /\ Holders'
    BY <1>1, <1>3, <2>1, <2>2 DEF IInv, Placed, Holders
  <2>5. LoadLockKept'
    BY <1>1, <2>1, UiIsNoTask, SameDownloads DEF IInv, Downloading
  <2>6. Loaded'
    BY <1>1, <1>3, <2>1 DEF IInv, Loaded, Key
  <2>7. Entries'
    BY <1>1, <2>1, <2>2 DEF IInv, Entries, BlankExplained
  <2>8. Pictures'
    BY <1>1, <2>1 DEF IInv, Pictures
  <2> QED BY <2>3, <2>4, <2>5, <2>6, <2>7, <2>8 DEF IInv
<1> QED BY <1>2, <1>3 DEF Show, Paint, Tell, Start

\* A thread goes on within its operation, or ends it: what the steps below
\* have in common.
Goes(t, op, at) ==
  /\ th' = [th EXCEPT ![t].op = op, ![t].at = at]
  /\ op \in Ops /\ at \in Places

LEMMA ThreadGoes ==
  ASSUME IInv, NEW t \in Threads, NEW op, NEW at, Goes(t, op, at)
  PROVE  /\ th'[t] = [op |-> op, at |-> at, coin |-> th[t].coin]
         /\ \A u \in Threads \ {t} : th'[u] = th[u]
         /\ th' \in [Threads -> ThreadState] /\ th \in [Threads -> ThreadState]
         /\ th[t].coin \in Coins
  BY DEF Goes, IInv, Typed, TypeOK, ThreadState

LEMMA EndsGoes ==
  ASSUME IInv, NEW t \in Threads, Ends(t)
  PROVE  Goes(t, "idle", "out")
  BY DEF Ends, Idle, Goes, Ops, Places, IInv, Typed, TypeOK

LEMMA GetStep ==
  ASSUME IInv, NEW t \in Threads, Get(t)
  PROVE  IInv'
<1>1. /\ th[t].at = "get" /\ th[t].op \in {"paint", "origin"}
      /\ mem[Key(t)] # "absent"
      /\ held' = [held EXCEPT ![t] = "live"]
      /\ UNCHANGED <<file, mem, locks, done, needsPaint, drawn, mishaps>>
  BY DEF Get, IInv, Placed, Loaded
<1>2. PICK at \in {"draw", "copy"} :
        Goes(t, th[t].op, at) /\ at = (IF th[t].op = "paint" THEN "draw" ELSE "copy")
  BY <1>1 DEF Get, At, Goes, Ops, Places
<1>3. /\ th'[t] = [op |-> th[t].op, at |-> at, coin |-> th[t].coin]
      /\ \A u \in Threads \ {t} : th'[u] = th[u]
      /\ th' \in [Threads -> ThreadState]
  BY <1>2, ThreadGoes
<1>4. held'[t] = "live" /\ (\A u \in Threads \ {t} : held'[u] = held[u])
      /\ held' \in [Threads -> {"no", "live", "freed", "null"}]
  BY <1>1 DEF IInv, Typed, TypeOK
<1>5. Typed'
  BY <1>1, <1>3, <1>4 DEF IInv, Typed, TypeOK, ThreadState
<1>6. Placed' /\ Holders'
  BY <1>1, <1>2, <1>3, <1>4 DEF IInv, Placed, Holders
<1>7. LoadLockKept'
  BY <1>1, <1>3, UiIsNoTask, SameDownloads DEF IInv, Downloading
<1>8. Loaded'
  BY <1>1, <1>3 DEF IInv, Loaded, Key
<1>9. Entries'
  BY <1>1, <1>3, <1>4 DEF IInv, Entries, BlankExplained
<1>10. Pictures'
  BY <1>1, <1>2, <1>3 DEF IInv, Pictures
<1> QED BY <1>5, <1>6, <1>7, <1>8, <1>9, <1>10 DEF IInv

\* A pixmap is let go of: by paint when the row is drawn, by transform when it
\* has its copy.
LEMMA LetGoStep ==
  ASSUME IInv, NEW t \in Threads, (t = UI /\ Draw) \/ Copy(t)
  PROVE  IInv'
<1>1. /\ \/ th[t].at = "draw" /\ th[t].op = "paint"
         \/ th[t].at = "copy" /\ th[t].op = "origin"
      /\ held' = [held EXCEPT ![t] = "no"]
      /\ UNCHANGED <<file, mem, locks, done, needsPaint, mishaps>>
  BY DEF Draw, Copy, IInv, Placed
<1>2. PICK op \in Ops, at \in Places :
        /\ Goes(t, op, at)
        /\ \/ op = "idle" /\ at = "out"
           \/ op = "transform" /\ at \in {"square", "round"} /\ th[t].op = "origin"
  <2>1. CASE Ends(t)
    BY <2>1, EndsGoes DEF Ops, Places
  <2>2. CASE Copy(t) /\ ~Ends(t)
    BY <1>1, <2>2 DEF Copy, At, Goes, Ops, Places, IInv, Placed
  <2> QED BY <2>1, <2>2 DEF Draw
<1>3. /\ th'[t] = [op |-> op, at |-> at, coin |-> th[t].coin]
      /\ \A u \in Threads \ {t} : th'[u] = th[u]
      /\ th' \in [Threads -> ThreadState] /\ th \in [Threads -> ThreadState] /\ th[t].coin \in Coins
  BY <1>2, ThreadGoes
<1>4. held'[t] = "no" /\ (\A u \in Threads \ {t} : held'[u] = held[u])
      /\ held' \in [Threads -> {"no", "live", "freed", "null"}]
  BY <1>1 DEF IInv, Typed, TypeOK
<1>5. Placed' /\ Holders'
  BY <1>1, <1>2, <1>3, <1>4 DEF IInv, Placed, Holders
<1>6. LoadLockKept'
  BY <1>1, <1>2, <1>3, UiIsNoTask, SameDownloads DEF IInv, Downloading
<1>7. Loaded'
  <2>1. th[t].op = "origin" => Key(t) = <<th[t].coin, "source">>
    BY DEF Key, Kind
  <2> QED BY <1>1, <1>2, <1>3, <2>1 DEF IInv, Loaded, Key
<1>8. Pictures'
  BY <1>1, <1>2, <1>3 DEF IInv, Pictures
<1>9. /\ drawn' \in [Coins -> {"nothing", "default", "blank", "square", "round"}]
      /\ BlankExplained'
  <2>1. CASE UNCHANGED drawn
    BY <1>1, <2>1 DEF IInv, Entries, BlankExplained, Typed, TypeOK
  <2>2. CASE t = UI /\ Draw
    <3>1. Key(t) \in Keys /\ Key(t)[1] = th[t].coin /\ Key(t)[2] = "target" /\ Kind(th[t].op) = "target"
      BY <1>3, <1>1, <2>2, KeyOfThread DEF Kind, Draw
    <3>2. drawn' = [drawn EXCEPT ![th[t].coin] = IF Held(t) = "null" THEN "blank" ELSE Held(t)]
      BY <2>2 DEF Draw
    <3>3. Held(t) = "null" => mishaps[th[t].coin] \cap {"tornTarget", "raced"} # {}
      <4>1. CASE held[t] = "live"
        BY <3>1, <4>1, Kinds DEF Held, IInv, Entries
      <4>2. CASE held[t] = "freed"
        BY <3>1, <4>2, Kinds DEF IInv, Entries
      <4>3. CASE held[t] = "no"
        BY <1>1, <4>3 DEF IInv, Holders
      <4> QED BY <4>1, <4>2, <4>3 DEF IInv, Entries, Typed, TypeOK
    <3>4. Held(t) \in {"null", "square", "round"}
      BY <1>1, <3>1, Kinds DEF Held, IInv, Loaded, Typed, TypeOK, Pixmaps
    <3> QED BY <1>1, <1>3, <3>2, <3>3, <3>4 DEF IInv, Entries, BlankExplained, Typed, TypeOK
  <2> QED BY <2>1, <2>2 DEF Copy
<1>10. Typed' /\ Entries'
  BY <1>1, <1>3, <1>4, <1>9 DEF IInv, Typed, TypeOK, Entries, ThreadState
<1> QED BY <1>5, <1>6, <1>7, <1>8, <1>10 DEF IInv

\* Steps of a thread that touch no pixmap: what is left to show of them is the
\* lock and the files.
LEMMA FileStep ==
  ASSUME IInv, NEW t \in Threads, NEW op, NEW at, Goes(t, op, at),
         UNCHANGED <<mem, held, needsPaint, drawn>>,
         \/ th[t].op = "load" /\ op \in {"idle", "load", "keep"}
         \/ th[t].op = "keep" /\ op = "idle"
         \/ th[t].op = "transform" /\ op \in {"idle", "transform"},
         th[t].at \notin {"draw", "copy"},
         op = "idle" => at = "out",
         op = "load" => at \in {"open", "answer"},
         op = "keep" => at = "preload",
         op = "transform" => at \in {"squareWritten", "round", "roundWritten"},
         done' \in {done, done \cup {th[t].coin}},
         \A c \in Coins : mishaps[c] \subseteq mishaps'[c],
         mishaps' \in [Coins -> SUBSET Mishaps],
         locks' \subseteq Coins,
         file' \in [Keys -> Contents("source") \cup Contents("target")],
         \A k \in Keys : file'[k] \in Contents(k[2]),
         LoadLockKept', Pictures'
  PROVE  IInv'
<1>1. /\ th'[t] = [op |-> op, at |-> at, coin |-> th[t].coin]
      /\ \A u \in Threads \ {t} : th'[u] = th[u]
      /\ th' \in [Threads -> ThreadState] /\ th \in [Threads -> ThreadState] /\ th[t].coin \in Coins
  BY ThreadGoes
<1>2. held[t] = "no"
  BY DEF IInv, Holders
<1>3. Typed'
  BY <1>1 DEF IInv, Typed, TypeOK, ThreadState
<1>4. Placed' /\ Holders'
  BY <1>1, <1>2 DEF IInv, Placed, Holders
<1>5. Loaded'
  BY <1>1 DEF IInv, Loaded, Key
<1>6. Entries'
  <2>1. \A k \in Keys : k[1] \in Coins
    BY DEF Keys
  <2>2. \A k \in Keys : mem'[k] = "null" => TornKind[k[2]] \in mishaps'[k[1]]
    BY <2>1 DEF IInv, Entries
  <2>3. ASSUME NEW u \in Threads, held'[u] = "freed"
        PROVE  mishaps'[th'[u].coin] \cap {TornKind[Kind(th'[u].op)], "raced"} # {}
    <3>1. th'[u] = th[u] /\ th[u].coin \in Coins
      BY <1>1, <1>2, <2>3 DEF ThreadState
    <3> QED BY <2>3, <3>1 DEF IInv, Entries
  <2>4. BlankExplained' /\ \A u \in Threads : held'[u] # "null"
    BY DEF IInv, Entries, BlankExplained
  <2> QED BY <2>2, <2>3, <2>4 DEF Entries
<1> QED BY <1>3, <1>4, <1>5, <1>6 DEF IInv

\* loadImage up to its request: the lock, then the file.
LEMMA LockStep ==
  ASSUME IInv, NEW t \in Threads, Lock(t)
  PROVE  IInv'
<1>1. /\ th[t].at = "lock" /\ th[t].op = "load" /\ t \in Tasks
      /\ UNCHANGED <<file, mem, held, done, needsPaint, drawn, mishaps>>
  BY DEF Lock, IInv, Placed, Threads
<1>2. /\ file \in [Keys -> Contents("source") \cup Contents("target")]
      /\ \A k \in Keys : file[k] \in Contents(k[2])
      /\ mishaps \in [Coins -> SUBSET Mishaps] /\ locks \subseteq Coins
  BY DEF IInv, Typed, TypeOK
<1>3. CASE Ends(t) /\ UNCHANGED locks
  <2>1. Goes(t, "idle", "out")
    BY <1>3, EndsGoes
  <2>2. /\ th'[t] = [op |-> "idle", at |-> "out", coin |-> th[t].coin]
        /\ \A u \in Threads \ {t} : th'[u] = th[u]
    BY <2>1, ThreadGoes
  <2>3. LoadLockKept'
    BY <1>1, <1>2, <1>3, <2>2, UiIsNoTask, SameDownloads DEF IInv, Downloading
  <2>4. Pictures'
    BY <1>1, <2>2 DEF IInv, Pictures
  <2> QED BY <1>1, <1>2, <1>3, <2>1, <2>3, <2>4, FileStep
<1>4. CASE /\ th[t].coin \notin locks /\ locks' = locks \cup {th[t].coin}
           /\ th' = At(t, "load", "open")
  <2>1. Goes(t, "load", "open")
    BY <1>4 DEF At, Goes, Ops, Places
  <2>2. /\ th'[t] = [op |-> "load", at |-> "open", coin |-> th[t].coin] /\ th[t].coin \in Coins
        /\ \A u \in Threads \ {t} : th'[u] = th[u]
    BY <2>1, ThreadGoes
  <2>3. LoadLockKept'
    <3>1. \A u \in Tasks \ {t} : Downloading(u)' <=> Downloading(u)
      BY <2>2, UiIsNoTask DEF Downloading
    <3>2. \A u \in Tasks : Downloading(u)' => th'[u].coin \in locks'
      BY <1>4, <2>2, <3>1, UiIsNoTask DEF IInv, LoadLockKept, Downloading
    <3>3. \A u, v \in Tasks : Downloading(u)' /\ Downloading(v)' /\ th'[u].coin = th'[v].coin => u = v
      BY <1>4, <2>2, <3>1, UiIsNoTask DEF IInv, LoadLockKept, Downloading
    <3>4. ASSUME NEW c \in locks'
          PROVE  (\E u \in Tasks : Downloading(u)' /\ th'[u].coin = c) \/ "refused" \in mishaps'[c]
      <4>1. CASE c = th[t].coin
        BY <1>1, <2>2, <4>1 DEF Downloading
      <4>2. CASE c \in locks
        BY <1>1, <1>4, <2>2, <4>2, UiIsNoTask DEF IInv, LoadLockKept, Downloading
      <4> QED BY <1>4, <4>1, <4>2
    <3> QED BY <3>2, <3>3, <3>4 DEF LoadLockKept
  <2>4. Pictures'
    BY <1>1, <2>2 DEF IInv, Pictures
  <2> QED BY <1>1, <1>2, <1>4, <2>1, <2>2, <2>3, <2>4, FileStep
<1> QED BY <1>3, <1>4 DEF Lock

LEMMA OpenStep ==
  ASSUME IInv, NEW t \in Threads, Open(t)
  PROVE  IInv'
<1> DEFINE k == <<th[t].coin, "source">>
<1>1. /\ th[t].at = "open" /\ th[t].op = "load" /\ t \in Tasks
      /\ k \in Keys /\ Key(t) = k /\ th[t].coin \in Coins
  BY KeyOfThread DEF Open, IInv, Placed, Threads, Key, Kind, Keys, Typed, TypeOK, ThreadState
<1>2. /\ file' = [file EXCEPT ![k] = "partial"]
      /\ mishaps' = [mishaps EXCEPT ![th[t].coin] =
                       @ \cup (IF file[k] \in Whole["source"] THEN {"again"} ELSE {})]
      /\ UNCHANGED <<mem, locks, held, done, needsPaint, drawn>>
  BY <1>1 DEF Open
<1>3. Goes(t, "load", "answer")
  BY <1>1 DEF Open, At, Goes, Ops, Places
<1>4. /\ th'[t] = [op |-> "load", at |-> "answer", coin |-> th[t].coin]
      /\ \A u \in Threads \ {t} : th'[u] = th[u]
  BY <1>3, ThreadGoes
<1>5. /\ file \in [Keys -> Contents("source") \cup Contents("target")]
      /\ \A l \in Keys : file[l] \in Contents(l[2])
      /\ mishaps \in [Coins -> SUBSET Mishaps] /\ locks \subseteq Coins
  BY DEF IInv, Typed, TypeOK
<1>6. /\ mishaps' \in [Coins -> SUBSET Mishaps]
      /\ \A c \in Coins : mishaps[c] \subseteq mishaps'[c]
      /\ file[k] \in Whole["source"] => "again" \in mishaps'[th[t].coin]
  BY <1>1, <1>2, <1>5 DEF Mishaps
<1>7. /\ file' \in [Keys -> Contents("source") \cup Contents("target")]
      /\ \A l \in Keys : file'[l] \in Contents(l[2])
      /\ file'[k] = "partial" /\ \A l \in Keys \ {k} : file'[l] = file[l]
  BY <1>1, <1>2, <1>5 DEF Contents
<1>8. LoadLockKept'
  BY <1>1, <1>2, <1>4, <1>5, <1>6, UiIsNoTask, SameDownloads DEF IInv, Downloading
<1>9. Pictures'
  <2>1. ASSUME NEW c \in Coins, mem[<<c, "source">>] \in Whole["source"]
        PROVE  file'[<<c, "source">>] \in Whole["source"] \/ "again" \in mishaps'[c]
    <3>1. CASE c = th[t].coin
      BY <1>6, <2>1, <3>1 DEF IInv, Pictures
    <3>2. CASE c # th[t].coin
      <4>1. <<c, "source">> \in Keys \ {k}
        BY <3>2 DEF Keys
      <4> QED BY <1>6, <1>7, <2>1, <4>1 DEF IInv, Pictures
    <3> QED BY <3>1, <3>2
  <2>2. ASSUME NEW u \in Threads \ {t}, th[u].at = "answer"
        PROVE  file'[<<th[u].coin, "source">>] = "partial"
    <3>1. <<th[u].coin, "source">> \in Keys
      BY KeyOfThread DEF IInv, Typed, TypeOK, ThreadState, Keys
    <3> QED BY <1>7, <2>2, <3>1 DEF IInv, Pictures
  <2>3. \A u \in Threads : th'[u].at = "answer" => file'[<<th'[u].coin, "source">>] = "partial"
    BY <1>4, <1>7, <2>2
  <2>4. UNCHANGED mem
    BY <1>2
  <2> QED BY <2>1, <2>3, <2>4 DEF Pictures
<1> QED BY <1>1, <1>2, <1>3, <1>5, <1>6, <1>7, <1>8, <1>9, FileStep

\* The end of a download gives its lock back, or leaves it after a refusal.
LEMMA LocksReturned ==
  ASSUME IInv, NEW t \in Tasks, Downloading(t),
         th'[t].op = "idle", th'[t].at = "out", th'[t].coin = th[t].coin,
         \A u \in Threads \ {t} : th'[u] = th[u],
         \/ locks' = locks \ {th[t].coin}
         \/ locks' = locks /\ "refused" \in mishaps'[th[t].coin],
         \A c \in Coins : mishaps[c] \subseteq mishaps'[c]
  PROVE  LoadLockKept'
<1>1. ~Downloading(t)' /\ \A u \in Tasks \ {t} : Downloading(u)' <=> Downloading(u)
  BY UiIsNoTask DEF Downloading
<1>2. \A u \in Tasks \ {t} : Downloading(u) => th[u].coin # th[t].coin /\ th[u].coin \in locks
  BY DEF IInv, LoadLockKept
<1>3. \A u \in Tasks : Downloading(u)' => th'[u].coin \in locks'
  BY <1>1, <1>2, UiIsNoTask DEF Downloading
<1>4. \A u, v \in Tasks : Downloading(u)' /\ Downloading(v)' /\ th'[u].coin = th'[v].coin => u = v
  BY <1>1, UiIsNoTask DEF IInv, LoadLockKept, Downloading
<1>5. ASSUME NEW c \in locks'
      PROVE  (\E u \in Tasks : Downloading(u)' /\ th'[u].coin = c) \/ "refused" \in mishaps'[c]
  <2>1. c \in locks /\ c \in Coins
    BY <1>5 DEF IInv, Typed, TypeOK
  <2>2. CASE c = th[t].coin
    BY <1>5, <2>2
  <2>3. CASE c # th[t].coin
    BY <2>1, <2>3, UiIsNoTask DEF IInv, LoadLockKept, Downloading
  <2> QED BY <2>2, <2>3
<1> QED BY <1>3, <1>4, <1>5 DEF LoadLockKept

LEMMA UnlockStep ==
  ASSUME IInv, NEW t \in Threads, Unlock(t)
  PROVE  IInv'
<1>1. /\ th[t].at = "unlock" /\ th[t].op = "keep" /\ t \in Tasks
      /\ locks' = locks \ {th[t].coin} /\ Ends(t)
      /\ UNCHANGED <<file, mem, held, done, needsPaint, drawn, mishaps>>
  BY DEF Unlock, IInv, Placed, Threads
<1>2. Goes(t, "idle", "out")
  BY <1>1, EndsGoes
<1>3. /\ th'[t] = [op |-> "idle", at |-> "out", coin |-> th[t].coin]
      /\ \A u \in Threads \ {t} : th'[u] = th[u]
  BY <1>2, ThreadGoes
<1>4. LoadLockKept'
  BY <1>1, <1>3, LocksReturned DEF Downloading
<1>5. Pictures'
  BY <1>1, <1>3 DEF IInv, Pictures
<1>6. /\ file \in [Keys -> Contents("source") \cup Contents("target")]
      /\ \A l \in Keys : file[l] \in Contents(l[2])
      /\ mishaps \in [Coins -> SUBSET Mishaps] /\ locks' \subseteq Coins
  BY <1>1 DEF IInv, Typed, TypeOK
<1> QED BY <1>1, <1>2, <1>4, <1>5, <1>6, FileStep

LEMMA AnswerStep ==
  ASSUME IInv, NEW t \in Threads, NEW a \in Answers, Answer(t, a)
  PROVE  IInv'
<1> DEFINE k == <<th[t].coin, "source">>
<1>1. /\ th[t].at = "answer" /\ th[t].op = "load" /\ t \in Tasks
      /\ k \in Keys /\ Key(t) = k /\ th[t].coin \in Coins
  BY KeyOfThread DEF Answer, IInv, Placed, Threads, Key, Kind, Keys, Typed, TypeOK, ThreadState
<1>2. /\ UNCHANGED <<mem, held, done, needsPaint, drawn>>
      /\ Downloading(t)
  BY <1>1 DEF Answer, Downloading
<1>3. /\ file \in [Keys -> Contents("source") \cup Contents("target")]
      /\ \A l \in Keys : file[l] \in Contents(l[2])
      /\ mishaps \in [Coins -> SUBSET Mishaps] /\ locks \subseteq Coins
  BY DEF IInv, Typed, TypeOK
<1>4. PICK content \in {"big", "small", "bad"} : file' = [file EXCEPT ![k] = content]
  BY <1>1 DEF Answer
<1>5. /\ file' \in [Keys -> Contents("source") \cup Contents("target")]
      /\ \A l \in Keys : file'[l] \in Contents(l[2])
      /\ \A l \in Keys \ {k} : file'[l] = file[l]
  BY <1>1, <1>3, <1>4, Kinds DEF Contents
<1>6. \A u \in Threads \ {t} : th[u].at = "answer" => th[u].coin # th[t].coin
  BY <1>1, <1>2, UiIsNoTask DEF IInv, LoadLockKept, Downloading, Placed, Threads
<1>7. ASSUME \A c \in Coins : mishaps[c] \subseteq mishaps'[c],
             th'[t].at # "answer", \A u \in Threads \ {t} : th'[u] = th[u]
      PROVE  Pictures'
  <2>1. mem[k] \in Whole["source"] => "again" \in mishaps[th[t].coin]
    BY <1>1, Kinds DEF IInv, Pictures
  <2>2. ASSUME NEW c \in Coins, mem[<<c, "source">>] \in Whole["source"]
        PROVE  file'[<<c, "source">>] \in Whole["source"] \/ "again" \in mishaps'[c]
    <3>1. CASE c = th[t].coin
      BY <1>7, <2>1, <2>2, <3>1
    <3>2. CASE c # th[t].coin
      <4>1. <<c, "source">> \in Keys \ {k}
        BY <3>2 DEF Keys
      <4> QED BY <1>5, <1>7, <2>2, <4>1 DEF IInv, Pictures
    <3> QED BY <3>1, <3>2
  <2>3. ASSUME NEW u \in Threads \ {t}, th[u].at = "answer"
        PROVE  file'[<<th[u].coin, "source">>] = "partial"
    <3>1. <<th[u].coin, "source">> \in Keys \ {k}
      BY <1>6, <2>3, KeyOfThread DEF IInv, Typed, TypeOK, ThreadState, Keys
    <3> QED BY <1>5, <2>3, <3>1 DEF IInv, Pictures
  <2>4. \A u \in Threads : th'[u].at = "answer" => file'[<<th'[u].coin, "source">>] = "partial"
    BY <1>7, <2>3
  <2>5. UNCHANGED mem
    BY <1>2
  <2> QED BY <2>2, <2>4, <2>5 DEF Pictures
<1>8. CASE th' = At(t, "keep", "preload") /\ UNCHANGED <<locks, mishaps>>
  <2>1. Goes(t, "keep", "preload")
    BY <1>8 DEF At, Goes, Ops, Places
  <2>2. /\ th'[t] = [op |-> "keep", at |-> "preload", coin |-> th[t].coin]
        /\ \A u \in Threads \ {t} : th'[u] = th[u]
    BY <2>1, ThreadGoes
  <2>3. LoadLockKept'
    BY <1>2, <1>3, <1>8, <2>2, UiIsNoTask, SameDownloads DEF IInv, Downloading
  <2>4. Pictures'
    BY <1>7, <1>8, <2>2
  <2> QED BY <1>1, <1>2, <1>3, <1>5, <1>8, <2>1, <2>3, <2>4, FileStep
<1>9. CASE /\ a \in {"garbage", "refused"} /\ Ends(t)
           /\ locks' = IF a = "garbage" THEN locks \ {th[t].coin} ELSE locks
           /\ mishaps' = [mishaps EXCEPT ![th[t].coin] = @ \cup {a}]
  <2>1. Goes(t, "idle", "out")
    BY <1>9, EndsGoes
  <2>2. /\ th'[t] = [op |-> "idle", at |-> "out", coin |-> th[t].coin]
        /\ \A u \in Threads \ {t} : th'[u] = th[u]
    BY <2>1, ThreadGoes
  <2>3. /\ mishaps' \in [Coins -> SUBSET Mishaps] /\ locks' \subseteq Coins
        /\ \A c \in Coins : mishaps[c] \subseteq mishaps'[c]
        /\ a \in mishaps'[th[t].coin]
    BY <1>1, <1>3, <1>9 DEF Mishaps
  <2>4. LoadLockKept'
    BY <1>1, <1>2, <1>9, <2>2, <2>3, LocksReturned
  <2>5. Pictures'
    BY <1>7, <2>2, <2>3
  <2> QED BY <1>1, <1>2, <1>5, <2>1, <2>3, <2>4, <2>5, FileStep
<1> QED BY <1>8, <1>9 DEF Answer

\* transform() writes the round icon's file only.
LEMMA SaveStep ==
  ASSUME IInv, NEW t \in Threads, StartSave(t) \/ EndSave(t) \/ SaveFails(t)
  PROVE  IInv'
<1> DEFINE k == <<th[t].coin, "target">>
<1>1. /\ th[t].at \in {"square", "squareWritten", "round", "roundWritten"} /\ th[t].op = "transform"
      /\ k \in Keys /\ Key(t) = k /\ th[t].coin \in Coins
  BY KeyOfThread DEF StartSave, EndSave, SaveFails, IInv, Placed, Key, Kind, Keys, Typed, TypeOK, ThreadState
<1>2. /\ UNCHANGED <<mem, locks, held, needsPaint, drawn>>
      /\ done' \in {done, done \cup {th[t].coin}}
  BY DEF StartSave, EndSave, SaveFails, Emits
<1>3. /\ file \in [Keys -> Contents("source") \cup Contents("target")]
      /\ \A l \in Keys : file[l] \in Contents(l[2])
      /\ mishaps \in [Coins -> SUBSET Mishaps] /\ locks \subseteq Coins
  BY DEF IInv, Typed, TypeOK
<1>4. /\ mishaps' \in [Coins -> SUBSET Mishaps]
      /\ \A c \in Coins : mishaps[c] \subseteq mishaps'[c]
  BY <1>1, <1>3 DEF StartSave, EndSave, SaveFails, Mishaps
<1>5. PICK content \in {"partial", "square", "round", "bad"} : file' = [file EXCEPT ![k] = content]
  BY <1>1 DEF StartSave, EndSave, SaveFails
<1>6. /\ file' \in [Keys -> Contents("source") \cup Contents("target")]
      /\ \A l \in Keys : file'[l] \in Contents(l[2])
      /\ \A l \in Keys \ {k} : file'[l] = file[l]
  BY <1>1, <1>3, <1>5, Kinds DEF Contents
<1>7. PICK op \in {"idle", "transform"}, at \in {"out", "squareWritten", "round", "roundWritten"} :
        Goes(t, op, at) /\ (op = "idle" <=> at = "out")
  <2>1. CASE Ends(t)
    BY <2>1, EndsGoes
  <2>2. CASE \E at \in {"squareWritten", "round", "roundWritten"} : th' = At(t, "transform", at)
    BY <2>2 DEF At, Goes, Ops, Places
  <2> QED BY <2>1, <2>2 DEF StartSave, EndSave, SaveFails, Emits
<1>8. /\ th'[t] = [op |-> op, at |-> at, coin |-> th[t].coin]
      /\ \A u \in Threads \ {t} : th'[u] = th[u]
  BY <1>7, ThreadGoes
<1>9. LoadLockKept'
  BY <1>1, <1>2, <1>3, <1>4, <1>8, UiIsNoTask, SameDownloads DEF IInv, Downloading
<1>10. Pictures'
  <2>1. \A c \in Coins : file'[<<c, "source">>] = file[<<c, "source">>]
    BY <1>6 DEF Keys
  <2>2. \A u \in Threads : th[u].coin \in Coins
    BY KeyOfThread DEF IInv, Typed, TypeOK, ThreadState
  <2> QED BY <1>2, <1>4, <1>8, <2>1, <2>2 DEF IInv, Pictures
<1> QED BY <1>1, <1>2, <1>3, <1>4, <1>6, <1>7, <1>9, <1>10, FileStep

-----------------------------------------------------------------------------
(* The specification. *)

LEMMA IInvStep == IInv /\ [Next]_vars => IInv'
<1> SUFFICES ASSUME IInv, [Next]_vars PROVE IInv'
  OBVIOUS
<1>1. ASSUME NEW c \in Coins, Show(c) \/ Paint(c) \/ Tell(c) PROVE IInv'
  BY <1>1, ViewStep
<1>2. ASSUME NEW t \in Threads, Step(t) PROVE IInv'
  <2>1. CASE Contains(t) \/ Preload(t)
    BY <2>1, LookupStep
  <2>2. CASE Insert(t)
    BY <2>2, InsertStep
  <2>3. CASE Get(t)
    BY <2>3, GetStep
  <2>4. CASE (t = UI /\ Draw) \/ Copy(t)
    BY <2>4, LetGoStep
  <2>5. CASE Lock(t) \/ Open(t) \/ Unlock(t)
    BY <2>5, LockStep, OpenStep, UnlockStep
  <2>6. CASE StartSave(t) \/ EndSave(t) \/ SaveFails(t)
    BY <2>6, SaveStep
  <2>7. CASE \E a \in Answers : Answer(t, a)
    BY <2>7, AnswerStep
  <2> QED BY <1>2, <2>1, <2>2, <2>3, <2>4, <2>5, <2>6, <2>7 DEF Step
<1>3. CASE UNCHANGED vars
  BY <1>3 DEF vars, IInv, Typed, TypeOK, Placed, Holders, LoadLockKept, Downloading, Loaded, Entries,
              BlankExplained, Pictures, Key
<1> QED BY <1>1, <1>2, <1>3 DEF Next

LEMMA Invariance == Spec => []IInv
<1>1. Init /\ [][Next]_vars => []IInv
  BY InitIInv, IInvStep, PTL
<1>2. QED
  BY <1>1, PTL DEF Spec

\* Every variable of the cache keeps its type, for any coins and answers.
THEOREM TypeCorrect == Spec => []TypeOK
<1>1. IInv => TypeOK
  BY DEF IInv, Typed
<1>2. QED
  BY <1>1, Invariance, PTL

\* One download of a coin at a time, under its lock, for any number of io
\* threads (Imager::loadImage).
THEOREM OneDownload == Spec => []LoadLockKept
<1>1. IInv => LoadLockKept
  BY DEF IInv
<1>2. QED
  BY <1>1, Invariance, PTL

\* No operation dereferences nullptr, and a pixmap is deleted under a pointer
\* only as PointersGood says (Imager::load, preload).
THEOREM PointersStayGood == Spec => []PointersGood
<1>1. IInv => PointersGood
  <2>1. ASSUME IInv, NEW t \in Threads, held[t] = "freed"
        PROVE  mishaps[th[t].coin] \cap {"tornSource", "tornTarget", "raced"} # {}
    BY <2>1, Kinds DEF IInv, Entries, Kind
  <2>2. QED
    BY <2>1 DEF PointersGood, IInv, Entries
<1>2. QED
  BY <1>1, Invariance, PTL

\* A refused or spoilt download never blanks a row
\* (CoinItemViewDelegate::paint with Imager::exist and load).
THEOREM BlanksExplained == Spec => []BlankExplained
<1>1. IInv => BlankExplained
  BY DEF IInv, Entries
<1>2. QED
  BY <1>1, Invariance, PTL

\* A reader finds the picture whole where another one put it, as long as it is
\* not downloaded a second time (Imager::preload, loadImage).
THEOREM PictureStays == Spec => PictureKept
<1> DEFINE Kept(c) == LET k == <<c, "source">> IN
             mem[k] \in Whole["source"] => mem'[k] \in Whole["source"] \/ "again" \in mishaps[c]
<1>1. ASSUME IInv, [Next]_vars, NEW c \in Coins PROVE Kept(c)
  <2> DEFINE k == <<c, "source">>
  <2>1. CASE UNCHANGED mem
    BY <2>1
  <2>2. ASSUME NEW t \in Threads, Insert(t) PROVE Kept(c)
    <3>1. mem' = [mem EXCEPT ![Key(t)] = Read(Key(t))] /\ k \in Keys
      BY <2>2 DEF Insert, Keys
    <3>2. CASE Key(t) # k
      BY <3>1, <3>2
    <3>3. CASE Key(t) = k
      <4>1. k[2] = "source" /\ mem'[k] = Read(k)
        BY <1>1, <3>1, <3>3 DEF IInv, Typed
      <4> QED BY <1>1, <4>1 DEF Read, IInv, Pictures
    <3> QED BY <3>2, <3>3
  <2>3. UNCHANGED mem \/ \E t \in Threads : Insert(t)
    BY <1>1 DEF Next, Step, vars, Show, Paint, Tell, Contains, Preload, Get, Draw, Lock, Open, Unlock, Copy,
                StartSave, EndSave, SaveFails, Answer
  <2> QED BY <2>1, <2>2, <2>3
<1>2. IInv /\ [Next]_vars => [\A c \in Coins : Kept(c)]_vars
  BY <1>1
<1>3. QED
  BY <1>2, Invariance, PTL DEF Spec, PictureKept
==============================================================================
