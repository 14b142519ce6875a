----------------------------- MODULE ImageCache ------------------------------
(***************************************************************************)
(* Imager, the cache of coin avatars, and CoinItemViewDelegate::paint, the *)
(* code that draws from it.                                                *)
(*                                                                         *)
(* An avatar has two keys: the picture as downloaded and the small round   *)
(* one made of it.  Each key has a file and an entry in m_inMemory.  The   *)
(* UI thread paints; downloads and transformations run on the io event     *)
(* loops.  Every thread runs one operation, cut where it takes a mutex or  *)
(* touches a file: contains, then preload's check, then its insertion.     *)
(*                                                                         *)
(* QCache is given its limit in bytes but insert() counts every pixmap as  *)
(* 1, so the limit is never met and nothing here evicts an entry.          *)
(***************************************************************************)
EXTENDS Naturals

CONSTANTS
  Coins,     \* coins without an icon of their own in the program's resources
  Answers,   \* what the avatar server may answer, a subset of AllAnswers
  MaxTasks   \* bound on downloads and transformations under way

AllAnswers == {"big", "small", "garbage", "refused"}

ASSUME AnswersAssumption == Answers \subseteq AllAnswers
ASSUME MaxTasksAssumption == MaxTasks \in Nat \ {0}

VARIABLES
  file,       \* per key, the content of its file
  mem,        \* per key, m_inMemory
  locks,      \* m_loadImageLocks: the coins that are being downloaded
  th,         \* per thread, its operation and where it stands in it
  held,       \* per thread, the QPixmap* it took from the cache
  done,       \* coins for which an on_next(true) is queued for the UI thread
  needsPaint, \* coins the view will paint again
  drawn,      \* what the last paint of a coin's row drew
  mishaps     \* history: what went wrong for a coin

vars == <<file, mem, locks, th, held, done, needsPaint, drawn, mishaps>>

Tasks == 1..MaxTasks
UI == 0
Threads == {UI} \cup Tasks
Keys == Coins \X {"source", "target"}

Whole == [source |-> {"big", "small"}, target |-> {"square", "round"}]
Contents(kind) == Whole[kind] \cup {"none", "partial", "bad"}
Pixmaps(kind) == Whole[kind] \cup {"absent", "null"}
Mishaps == Answers \cup {"leftover", "disk", "tornSource", "tornTarget", "raced", "again"}

\* The slip of a request that forgets it has a transformer (used by no action;
\* those named "the slip of" below neither).
KindUntransformed(op) == IF op = "told" THEN "target" ELSE "source"

\* The key a thread works on: paint and the callback look at the round icon.
Kind(op) == IF op \in {"askSource", "load", "keep", "origin"} THEN "source" ELSE "target"
Key(t) == <<th[t].coin, Kind(th[t].op)>>

Ops == {"idle", "paint", "askSource", "askTarget", "told", "load", "keep", "origin", "transform"}
Places == {"out", "contains", "preload", "insert", "get", "draw", "lock", "open", "answer",
           "unlock", "copy", "square", "squareWritten", "round", "roundWritten"}
Idle(c) == [op |-> "idle", at |-> "out", coin |-> c]

\* An earlier run leaves any files behind, unfinished ones too: both keys are
\* written in place.
Init ==
  /\ file \in [Keys -> UNION {Contents(kind) \ {"partial"} : kind \in {"source", "target"}}]
  /\ \A k \in Keys : file[k] \in Contents(k[2])
  /\ mem = [k \in Keys |-> "absent"]
  /\ locks = {}
  /\ \E c \in Coins : th = [t \in Threads |-> Idle(c)]
  /\ held = [t \in Threads |-> "no"]
  /\ done = {}
  /\ needsPaint = Coins
  /\ drawn = [c \in Coins |-> "nothing"]
  /\ mishaps = [c \in Coins |-> IF \E kind \in {"source", "target"} : file[<<c, kind>>] = "bad"
                                  THEN {"leftover"} ELSE {}]

-----------------------------------------------------------------------------
Free == {t \in Tasks : th[t].op = "idle"}

\* QPixmap::load: a file that is not a whole image gives the null pixmap.
Read(k) == IF file[k] \in Whole[k[2]] THEN file[k] ELSE "null"

At(t, op, place) == [th EXCEPT ![t].op = op, ![t].at = place]

Start(t, op, c) == [th EXCEPT ![t] = [op |-> op, at |-> "contains", coin |-> c]]

Ends(t) == th' = [th EXCEPT ![t] = Idle(th[t].coin)]

Emits(t) == Ends(t) /\ done' = done \cup {th[t].coin}

\* subscribe_on an event loop: the operation runs on one that is free.
Launch(op, c) ==
  /\ Free # {}
  /\ th' = [Start(CHOOSE t \in Free : TRUE, op, c) EXCEPT ![UI] = Idle(c)]
  /\ drawn' = [drawn EXCEPT ![c] = "default"]
  /\ UNCHANGED <<done, needsPaint>>

\* The slip of a callback that repaints nothing.
RepaintForgotten(c) ==
  /\ th' = [th EXCEPT ![UI] = Idle(c)]
  /\ UNCHANGED <<needsPaint, done>>

\* m_iconUpdatedCallback emits dataChanged, and the view paints the row again.
Repaint(c) ==
  /\ needsPaint' = needsPaint \cup {c}
  /\ th' = [th EXCEPT ![UI] = Idle(c)]
  /\ UNCHANGED done

\* What each operation does once its key turned out to be there ...
FoundBy(t) ==
  LET op == th[t].op
      c == th[t].coin
  IN \/ /\ op = "paint"
        /\ th' = At(t, op, "get")
        /\ UNCHANGED <<done, needsPaint, drawn>>
     \/ /\ op = "askSource"
        /\ th' = At(t, "askTarget", "contains")
        /\ UNCHANGED <<done, needsPaint, drawn>>
     \/ op = "askTarget" /\ Repaint(c) /\ drawn' = [drawn EXCEPT ![c] = "default"]
     \/ op = "told" /\ Repaint(c) /\ UNCHANGED drawn
     \/ op \in {"load", "transform"} /\ Emits(t) /\ UNCHANGED <<needsPaint, drawn>>
     \/ /\ op = "keep"
        /\ th' = At(t, op, "unlock")
        /\ done' = done \cup {th[t].coin}
        /\ UNCHANGED <<needsPaint, drawn>>

\* ... and once there was neither an entry nor a file.
MissedBy(t) ==
  LET op == th[t].op
      c == th[t].coin
  IN \/ op = "paint" /\ th' = At(t, "askSource", "contains") /\ UNCHANGED <<done, needsPaint, drawn>>
     \/ op = "askSource" /\ Launch("load", c)
     \/ op = "askTarget" /\ Launch("transform", c)
     \/ op = "told" /\ Repaint(c) /\ UNCHANGED drawn
     \/ op = "load" /\ th' = At(t, op, "lock") /\ UNCHANGED <<done, needsPaint, drawn>>
     \/ op = "transform" /\ th' = At(t, "origin", "get") /\ UNCHANGED <<done, needsPaint, drawn>>

-----------------------------------------------------------------------------
\* Imager::exist and load, first half: m_inMemory.contains(key), an entry that
\* holds a null pixmap included.
Contains(t) ==
  /\ th[t].at = "contains"
  /\ IF mem[Key(t)] # "absent"
       THEN FoundBy(t)
       ELSE th' = At(t, th[t].op, "preload") /\ UNCHANGED <<done, needsPaint, drawn>>
  /\ UNCHANGED <<file, mem, locks, held, mishaps>>

\* The slip of exist(key, false): a file is enough.
PreloadSkipped(t) ==
  /\ th[t].at = "preload"
  /\ IF file[Key(t)] = "none" THEN MissedBy(t) ELSE FoundBy(t)
  /\ UNCHANGED <<file, mem, locks, held, mishaps>>

\* The file check, and preload's look at the entry: a null pixmap is loaded anew.
Preload(t) ==
  /\ th[t].at = "preload"
  /\ \/ file[Key(t)] = "none" /\ MissedBy(t)
     \/ /\ file[Key(t)] # "none"
        /\ mem[Key(t)] \notin {"absent", "null"}
        /\ FoundBy(t)
     \/ /\ file[Key(t)] # "none"
        /\ mem[Key(t)] \in {"absent", "null"}
        /\ th' = At(t, th[t].op, "insert")
        /\ UNCHANGED <<done, needsPaint, drawn>>
  /\ UNCHANGED <<file, mem, locks, held, mishaps>>

\* insert() deletes the pixmap it replaces, also one that another thread holds.
Freed(k) ==
  [t \in Threads |-> IF held[t] = "live" /\ Key(t) = k /\ mem[k] # "absent"
                       THEN "freed" ELSE held[t]]

\* What reading a file that is not whole is remembered as.
Torn(k) ==
  IF file[k] \in Whole[k[2]] THEN {}
  ELSE {IF k[2] = "source" THEN "tornSource" ELSE "tornTarget"}

\* preload looked at the entry in an earlier critical section: another thread
\* may have put the picture there since.
Raced(k) == IF mem[k] \in Whole[k[2]] THEN {"raced"} ELSE {}

\* preload's insertion and load under m_cacheLock.  exist() ignores a failure;
\* loadImage does not, but there the file is its own and whole.
Insert(t) ==
  LET k == Key(t) IN
  /\ th[t].at = "insert"
  /\ mem' = [mem EXCEPT ![k] = Read(k)]
  /\ held' = Freed(k)
  /\ mishaps' = [mishaps EXCEPT ![k[1]] = @ \cup Torn(k) \cup Raced(k)]
  /\ FoundBy(t)
  /\ UNCHANGED <<file, locks>>

\* load(): exist() has put an entry there, so the pointer is not nullptr.
Get(t) ==
  /\ th[t].at = "get"
  /\ held' = [held EXCEPT ![t] = IF mem[Key(t)] = "absent" THEN "null" ELSE "live"]
  /\ th' = At(t, th[t].op, IF th[t].op = "paint" THEN "draw" ELSE "copy")
  /\ UNCHANGED <<file, mem, locks, done, needsPaint, drawn, mishaps>>

\* What the pointer leads to when it is dereferenced.
Held(t) == IF held[t] = "live" THEN mem[Key(t)] ELSE "null"

-----------------------------------------------------------------------------
\* The user opens or scrolls the list of coins.
Show(c) ==
  /\ c \notin needsPaint
  /\ needsPaint' = needsPaint \cup {c}
  /\ UNCHANGED <<file, mem, locks, th, held, done, drawn, mishaps>>

\* CoinItemViewDelegate::paint begins with imageRequest.exist().
Paint(c) ==
  /\ th[UI].op = "idle" /\ c \in needsPaint
  /\ needsPaint' = needsPaint \ {c}
  /\ th' = Start(UI, "paint", c)
  /\ UNCHANGED <<file, mem, locks, held, done, drawn, mishaps>>

Draw ==
  /\ th[UI].at = "draw"
  /\ drawn' = [drawn EXCEPT ![th[UI].coin] = IF Held(UI) = "null" THEN "blank" ELSE Held(UI)]
  /\ held' = [held EXCEPT ![UI] = "no"]
  /\ Ends(UI)
  /\ UNCHANGED <<file, mem, locks, done, needsPaint, mishaps>>

\* observe_on the UI thread, queued answers for one row told at once: onSuccess loads the round icon before it calls back.
Tell(c) ==
  /\ c \in done /\ th[UI].op = "idle"
  /\ done' = done \ {c}
  /\ th' = Start(UI, "told", c)
  /\ UNCHANGED <<file, mem, locks, held, needsPaint, drawn, mishaps>>

-----------------------------------------------------------------------------
\* The slip of not looking whether the coin is locked.
LockBlindly(t) ==
  /\ th[t].at = "lock"
  /\ locks' = locks \cup {th[t].coin}
  /\ th' = At(t, "load", "open")
  /\ UNCHANGED <<file, mem, held, done, needsPaint, drawn, mishaps>>

\* loadImage: a coin that is being downloaded is an error, the delegate logs it.
Lock(t) ==
  /\ th[t].at = "lock"
  /\ \/ th[t].coin \in locks /\ Ends(t) /\ UNCHANGED locks
     \/ /\ th[t].coin \notin locks
        /\ locks' = locks \cup {th[t].coin}
        /\ th' = At(t, "load", "open")
  /\ UNCHANGED <<file, mem, held, done, needsPaint, drawn, mishaps>>

\* The file under its final name is truncated and written as the bytes arrive.
Open(t) ==
  /\ th[t].at = "open"
  /\ file' = [file EXCEPT ![Key(t)] = "partial"]
  /\ mishaps' = [mishaps EXCEPT ![th[t].coin] =
                   @ \cup (IF file[Key(t)] \in Whole["source"] THEN {"again"} ELSE {})]
  /\ th' = At(t, "load", "answer")
  /\ UNCHANGED <<mem, locks, held, done, needsPaint, drawn>>

\* "garbage" is a body that is no image, and the empty one of a failed request
\* (status 0); "refused" any status from 400, which keeps the lock.
Answer(t, a) ==
  LET c == th[t].coin IN
  /\ th[t].at = "answer"
  /\ \/ /\ a \in {"big", "small"}
        /\ file' = [file EXCEPT ![Key(t)] = a]
        /\ th' = At(t, "keep", "preload")
        /\ UNCHANGED <<locks, mishaps>>
     \/ /\ a \in {"garbage", "refused"}
        /\ file' = [file EXCEPT ![Key(t)] = "bad"]
        /\ locks' = IF a = "garbage" THEN locks \ {c} ELSE locks
        /\ mishaps' = [mishaps EXCEPT ![c] = @ \cup {a}]
        /\ Ends(t)
  /\ UNCHANGED <<mem, held, done, needsPaint, drawn>>

Unlock(t) ==
  /\ th[t].at = "unlock"
  /\ locks' = locks \ {th[t].coin}
  /\ Ends(t)
  /\ UNCHANGED <<file, mem, held, done, needsPaint, drawn, mishaps>>

\* transform() copies the origin; a null one cannot be saved (on_next(false)).
\* One not larger than the icon is saved as it is first, then drawn over as well.
Copy(t) ==
  /\ th[t].at = "copy"
  /\ \/ Held(t) = "null" /\ Ends(t)
     \/ Held(t) = "small" /\ th' = At(t, "transform", "square")
     \/ Held(t) = "big" /\ th' = At(t, "transform", "round")
  /\ held' = [held EXCEPT ![t] = "no"]
  /\ UNCHANGED <<file, mem, locks, done, needsPaint, drawn, mishaps>>

StartSave(t) ==
  /\ th[t].at \in {"square", "round"}
  /\ file' = [file EXCEPT ![Key(t)] = "partial"]
  /\ th' = At(t, "transform", IF th[t].at = "square" THEN "squareWritten" ELSE "roundWritten")
  /\ UNCHANGED <<mem, locks, held, done, needsPaint, drawn, mishaps>>

EndSave(t) ==
  /\ \/ /\ th[t].at = "squareWritten"
        /\ file' = [file EXCEPT ![Key(t)] = "square"]
        /\ th' = At(t, "transform", "round")
        /\ UNCHANGED done
     \/ /\ th[t].at = "roundWritten"
        /\ file' = [file EXCEPT ![Key(t)] = "round"]
        /\ Emits(t)
  /\ UNCHANGED <<mem, locks, held, needsPaint, drawn, mishaps>>

\* save() fails, the disk being full: on_next(false), what was written stays.
SaveFails(t) ==
  /\ th[t].at \in {"squareWritten", "roundWritten"}
  /\ file' = [file EXCEPT ![Key(t)] = "bad"]
  /\ mishaps' = [mishaps EXCEPT ![th[t].coin] = @ \cup {"disk"}]
  /\ Ends(t)
  /\ UNCHANGED <<mem, locks, held, done, needsPaint, drawn>>

-----------------------------------------------------------------------------
Step(t) ==
  \/ Contains(t) \/ Preload(t) \/ Insert(t) \/ Get(t)
  \/ t = UI /\ Draw
  \/ Lock(t) \/ Open(t) \/ Unlock(t) \/ Copy(t) \/ StartSave(t) \/ EndSave(t) \/ SaveFails(t)
  \/ \E a \in Answers : Answer(t, a)

Next ==
  \/ \E c \in Coins : Show(c) \/ Paint(c) \/ Tell(c)
  \/ \E t \in Threads : Step(t)

\* Threads are scheduled, the request for a picture ends, and the UI event loop
\* reaches every queued event and every repaint it was asked for.
Fairness ==
  /\ \A t \in Threads : WF_vars(Step(t))
  /\ \A c \in Coins : SF_vars(Tell(c)) /\ SF_vars(Paint(c))

Spec == Init /\ [][Next]_vars /\ Fairness

-----------------------------------------------------------------------------
TypeOK ==
  /\ \A k \in Keys : file[k] \in Contents(k[2]) /\ mem[k] \in Pixmaps(k[2])
  /\ locks \subseteq Coins
  /\ th \in [Threads -> [op : Ops, at : Places, coin : Coins]]
  /\ held \in [Threads -> {"no", "live", "freed", "null"}]
  /\ done \subseteq Coins
  /\ needsPaint \subseteq Coins
  /\ drawn \in [Coins -> {"nothing", "default", "blank", "square", "round"}]
  /\ mishaps \in [Coins -> SUBSET Mishaps]

Downloading(t) == th[t].op = "keep" \/ th[t].at \in {"open", "answer"}

\* loadImage's lock: one download of a coin at a time, so its file has one
\* writer, and a lock nobody works under is what a refused download left.
LoadLockKept ==
  /\ \A t, u \in Tasks :
       Downloading(t) /\ Downloading(u) /\ th[t].coin = th[u].coin => t = u
  /\ \A t \in Tasks : Downloading(t) => th[t].coin \in locks
  /\ \A c \in locks :
       (\E t \in Tasks : Downloading(t) /\ th[t].coin = c) \/ "refused" \in mishaps[c]

\* Neither paint nor transform() dereferences nullptr, and the pixmap under a
\* pointer is deleted by another thread only if the key's file was read before
\* it was whole, or two threads filled the entry at once: the two ways in which
\* an entry is replaced.
PointersGood ==
  \A t \in Threads :
    /\ held[t] # "null"
    /\ held[t] = "freed" => mishaps[th[t].coin] \cap {"tornSource", "tornTarget", "raced"} # {}

\* A row is painted without any icon only if the round icon's file was read
\* before it was whole, or its pixmap was deleted by a second one filling the
\* entry: a refused, empty or spoilt download leaves the default icon.
BlankExplained ==
  \A c \in Coins : drawn[c] = "blank" => mishaps[c] \cap {"tornTarget", "raced"} # {}

\* A downloaded picture stays in memory: only a second download of a file that
\* was there already (its loadImage asked exist() before the first one ended
\* and took the lock after it) lets a reader replace it by a null pixmap.
PictureKept ==
  [][\A c \in Coins : LET k == <<c, "source">> IN
       mem[k] \in Whole["source"] =>
         mem'[k] \in Whole["source"] \/ "again" \in mishaps[c]]_vars

\* A row that is to be painted comes to show its coin's avatar, through
\* download, transformation and the repaints their callbacks ask for, unless
\* the server or the disk failed or the icon's file was read too early.
IconShown ==
  \A c \in Coins :
    c \in needsPaint ~> (drawn[c] \in {"square", "round"} \/ mishaps[c] \ {"tornSource", "raced", "again"} # {})
==============================================================================
