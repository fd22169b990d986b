------------------------------ MODULE VsdCard ------------------------------
(***************************************************************************)
(* The Evo's SD card (vsd.c): the dock's own FAT32 card, rooted at         *)
(* /evo/SD.  Two file systems write it.  The firmware's is FatFs; the      *)
(* other is the Evo's own driver, whose sectors come through vsd_write and *)
(* are let pass, merged or refused by the clusters they touch.             *)
(*                                                                         *)
(* Modelled are the FAT copies, one sector each (n_fatent <= 128), the     *)
(* clusters of one sector each, and one directory, /evo/SD itself, with    *)
(* one entry per file.  Sectors outside the FATs and the clusters are      *)
(* refused or harmless and left out, as are the top four bits of an entry. *)
(* card_write does not fail: sdc_write reports success whatever happens.   *)
(***************************************************************************)
EXTENDS VsdRuns, FiniteSets

CONSTANTS
    n_fatent,       \* clusters are 2..n_fatent - 1
    n_fats,         \* copies of the FAT on the card
    sdroot,         \* /evo/SD's first cluster
    NFiles,         \* directory entries of /evo/SD
    Tree,           \* the clusters of each file of /evo/SD at the start
    Own,            \* the clusters of the firmware's files, but its settings
    Settings,       \* the cluster of the settings file at the start
    Allocates,      \* BOOLEAN: the firmware saves settings, not the CMOS only
    AnyWrites,      \* BOOLEAN: the Evo writes any sector, or as a driver does
    Written,        \* the entries it then writes into a FAT
    CardFaults,     \* when a read of the card may fail: in the "walk", in "use"
    CutsOff,        \* BOOLEAN: a restart may cut off an operation of the Evo
    MaxBoots        \* how often the Evo is started

Free == 0
Eoc == 1            \* the end of a chain
Clusters == 2..(n_fatent - 1)
Entry == {Free, Eoc} \cup Clusters
Image == [Clusters -> Entry]
NoCopy == <<>>      \* no sector held
Copies == 1..n_fats
Files == 1..NFiles

ASSUME CardAssumption ==
    /\ n_fatent \in Nat /\ n_fatent > 2 /\ n_fats \in Nat \ {0} /\ NFiles \in Nat
    /\ sdroot \in Clusters /\ Settings \in Clusters \ {sdroot}
    /\ Own \subseteq Clusters \ {sdroot, Settings}
    /\ Tree \in [Files -> Seq(Clusters \ ({sdroot, Settings} \cup Own))]
    /\ \A f, g \in Files : \A i \in DOMAIN Tree[f], j \in DOMAIN Tree[g] :
          Tree[f][i] = Tree[g][j] => f = g /\ i = j
    /\ Written \subseteq Entry
    /\ Allocates \in BOOLEAN /\ AnyWrites \in BOOLEAN
    /\ CardFaults \subseteq {"walk", "use"}
    /\ CutsOff \in BOOLEAN
    /\ MaxBoots \in Nat \ {0}

VARIABLES
    fat,        \* the FAT copies on the card
    sd,         \* the directory /evo/SD: each file's first cluster, or Free
    host,       \* the entries the firmware gave its own files' clusters, else Free
    spoilt,     \* the firmware's clusters whose data the Evo has overwritten
    settings,   \* the settings file's first cluster, or Free
    win,        \* FatFs's window, if it holds FAT 1's sector
    vpc,        \* vsd.c: "off", "none" (no card), "walk", "idle" or "merge"
    ext,        \* the runs of inside clusters
    fc,         \* vsd.c's cached FAT sectors
    others,     \* someone else has had the card's lock since (sdc_locks)
    walk,       \* note_chain: the file, the cluster it is at, its guard
    wr,         \* fat_write: the copy, the loop's cluster, b[] and old[]
    img,        \* FAT 1 as the Evo's driver holds it, or NoCopy
    op,         \* what that driver has yet to write
    boots

cardVars == <<fat, sd, host, spoilt, settings>>
guardVars == <<ext, fc, walk, wr>>
evoVars == <<img, op>>
vars == <<cardVars, win, vpc, guardVars, others, evoVars, boots>>

NoWalk == [f |-> 0, c |-> 0, guard |-> 0]
NoWrite == [k |-> 0, c |-> 0, b |-> NoCopy, old |-> NoCopy]
NoOp == [f |-> 0, c |-> 0, fats |-> {}, data |-> FALSE, dir |-> FALSE]

-----------------------------------------------------------------------------
(* The card's lock, and FAT sectors cached while nobody else has used it.  *)

\* lock(): the cache as the holder finds it.
Kept == IF others THEN [k \in Copies |-> NoCopy] ELSE fc

\* fat_sec() of copy k, from cache f or the card.
FatSec(f, k) == IF f[k] = NoCopy THEN [f EXCEPT ![k] = fat[k]] ELSE f

\* The lock is free: vsd.c holds it through a walk and through a merge.
Unlocked == vpc \notin {"walk", "merge"}

-----------------------------------------------------------------------------
(* The walk at start.                                                      *)

\* vsd_scan up to the first chain, which is the folder's own.
Scan ==
    /\ vpc = "off"
    /\ vpc' = "walk"
    /\ ext' = <<>>
    /\ fc' = [k \in Copies |-> NoCopy]
    /\ others' = FALSE
    /\ walk' = [f |-> 0, c |-> sdroot, guard |-> n_fatent]
    /\ win' \in {win, NoCopy}
    /\ UNCHANGED <<cardVars, wr, evoVars, boots>>

\* The card does not mount, is not FAT32, or the boot sector does not read.
ScanFails ==
    /\ "walk" \in CardFaults /\ vpc = "off"
    /\ vpc' = "none"
    /\ ext' = <<>>
    /\ UNCHANGED <<cardVars, win, fc, others, walk, wr, evoVars, boots>>

ChainGoesOn == walk.c \in Clusters /\ ~inside(ext, walk.c) /\ walk.guard > 0

\* One turn of note_chain's loop: a FAT that does not read ends the chain.
NoteCluster ==
    /\ vpc = "walk" /\ ChainGoesOn
    /\ ext' = ext_add(ext, walk.c)
    /\ \/ /\ fc' = FatSec(fc, 1)
          /\ walk' = [walk EXCEPT !.c = FatSec(fc, 1)[1][walk.c], !.guard = @ - 1]
       \/ /\ "walk" \in CardFaults /\ fc[1] = NoCopy
          /\ walk' = [walk EXCEPT !.c = Eoc, !.guard = @ - 1]
          /\ UNCHANGED fc
    /\ UNCHANGED <<cardVars, win, vpc, others, wr, evoVars, boots>>

\* walk_dir: on to the directory's next entry.
NextEntry ==
    /\ vpc = "walk" /\ ~ChainGoesOn /\ walk.f < NFiles
    /\ walk' = [f |-> walk.f + 1, c |-> sd[walk.f + 1], guard |-> n_fatent]
    /\ UNCHANGED <<cardVars, win, vpc, ext, fc, others, wr, evoVars, boots>>

\* The directory's end, or its sector does not read.
WalkEnds ==
    /\ vpc = "walk" /\ ~ChainGoesOn
    /\ walk.f = NFiles \/ ("walk" \in CardFaults /\ walk.f = 0)
    /\ vpc' = "idle"
    /\ walk' = NoWalk
    /\ UNCHANGED <<cardVars, win, ext, fc, others, wr, evoVars, boots>>

-----------------------------------------------------------------------------
(* What the Evo reads and writes.                                          *)

\* vsd_read of FAT 1's sector, which is the card's.
ReadFat ==
    /\ vpc = "idle"
    /\ img' = fat[1]
    /\ fc' = Kept
    /\ others' = FALSE
    /\ UNCHANGED <<cardVars, win, vpc, ext, walk, wr, op, boots>>

\* fat_write of b over copy k, up to its loop.
BeginMerge(k, b) ==
    /\ vpc = "idle"
    /\ fc' = FatSec(FatSec(Kept, k), 1)
    /\ wr' = [k |-> k, c |-> 2, b |-> b, old |-> FatSec(Kept, k)[k]]
    /\ vpc' = "merge"
    /\ others' = FALSE
    /\ UNCHANGED <<cardVars, win, ext, walk, boots>>

\* ... and when one of the two sectors it needs does not read.
MergeFails(k) ==
    /\ "use" \in CardFaults /\ vpc = "idle"
    /\ \/ Kept[k] = NoCopy /\ fc' = Kept
       \/ Kept[1] = NoCopy /\ k # 1 /\ fc' = FatSec(Kept, k)
    /\ others' = FALSE
    /\ UNCHANGED <<cardVars, win, vpc, ext, walk, wr, boots>>

\* Mutants: a cluster freed stays inside; the folder's own may be freed.
RenotedAddsOnly(c, o, n) == IF o = Free THEN ext_add(ext, c) ELSE ext
EntryOkRootToo(c, o, n) ==
    \/ o = Free \/ inside(ext, c)
    \/ wr.k > 1 /\ n = fc[1][c]

\* May the entry of cluster c change from o to n?  In a copy other than the
\* first it may become what FAT 1 says.
EntryOk(c, o, n) ==
    \/ (o = Free \/ inside(ext, c)) /\ ~(c = sdroot /\ n = Free)
    \/ wr.k > 1 /\ n = fc[1][c]

\* What a change of FAT 1's entry does to the inside set.
Renoted(c, o, n) ==
    IF n = Free THEN ext_remove(ext, c)
    ELSE IF o = Free THEN ext_add(ext, c) ELSE ext

\* One turn of the loop over the sector's entries.
MergeEntry ==
    /\ vpc = "merge" /\ wr.c \in Clusters
    /\ LET c == wr.c
           o == wr.old[c]
           n == wr.b[c]
       IN IF o # n /\ EntryOk(c, o, n)
          THEN /\ wr' = [wr EXCEPT !.old[c] = n, !.c = c + 1]
               /\ ext' = IF wr.k = 1 THEN Renoted(c, o, n) ELSE ext
          ELSE /\ wr' = [wr EXCEPT !.c = c + 1]
               /\ UNCHANGED ext
    /\ UNCHANGED <<cardVars, win, vpc, fc, others, walk, evoVars, boots>>

\* Mutant: FatFs's window is left as it is.
EndMergeKeepsWindow ==
    /\ vpc = "merge" /\ wr.c \notin Clusters
    /\ IF wr.old = fc[wr.k]
       THEN UNCHANGED <<fat, fc, win>>
       ELSE /\ fat' = [fat EXCEPT ![wr.k] = wr.old]
            /\ fc' = [fc EXCEPT ![wr.k] = wr.old]
            /\ UNCHANGED win
    /\ vpc' = "idle"
    /\ wr' = NoWrite
    /\ UNCHANGED <<sd, host, spoilt, settings, ext, others, walk, evoVars, boots>>

\* The merged sector goes to the card (if an entry changed): the cache keeps
\* it, FatFs's window drops it.
EndMerge ==
    /\ vpc = "merge" /\ wr.c \notin Clusters
    /\ IF wr.old = fc[wr.k]
       THEN UNCHANGED <<fat, fc, win>>
       ELSE /\ fat' = [fat EXCEPT ![wr.k] = wr.old]
            /\ fc' = [fc EXCEPT ![wr.k] = wr.old]
            /\ win' = IF wr.k = 1 THEN NoCopy ELSE win
    /\ vpc' = "idle"
    /\ wr' = NoWrite
    /\ UNCHANGED <<sd, host, spoilt, settings, ext, others, walk, evoVars, boots>>

\* vsd_write of cluster c's data: fat_get of a cluster that is not inside.
DataAsked(c) ==
    /\ vpc = "idle"
    /\ others' = FALSE
    /\ \/ fc' = IF inside(ext, c) THEN Kept ELSE FatSec(Kept, 1)
       \/ "use" \in CardFaults /\ ~inside(ext, c) /\ Kept[1] = NoCopy /\ fc' = Kept
    /\ UNCHANGED <<fat, host, settings, win, vpc, ext, walk, wr, boots>>

Passes(c, f) == inside(ext, c) \/ (f[1] # NoCopy /\ f[1][c] = Free)

\* It is written; the sector of sdroot is the directory d.
DataWrite(c, d) ==
    /\ DataAsked(c) /\ Passes(c, fc')
    /\ spoilt' = IF host[c] # Free THEN spoilt \cup {c} ELSE spoilt
    /\ sd' = IF c = sdroot THEN d ELSE sd

DataRefused(c) == DataAsked(c) /\ ~Passes(c, fc') /\ UNCHANGED <<sd, spoilt>>

-----------------------------------------------------------------------------
(* The Evo's software (external).  With AnyWrites it writes what it likes; *)
(* else it is a FAT driver that holds the FAT as it last read it, and      *)
(* writes the sectors of one operation in an order of its own.             *)

Drives == vpc = "idle" /\ ~AnyWrites
NextOperation == Drives /\ op = NoOp /\ img # NoCopy

AnyWrite ==
    /\ AnyWrites
    /\ \/ \E k \in Copies, b \in [Clusters -> Written] : BeginMerge(k, b)
       \/ \E k \in Copies : MergeFails(k)
       \/ \E c \in Clusters : DataWrite(c, sd) \/ DataRefused(c)
    /\ UNCHANGED evoVars

\* The clusters of the chain from c in the FAT image i: the least set that
\* holds c and follows every link.
Follows(i, S) == \A x \in S : i[x] \in Clusters => i[x] \in S
Chain(i, c) ==
    {d \in Clusters : /\ c \in Clusters
                      /\ \A S \in SUBSET Clusters : c \in S /\ Follows(i, S) => d \in S}

Cleared(i, S) == [c \in Clusters |-> IF c \in S THEN Free ELSE i[c]]

Mount == Drives /\ op = NoOp /\ ReadFat

\* A new file of one cluster.
Create(f, c) ==
    /\ NextOperation /\ sd[f] = Free /\ img[c] = Free
    /\ img' = [img EXCEPT ![c] = Eoc]
    /\ op' = [f |-> f, c |-> c, fats |-> Copies, data |-> TRUE, dir |-> TRUE]
    /\ UNCHANGED <<cardVars, win, vpc, guardVars, others, boots>>

\* A cluster more for a file.
Grow(f, c) ==
    /\ NextOperation /\ img[c] = Free
    /\ \E last \in Chain(img, sd[f]) :
          /\ img[last] = Eoc
          /\ img' = [img EXCEPT ![c] = Eoc, ![last] = c]
    /\ op' = [f |-> f, c |-> c, fats |-> Copies, data |-> TRUE, dir |-> FALSE]
    /\ UNCHANGED <<cardVars, win, vpc, guardVars, others, boots>>

Delete(f) ==
    /\ NextOperation /\ sd[f] # Free
    /\ img' = Cleared(img, Chain(img, sd[f]))
    /\ op' = [f |-> f, c |-> Free, fats |-> Copies, data |-> FALSE, dir |-> TRUE]
    /\ UNCHANGED <<cardVars, win, vpc, guardVars, others, boots>>

WriteFat(k) ==
    /\ Drives /\ k \in op.fats
    /\ BeginMerge(k, img) \/ MergeFails(k)
    /\ op' = [op EXCEPT !.fats = @ \ {k}]
    /\ UNCHANGED img

\* Refused, it gives the operation up or carries on.
WriteData ==
    /\ Drives /\ op.data
    /\ \/ DataWrite(op.c, sd) /\ op' = [op EXCEPT !.data = FALSE]
       \/ DataRefused(op.c) /\ op' \in {NoOp, [op EXCEPT !.data = FALSE]}
    /\ UNCHANGED img

\* The directory's sector, never refused (RootStays).
WriteDir ==
    /\ Drives /\ op.dir
    /\ DataWrite(sdroot, [sd EXCEPT ![op.f] = op.c])
    /\ op' = [op EXCEPT !.dir = FALSE]
    /\ UNCHANGED img

\* Every sector is written: the driver is free for the next operation.
Done ==
    /\ Drives /\ op # NoOp
    /\ op.fats = {} /\ ~op.data /\ ~op.dir
    /\ op' = NoOp
    /\ UNCHANGED <<cardVars, win, vpc, guardVars, others, img, boots>>

-----------------------------------------------------------------------------
(* The firmware, through FatFs, under the card's lock.                     *)

\* FAT 1's sector in FatFs's window, read from the card if it was not there.
Window == IF win = NoCopy THEN fat[1] ELSE win

\* A file is cut to nothing and written anew, to a cluster that is free by
\* then (if any); FatFs writes both FATs.
WriteAnew ==
    /\ LET old == Chain(Window, settings)
           cut == Cleared(Window, old)
           free == {c \in Clusters : cut[c] = Free}
       IN \E c \in free \cup {Free} :
             /\ c = Free => free = {}
             /\ LET new == [d \in Clusters |-> IF d = c THEN Eoc ELSE cut[d]]
                IN /\ fat' = [k \in Copies |-> new]
                   /\ win' \in {new, NoCopy}
             /\ settings' = c
             /\ host' = [d \in Clusters |-> IF d = c THEN Eoc
                                            ELSE IF d \in old THEN Free ELSE host[d]]
             /\ spoilt' = spoilt \ (old \cup {c})
    /\ others' = TRUE
    /\ UNCHANGED <<sd, vpc, guardVars, evoVars, boots>>

\* menu_settings_save.
SaveSettings == Allocates /\ Unlocked /\ WriteAnew

\* Mutant: the CMOS is saved as the settings are.
UseCardAnew == Unlocked /\ WriteAnew

\* An operation that allocates nothing: a file is read, or written in place
\* (cmos_save).  The window is left on FAT 1's sector or on another.
UseCard ==
    /\ Unlocked
    /\ others' = TRUE
    /\ win' \in {Window, NoCopy}
    /\ UNCHANGED <<cardVars, vpc, guardVars, evoVars, boots>>

\* Power off and on, or another core and back: both sides begin anew.
Restart ==
    /\ boots < MaxBoots
    /\ vpc # "off"
    /\ CutsOff \/ (op = NoOp /\ Unlocked)
    /\ boots' = boots + 1
    /\ vpc' = "off"
    /\ win' = NoCopy
    /\ ext' = <<>>
    /\ fc' = [k \in Copies |-> NoCopy]
    /\ others' = FALSE
    /\ walk' = NoWalk
    /\ wr' = NoWrite
    /\ img' = NoCopy
    /\ op' = NoOp
    /\ UNCHANGED cardVars

-----------------------------------------------------------------------------
\* The card before the Evo ever ran.
NextInTree(c) ==
    LET follows(d) == \E f \in Files : \E i \in 1..Len(Tree[f]) - 1 :
                         Tree[f][i] = c /\ Tree[f][i + 1] = d
    IN IF \E d \in Clusters : follows(d) THEN CHOOSE d \in Clusters : follows(d) ELSE Eoc

InTree(c) == c = sdroot \/ \E f \in Files : \E i \in DOMAIN Tree[f] : Tree[f][i] = c

Init ==
    /\ fat = [k \in Copies |-> [c \in Clusters |->
                 IF InTree(c) THEN NextInTree(c) ELSE IF c \in Own \cup {Settings} THEN Eoc ELSE Free]]
    /\ sd = [f \in Files |-> IF Tree[f] = <<>> THEN Free ELSE Tree[f][1]]
    /\ host = [c \in Clusters |-> IF c \in Own \cup {Settings} THEN Eoc ELSE Free]
    /\ spoilt = {} /\ settings = Settings /\ win = NoCopy
    /\ vpc = "off" /\ ext = <<>> /\ fc = [k \in Copies |-> NoCopy] /\ others = FALSE
    /\ walk = NoWalk /\ wr = NoWrite /\ img = NoCopy /\ op = NoOp /\ boots = 1

Guard == Scan \/ ScanFails \/ NoteCluster \/ NextEntry \/ WalkEnds \/ MergeEntry \/ EndMerge

Driver ==
    \/ Mount \/ WriteData \/ WriteDir \/ Done
    \/ \E f \in Files : Delete(f)
    \/ \E f \in Files, c \in Clusters : Create(f, c) \/ Grow(f, c)
    \/ \E k \in Copies : WriteFat(k)

Next == Guard \/ AnyWrite \/ Driver \/ UseCard \/ SaveSettings \/ Restart

Spec == Init /\ [][Next]_vars

-----------------------------------------------------------------------------
TypeOK ==
    /\ fat \in [Copies -> Image] /\ sd \in [Files -> {Free} \cup Clusters]
    /\ host \in [Clusters -> {Free, Eoc}] /\ spoilt \subseteq Clusters
    /\ settings \in {Free} \cup Clusters /\ win \in Image \cup {NoCopy}
    /\ vpc \in {"off", "none", "walk", "idle", "merge"}
    /\ ext \in Seq(Run) /\ fc \in [Copies -> Image \cup {NoCopy}]
    /\ others \in BOOLEAN
    /\ walk \in [f : 0..NFiles, c : {Free, Eoc} \cup Clusters, guard : 0..n_fatent]
    /\ wr \in [k : 0..n_fats, c : 0..n_fatent, b : Image \cup {NoCopy}, old : Image \cup {NoCopy}]
    /\ img \in Image \cup {NoCopy}
    /\ op \in [f : 0..NFiles, c : {Free} \cup Clusters, fats : SUBSET Copies,
                data : BOOLEAN, dir : BOOLEAN]
    /\ boots \in 1..MaxBoots

Inside == {c \in Clusters : inside(ext, c)}

\* FAT 1 as the inside set knows it: ahead of the card during a merge.
Fat1 == IF vpc = "merge" /\ wr.k = 1 THEN wr.old ELSE fat[1]

(* "What keeps the rest of the card safe" (vsd.h:15-22): whatever the Evo   *)
(* writes, the firmware's files keep their data and their chains in every  *)
(* copy of the FAT, while the firmware allocates from the same card.       *)
RestOfCardSafe ==
    /\ spoilt = {}
    /\ \A c \in Clusters, k \in Copies : host[c] # Free => fat[k][c] = host[c]

(* Allocating a cluster makes it inside, freeing it takes it out           *)
(* (vsd.h:17-19): the runs hold exactly the clusters in use that are not   *)
(* the firmware's, and never a free one the firmware might take next.      *)
InsideIsInUse == \A c \in Inside : Fat1[c] # Free /\ host[c] = Free
InsideIsAll ==
    vpc \in {"idle", "merge"} => \A c \in Clusters : Fat1[c] # Free /\ host[c] = Free => c \in Inside
InsideExact == InsideIsInUse /\ InsideIsAll

(* The table stays sorted, its runs apart from each other and within its   *)
(* size, and ext_find's halving finds in it what a plain search does.      *)
RunsSound ==
    /\ Sorted(ext) /\ Len(ext) <= VSD_EXTENTS
    /\ \A c \in 0..n_fatent : ext_find(ext, c) = LastRun(ext, c)

(* Neither file system acts on a FAT sector the other has written since:   *)
(* not vsd.c on its cache once it has the lock, nor FatFs on its window.   *)
NoStaleSector ==
    /\ ~others => \A k \in Copies : fc[k] \in {NoCopy, fat[k]}
    /\ win \in {NoCopy, fat[1]}

(* The Evo's root directory is there for as long as its card is: it is     *)
(* never freed, not even by a format (vsd.c:344-347).                      *)
RootStays == vpc \in {"idle", "merge"} => sdroot \in Inside /\ fat[1][sdroot] # Free

(* No file of /evo/SD leads into one of the firmware's.                    *)
TreeApart ==
    \A f \in Files : \A c \in Chain(fat[1], sd[f]) : host[c] = Free
=============================================================================
