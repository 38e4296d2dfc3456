----------------------------- MODULE PackageLoad -----------------------------
(***************************************************************************)
(* Loading a package directory (src/src/package.c, src/src/source.c) while  *)
(* other programs change the tree.                                          *)
(*                                                                          *)
(* The tree is a name space over inodes: directories, regular files and      *)
(* links to directories.  A file's content is a sequence of blocks, and a    *)
(* change stamps it with the time, so the clock is assumed to tell any two   *)
(* changes apart.  Any system call may fail and any budget may be exhausted  *)
(* (GiveUp).  A path is the sequence of names from the package directory.   *)
(***************************************************************************)
EXTENDS Naturals, Sequences, FiniteSets, SequencesExt

CONSTANTS Directory, File, Link,  \* inodes
          Top,                    \* the package directory
          Target,                 \* the directory a link points to
          Name,                   \* names, numbered in the order of strcmp
          SourceName,             \* those that end in .sol
          Tree,                   \* what a directory and a name are bound to at first
          Text,                   \* the content of a file at first
          MaxBlocks,              \* bound: size of a file
          MaxChanges,             \* bound: changes made by other programs
          None

Inode == Directory \cup File \cup Link
ASSUME TreeAssumption ==
    /\ Name \subseteq Nat \ {0} /\ SourceName \subseteq Name
    /\ Top \in Directory /\ Target \in [Link -> Directory]
    /\ Tree \in [Directory \X Name -> Inode \cup {None}]
    /\ None \notin Inode
    /\ Text \in [File -> UNION {[1..n -> {0}] : n \in 0..MaxBlocks}]
    /\ {MaxBlocks, MaxChanges} \subseteq Nat

VARIABLES names, content, stamp,  \* the file system
          clock,
          touched,     \* history: bindings changed since the load began
          pc,          \* "start", "discover", "open", "read", "loaded" or "failed"
          open,        \* directories being read, outermost first
          child,       \* directory entry inspected and about to be opened
          paths,       \* SolPathList: a sequence of paths with their identities
          index,       \* file being loaded
          descriptor,  \* its inode, the status taken before, and what was read
          files,       \* package->files
          truth        \* history: what each held when its status was compared

disk == <<names, content, stamp, clock, touched>>
loader == <<pc, open, child, paths, index, descriptor, files, truth>>
vars == <<disk, loader>>

Init ==
    /\ names = Tree /\ content = Text
    /\ stamp = [f \in File |-> 0] /\ clock = 0 /\ touched = {}
    /\ pc = "start" /\ open = << >> /\ child = None /\ paths = << >> /\ index = 0
    /\ descriptor = None /\ files = << >> /\ truth = << >>

-----------------------------------------------------------------------------
(* Other programs.                                                           *)

(* Only changes before the load is over matter.                              *)
Change == clock < MaxChanges /\ pc \notin {"loaded", "failed"} /\ clock' = clock + 1

(* Create, remove, rename or replace: the binding is new to directory        *)
(* readers, who may see the name again.  A directory has one name, and the   *)
(* tree is two deep.                                                         *)
Rebind(d, n, i) ==
    /\ Change
    /\ names[d, n] # i
    /\ i \in Directory => d = Top /\ i # Top /\ \A b \in DOMAIN names : names[b] # i
    /\ names' = [names EXCEPT ![d, n] = i]
    /\ touched' = touched \cup {<<d, n>>}
    /\ open' = [k \in DOMAIN open |->
                  IF open[k].inode = d THEN [open[k] EXCEPT !.seen = @ \ {n}] ELSE open[k]]
    /\ UNCHANGED <<content, stamp, pc, child, paths, index, descriptor, files, truth>>

(* Overwrite a block, append one, or cut the last.                           *)
Edit(f) ==
    /\ Change
    /\ \/ \E k \in DOMAIN content[f] : content' = [content EXCEPT ![f][k] = clock']
       \/ Len(content[f]) < MaxBlocks /\ content' = [content EXCEPT ![f] = Append(@, clock')]
       \/ content[f] # << >> /\ content' = [content EXCEPT ![f] = Front(@)]
    /\ stamp' = [stamp EXCEPT ![f] = clock']
    /\ UNCHANGED <<names, touched, loader>>

-----------------------------------------------------------------------------
(* Discovery.                                                                *)

Status(f) == [inode |-> f, size |-> Len(content[f]), stamp |-> stamp[f]]

Reader(d, prefix) == [inode |-> d, prefix |-> prefix, seen |-> {}]

(* sol_package_load_kind: lstat, open, and the outermost discovery.          *)
Start ==
    /\ pc = "start"
    /\ pc' = "discover" /\ open' = <<Reader(Top, << >>)>>
    /\ touched' = {}
    /\ UNCHANGED <<names, content, stamp, clock, child, paths, index, descriptor, files, truth>>

See(n) == [open EXCEPT ![Len(open)].seen = @ \cup {n}]

NeverKnown(i) == FALSE

Known(i) == \E k \in DOMAIN paths : paths[k].inode = i

IsSource(i, n) == i \in File /\ n \in SourceName

(* One turn of the loop over readdir: the entry is inspected with fstatat,   *)
(* which does not follow links.  A source file whose identity is already in  *)
(* the list fails the load.                                                  *)
Visit(n) ==
    LET dir == Last(open)  i == names[dir.inode, n]  source == IsSource(i, n) IN
    /\ pc = "discover" /\ child = None
    /\ n \notin dir.seen /\ i # None
    /\ open' = See(n)
    /\ pc' = IF source /\ Known(i) THEN "failed" ELSE "discover"
    /\ paths' = IF source /\ ~Known(i)
                  THEN Append(paths, [path |-> Append(dir.prefix, n), inode |-> i])
                  ELSE paths
    /\ child' = IF i \in Directory THEN Reader(i, Append(dir.prefix, n)) ELSE None
    /\ UNCHANGED <<disk, index, descriptor, files, truth>>

(* openat of the directory just inspected, and the identity check on what    *)
(* was opened.                                                               *)
Enter ==
    LET opened == names[Last(open).inode, Last(child.prefix)] IN
    /\ pc = "discover" /\ child # None
    /\ \/ /\ opened = child.inode
          /\ open' = Append(open, child) /\ child' = None
          /\ UNCHANGED pc
       \/ /\ opened # child.inode
          /\ pc' = "failed"
          /\ UNCHANGED <<open, child>>
    /\ UNCHANGED <<disk, paths, index, descriptor, files, truth>>

CloseAll(readers) == << >>

Close(readers) == Front(readers)

(* readdir has returned every entry that was there all along.                *)
Exhausted(dir) ==
    \A n \in Name \ dir.seen : names[dir.inode, n] # None => <<dir.inode, n>> \in touched

(* sol_package_compare_paths.  Names stand for the text strcmp compares, the *)
(* separator included, so paths compare name by name.                        *)
Before(p, q) ==
    \E k \in 1..Len(q.path) :
        /\ \A j \in 1..(k - 1) : j <= Len(p.path) /\ p.path[j] = q.path[j]
        /\ k <= Len(p.path) => p.path[k] < q.path[k]

InOrder(list) == \A j, k \in DOMAIN list : j < k => ~Before(list[k], list[j])

(* qsort leaves equal paths in either order: a name that was replaced while  *)
(* its directory was read may be in the list twice, with two identities.     *)
Sorted(list) == {s \in SetToSeqs(ToSet(list)) : InOrder(s)}

(* The end of a directory.  With the outermost one the discovery is over and *)
(* the list is sorted.                                                       *)
Leave ==
    /\ pc = "discover" /\ child = None
    /\ Exhausted(Last(open))
    /\ open' = Close(open)
    /\ IF open' = << >> THEN pc' = "open" /\ index' = 1 /\ paths' \in Sorted(paths)
                        ELSE UNCHANGED <<pc, index, paths>>
    /\ UNCHANGED <<disk, child, descriptor, files, truth>>

-----------------------------------------------------------------------------
(* Loading.                                                                  *)

(* What open(path, O_NOFOLLOW) reaches: a link is followed except as the     *)
(* last name.                                                                *)
Resolve(path) ==
    LET step(i) == IF i \in Link THEN Target[i] ELSE i
        first == step(names[Top, path[1]]) IN
    IF Len(path) = 1 THEN names[Top, path[1]]
    ELSE IF first \in Directory THEN names[first, path[2]] ELSE None

(* sol_source_load_expected up to the identity check.                        *)
OpenSource ==
    LET entry == paths[index]  f == Resolve(entry.path) IN
    /\ pc = "open" /\ index <= Len(paths)
    /\ \/ /\ f \in File /\ f = entry.inode
          /\ descriptor' = [before |-> Status(f), text |-> << >>]
          /\ pc' = "read"
       \/ /\ f \notin File \/ f # entry.inode
          /\ pc' = "failed"
          /\ UNCHANGED descriptor
    /\ UNCHANGED <<disk, open, child, paths, index, files, truth>>

(* One read of the loop; it ends early when the file has become shorter.     *)
ReadBlock ==
    LET text == descriptor.text  now == content[descriptor.before.inode] IN
    /\ pc = "read" /\ Len(text) < descriptor.before.size /\ Len(text) < Len(now)
    /\ descriptor' = [descriptor EXCEPT !.text = Append(text, now[Len(text) + 1])]
    /\ UNCHANGED <<disk, pc, open, child, paths, index, files, truth>>

SameSize(left, right) == left.inode = right.inode /\ left.size = right.size

(* sol_source_same_file                                                      *)
SameFile(left, right) == left = right

(* aggregate_start and aggregate_end: one separator between files.           *)
Offset(list) == IF list = << >> THEN 0 ELSE Last(list).end + 1

(* The extra read and the second fstat: anything but the whole, unchanged    *)
(* file fails the load.                                                      *)
CloseSource ==
    LET before == descriptor.before  text == descriptor.text
        now == content[before.inode] IN
    /\ pc = "read" /\ (Len(text) < before.size => Len(text) >= Len(now))
    /\ \/ /\ Len(text) = before.size /\ Len(now) <= before.size
          /\ SameFile(before, Status(before.inode))
          /\ files' = Append(files,
                [path |-> paths[index].path, inode |-> before.inode, text |-> text,
                 start |-> Offset(files), end |-> Offset(files) + Len(text)])
          /\ truth' = Append(truth, now)
          /\ pc' = "open" /\ index' = index + 1
       \/ /\ ~(Len(text) = before.size /\ Len(now) <= before.size
               /\ SameFile(before, Status(before.inode)))
          /\ pc' = "failed"
          /\ UNCHANGED <<index, files, truth>>
    /\ descriptor' = None
    /\ UNCHANGED <<disk, open, child, paths>>

Loaded ==
    /\ pc = "open" /\ index > Len(paths)
    /\ pc' = "loaded"
    /\ UNCHANGED <<disk, open, child, paths, index, descriptor, files, truth>>

(* A system call fails, a budget is exhausted, a source holds a NUL byte.    *)
GiveUp ==
    /\ pc \in {"start", "discover", "open", "read"}
    /\ pc' = "failed"
    /\ UNCHANGED <<disk, open, child, paths, index, descriptor, files, truth>>

Next ==
    \/ \E d \in Directory, n \in Name, i \in Inode \cup {None} : Rebind(d, n, i)
    \/ \E f \in File : Edit(f)
    \/ Start \/ (\E n \in Name : Visit(n)) \/ Enter \/ Leave
    \/ OpenSource \/ ReadBlock \/ CloseSource \/ Loaded \/ GiveUp

Spec == Init /\ [][Next]_vars

-----------------------------------------------------------------------------
FileAtHalfOpen(offset) ==
    LET search[low, high \in 0..Len(files)] ==
          LET middle == low + (high - low) \div 2  file == files[middle + 1] IN
          IF low >= high THEN 0
          ELSE IF offset < file.start THEN search[low, middle]
          ELSE IF offset >= file.end THEN search[middle + 1, high]
          ELSE middle + 1
    IN search[0, Len(files)]

(* sol_package_file_at: the index of the file that covers an aggregate       *)
(* offset, 0 if there is none.                                               *)
FileAt(offset) ==
    LET search[low, high \in 0..Len(files)] ==
          LET middle == low + (high - low) \div 2  file == files[middle + 1] IN
          IF low >= high THEN 0
          ELSE IF offset < file.start THEN search[low, middle]
          ELSE IF offset > file.end THEN search[middle + 1, high]
          ELSE middle + 1
    IN search[0, Len(files)]

Path == {<<n>> : n \in Name} \cup (Name \X Name)

(* The text of a loaded file is what the file held at one instant, when it   *)
(* was closed: growth, truncation and in-place edits between two reads fail  *)
(* the load instead of mixing two versions (sol_source_load_expected).       *)
NoTornSource == \A k \in DOMAIN files : files[k].text = truth[k]

(* Files are loaded in path order and no file is loaded twice, whether       *)
(* reached by a hard link, a name that readdir returned again after a rename *)
(* or a directory replaced by a link (sol_package_discover and the identity  *)
(* check of sol_source_load_expected).                                       *)
FilesAreDistinct ==
    /\ InOrder(files)
    /\ IsInjective([k \in DOMAIN files |-> files[k].inode])

(* Paths of source files whose names were left alone since the load began.   *)
SteadyPaths ==
    {p \in Path :
        /\ Last(p) \in SourceName /\ <<Top, p[1]>> \notin touched
        /\ IF Len(p) = 1 THEN names[Top, p[1]] \in File
           ELSE /\ names[Top, p[1]] \in Directory
                /\ <<names[Top, p[1]], p[2]>> \notin touched
                /\ names[names[Top, p[1]], p[2]] \in File}

(* A load that succeeds has missed nothing: every source file whose path was *)
(* left alone is in the package, whatever happened around it, and with it    *)
(* everything when nobody interferes.                                        *)
SteadyFilesAreLoaded ==
    pc = "loaded" => SteadyPaths \subseteq {files[k].path : k \in DOMAIN files}

(* Every offset into the aggregate source, the separators and the ends of    *)
(* files included, belongs to exactly one file, empty files too, and         *)
(* sol_package_file_at finds it.                                             *)
OffsetsLocateFiles ==
    pc = "loaded" /\ files # << >> =>
        \A offset \in 0..Last(files).end :
            {k \in DOMAIN files : files[k].start <= offset /\ offset <= files[k].end}
              = {FileAt(offset)}
=============================================================================
