------------------------------ MODULE DataFile ------------------------------
(***************************************************************************)
(* data_bank::DataFile of hw7 with its Partition and CacheFile: the         *)
(* external sort of a data file into image files, the search in them, and   *)
(* the cache file from which a later process takes the images.              *)
(*                                                                          *)
(* The disk outlives the process, which may end at any point.  Files are    *)
(* sequences of entries, offsets count entries, and entries fill pages      *)
(* evenly.  An entry's value is the place at which the data file has it; a  *)
(* zero entry is what a mapping shows between the end of a file and the end *)
(* of its last page.                                                        *)
(*                                                                          *)
(* A cache file is created only where there is none and nothing removes it, *)
(* so a directory sees one build, and no image file is opened twice for     *)
(* writing.  at() changes no member: the server's workers do not disturb    *)
(* one another in it, and one query at a time is enough.                    *)
(***************************************************************************)
EXTENDS Naturals, Sequences, FiniteSets, SequencesExt

CONSTANTS
  DataKeys,        \* keys in data files
  Queries,         \* keys that are asked for
  MaxEntries,      \* bound: entries of a data file
  PartitionSizes,  \* the constructor's argument, rounded up to whole entries
  Page,            \* entries in a page
  WindowPages,     \* pages in the largest lookup window (10 in the code)
  MaxStarts        \* bound: processes that open the data file, one by one

ASSUME DataFileAssumption ==
  /\ DataKeys \subseteq Nat /\ Queries \subseteq Nat
  /\ MaxEntries \in Nat
  /\ PartitionSizes \subseteq Nat \ {0}
  /\ Page \in Nat \ {0} /\ WindowPages \in Nat \ {0}
  /\ MaxStarts \in Nat

VARIABLES
  data,             \* disk: the data file
  cache,            \* disk: the cache file
  index,            \* disk: the image files, image0.idx first
  partition_size,
  pc,
  starts,
  origin,           \* where m_index_images come from: "built" or "cache"
  temp,             \* partitions_sorted, unlinked and private to the process
  offset,           \* of sort_partitions
  m_partitions,
  m_index_images,
  left_to_write,
  query             \* the at() that runs

disk == <<data, index, partition_size>>
build == <<temp, offset, m_partitions, left_to_write>>
vars == <<disk, cache, pc, starts, origin, build, m_index_images, query>>

Least(a, b) == IF a <= b THEN a ELSE b

(* An entry of a file, the one past its end included. *)
Zero == [key |-> 0, val |-> 0]

(* An image of m_index_images or of the cache: its last key and the number of *)
(* its file.  NoFile is a name under which there is none.                     *)
NoFile == 0

NoQuery == [key |-> 0, file |-> NoFile, begin |-> 0, end |-> 0,
            answer |-> "none", val |-> 0]

Init ==
  /\ \E n \in 0..MaxEntries : \E keys \in [1..n -> DataKeys] :
       data = [i \in 1..n |-> [key |-> keys[i], val |-> i]]
  /\ partition_size \in PartitionSizes
  /\ cache = [state |-> "none", images |-> <<>>]
  /\ index = <<>>
  /\ pc = "off"
  /\ starts = 0
  /\ origin = "built"
  /\ temp = <<>>
  /\ offset = 0
  /\ m_partitions = <<>>
  /\ m_index_images = <<>>
  /\ left_to_write = 0
  /\ query = NoQuery

-----------------------------------------------------------------------------
(* MemMappedFile: len entries are asked for at start; the mapping begins at   *)
(* the page of start, and is as long as the pages that len entries fill.      *)
PageDown(n) == (n \div Page) * Page
PageUp(n) == PageDown(n + Page - 1)

(* Is entry i of that mapping backed by it, and by a page of the file? *)
Readable(file, start, len, i) ==
  /\ start + i < PageDown(start) + PageUp(len)
  /\ start + i < PageUp(Len(file))

EntryAt(file, n) == IF n < Len(file) THEN file[n + 1] ELSE Zero

(* read_from_partition: what a std::map makes of the entries, which keeps the *)
(* first of those that have the same key, in the order of keys.               *)
Sorted(entries) ==
  LET firsts == {entries[i] : i \in {i \in DOMAIN entries :
                                       \A j \in 1..(i - 1) : entries[j].key # entries[i].key}}
      place(e) == Cardinality({d \in firsts : d.key <= e.key})
  IN  [n \in 1..Cardinality(firsts) |-> CHOOSE e \in firsts : place(e) = n]

(* Partition::set_lookup_window, where there is something left to look at. *)
lookup_window_size == Least(partition_size, WindowPages * Page)

SetLookupWindow(p) ==
  LET len == Least(lookup_window_size, p.end - p.offset)
  IN  [p EXCEPT !.start = p.offset, !.len = len, !.it = 0, !.offset = @ + len]

(* A slip: one entry more than the window has. *)
BadMoveIterator(p) ==
  IF p.it < p.len THEN <<[p EXCEPT !.it = @ + 1]>>
  ELSE IF p.offset < p.end THEN <<SetLookupWindow(p)>>
  ELSE <<>>

(* Partition::move_iterator: the partition, or nothing when it is used up. *)
MoveIterator(p) ==
  IF p.it + 1 < p.len THEN <<[p EXCEPT !.it = @ + 1]>>
  ELSE IF p.offset < p.end THEN <<SetLookupWindow(p)>>
  ELSE <<>>

Current(p) == EntryAt(temp, p.start + p.it)

(* A slip: the partitions are read one after another. *)
BadIsCurrentMin(i) == i = 1

(* find_partitions_current_min: the least entry, the first partition. *)
IsCurrentMin(i) ==
  \A j \in DOMAIN m_partitions :
    LET a == Current(m_partitions[i])
        b == Current(m_partitions[j])
    IN  \/ a.key < b.key
        \/ a.key = b.key /\ a.val < b.val
        \/ a = b /\ i <= j

(* A slip: the last image is not read. *)
BadReadIndexImages(images) ==
  LET nothing == [key |-> 0, file |-> NoFile]
  IN  <<nothing>> \o SubSeq(images, 2, Len(images) - 1) \o <<nothing>>

(* CacheFile::read_index_images.  The line with the data file's name is still *)
(* in front of the first image, whose key reads as 0 and whose name denotes   *)
(* no file; after the last `;` one more image is read, of key 0 and no name.  *)
ReadIndexImages(images) ==
  LET nothing == [key |-> 0, file |-> NoFile]
  IN  IF images = <<>> THEN <<nothing>>
      ELSE <<nothing>> \o Tail(images) \o <<nothing>>

(* A slip: an image is passed over when its last key is the one asked for. *)
BadFindIndex(key) ==
  {i \in DOMAIN m_index_images :
     /\ m_index_images[i].key > key
     /\ \A j \in 1..(i - 1) : m_index_images[j].key <= key}

(* find_index: the first image whose last key is not below key, if any. *)
FindIndex(key) ==
  {i \in DOMAIN m_index_images :
     /\ m_index_images[i].key >= key
     /\ \A j \in 1..(i - 1) : m_index_images[j].key < key}

-----------------------------------------------------------------------------
(* The constructor: is_relevant.  An empty cache file cannot be mapped, which *)
(* throws out of main; one that has the name of the data file is believed.    *)
Open ==
  /\ pc = "off"
  /\ starts < MaxStarts
  /\ starts' = starts + 1
  /\ \/ /\ cache.state = "none"
        /\ cache' = [cache EXCEPT !.state = "empty"]
        /\ pc' = "name"
        /\ UNCHANGED <<origin, m_index_images>>
     \/ /\ cache.state = "empty"
        /\ pc' = "failed"
        /\ UNCHANGED <<cache, origin, m_index_images>>
     \/ /\ cache.state = "named"
        /\ m_index_images' = ReadIndexImages(cache.images)
        /\ origin' = "cache"
        /\ pc' = "ready"
        /\ UNCHANGED cache
  /\ UNCHANGED <<disk, build, query>>

WriteFilename ==
  /\ pc = "name"
  /\ cache' = [cache EXCEPT !.state = "named"]
  /\ pc' = "sort"
  /\ UNCHANGED <<disk, starts, origin, build, m_index_images, query>>

(* sort_partitions: one partition is mapped, sorted and written.  The size    *)
(* kept for it is the one it has in the data file.                            *)
SortPartition ==
  /\ pc = "sort"
  /\ offset < Len(data)
  /\ LET len == Least(partition_size, Len(data) - offset)
     IN  \/ /\ \A i \in 0..(len - 1) : Readable(data, offset, len, i)
            /\ temp' = temp \o Sorted(SubSeq(data, offset + 1, offset + len))
            /\ m_partitions' = Append(m_partitions,
                 [offset |-> offset, end |-> offset + len,
                  start |-> 0, len |-> 0, it |-> 0])
            /\ offset' = offset + len
            /\ UNCHANGED pc
         \/ /\ \E i \in 0..(len - 1) : ~Readable(data, offset, len, i)
            /\ pc' = "wild"
            /\ UNCHANGED <<temp, m_partitions, offset>>
  /\ UNCHANGED <<disk, cache, starts, origin, left_to_write, m_index_images, query>>

(* merge_partitions: every partition gets its first window; *)
SetWindows ==
  /\ pc = "sort"
  /\ offset >= Len(data)
  /\ m_partitions' = [i \in DOMAIN m_partitions |-> SetLookupWindow(m_partitions[i])]
  /\ pc' = "index"
  /\ UNCHANGED <<disk, cache, starts, origin, temp, offset, left_to_write,
                 m_index_images, query>>

(* while there are partitions, generate_index begins an image, *)
GenerateIndex ==
  /\ pc = "index"
  /\ m_partitions # <<>>
  /\ index' = Append(index, <<>>)
  /\ m_index_images' = Append(m_index_images, [key |-> 0, file |-> Len(index) + 1])
  /\ left_to_write' = partition_size
  /\ pc' = "merge"
  /\ UNCHANGED <<data, partition_size, cache, starts, origin, temp, offset,
                 m_partitions, query>>

(* the least entry moves from its partition to the image, *)
MergeEntry ==
  /\ pc = "merge"
  /\ m_partitions # <<>>
  /\ left_to_write > 0
  /\ \/ /\ \E p \in ToSet(m_partitions) : ~Readable(temp, p.start, p.len, p.it)
        /\ pc' = "wild"
        /\ UNCHANGED <<index, m_partitions, m_index_images, left_to_write>>
     \/ /\ \A p \in ToSet(m_partitions) : Readable(temp, p.start, p.len, p.it)
        /\ \E i \in DOMAIN m_partitions :
             /\ IsCurrentMin(i)
             /\ LET e == Current(m_partitions[i])
                    n == Len(m_index_images)
                IN  /\ index' = [index EXCEPT ![n] = Append(@, e)]
                    /\ m_index_images' = [m_index_images EXCEPT ![n].key = e.key]
             /\ m_partitions' = SubSeq(m_partitions, 1, i - 1)
                                  \o MoveIterator(m_partitions[i])
                                  \o SubSeq(m_partitions, i + 1, Len(m_partitions))
        /\ left_to_write' = left_to_write - 1
        /\ UNCHANGED pc
  /\ UNCHANGED <<data, partition_size, cache, starts, origin, temp, offset, query>>

(* and append_image puts the image that is full into the cache. *)
AppendImage ==
  /\ pc = "merge"
  /\ m_partitions = <<>> \/ left_to_write = 0
  /\ cache' = [cache EXCEPT !.images = Append(@, Last(m_index_images))]
  /\ pc' = "index"
  /\ UNCHANGED <<disk, starts, origin, build, m_index_images, query>>

Built ==
  /\ pc = "index"
  /\ m_partitions = <<>>
  /\ temp' = <<>>
  /\ pc' = "ready"
  /\ UNCHANGED <<disk, cache, starts, origin, offset, m_partitions, left_to_write,
                 m_index_images, query>>

-----------------------------------------------------------------------------
(* at(key): no image, an image that cannot be opened (the exception leaves    *)
(* the worker and ends the process), or a search in its file.                 *)
At(key) ==
  /\ pc = "ready"
  /\ \/ /\ FindIndex(key) = {}
        /\ query' = [NoQuery EXCEPT !.key = key, !.answer = "missing"]
        /\ pc' = "answer"
     \/ \E i \in FindIndex(key) :
          LET f == m_index_images[i].file
          IN  IF f = NoFile
              THEN pc' = "failed" /\ UNCHANGED query
              ELSE /\ query' = [NoQuery EXCEPT !.key = key, !.file = f,
                                               !.end = Len(index[f])]
                   /\ pc' = "search"
  /\ UNCHANGED <<disk, cache, starts, origin, build, m_index_images>>

(* A slip: the middle is counted from the beginning of the file. *)
BadBinarySearch ==
  /\ pc = "search"
  /\ LET mid == (query.end - query.begin) \div 2
         e   == EntryAt(index[query.file], mid)
     IN  \/ /\ query.begin = query.end
            /\ query' = [query EXCEPT !.answer = "missing"]
            /\ pc' = "answer"
         \/ /\ query.begin # query.end
            /\ \/ query.key < e.key /\ query' = [query EXCEPT !.end = mid] /\ UNCHANGED pc
               \/ query.key > e.key /\ query' = [query EXCEPT !.begin = mid] /\ UNCHANGED pc
               \/ /\ query.key = e.key
                  /\ query' = [query EXCEPT !.answer = "found", !.val = e.val]
                  /\ pc' = "answer"
  /\ UNCHANGED <<disk, cache, starts, origin, build, m_index_images>>

(* binary_search: one round of its loop.  Where key is above the middle the   *)
(* middle stays in the interval.                                              *)
BinarySearch ==
  /\ pc = "search"
  /\ LET mid == query.begin + (query.end - query.begin) \div 2
         e   == EntryAt(index[query.file], mid)
     IN  \/ /\ query.begin = query.end
            /\ query' = [query EXCEPT !.answer = "missing"]
            /\ pc' = "answer"
         \/ /\ query.begin # query.end
            /\ \/ query.key < e.key /\ query' = [query EXCEPT !.end = mid] /\ UNCHANGED pc
               \/ query.key > e.key /\ query' = [query EXCEPT !.begin = mid] /\ UNCHANGED pc
               \/ /\ query.key = e.key
                  /\ query' = [query EXCEPT !.answer = "found", !.val = e.val]
                  /\ pc' = "answer"
  /\ UNCHANGED <<disk, cache, starts, origin, build, m_index_images>>

(* on_request has its answer. *)
Reply ==
  /\ pc = "answer"
  /\ query' = NoQuery
  /\ pc' = "ready"
  /\ UNCHANGED <<disk, cache, starts, origin, build, m_index_images>>

(* The process ends, by an exception, a signal or a kill. *)
Exit ==
  /\ pc # "off"
  /\ pc' = "off"
  /\ origin' = "built"
  /\ temp' = <<>>
  /\ offset' = 0
  /\ m_partitions' = <<>>
  /\ m_index_images' = <<>>
  /\ left_to_write' = 0
  /\ query' = NoQuery
  /\ UNCHANGED <<disk, cache, starts>>

Build ==
  \/ WriteFilename \/ SortPartition \/ SetWindows
  \/ GenerateIndex \/ MergeEntry \/ AppendImage \/ Built

Next ==
  \/ Open
  \/ Build
  \/ \E key \in Queries : At(key)
  \/ BinarySearch
  \/ Reply
  \/ Exit

Spec == Init /\ [][Next]_vars

(* A process that has work goes on with it. *)
FairSpec == Spec /\ WF_vars(Build) /\ WF_vars(BinarySearch)

-----------------------------------------------------------------------------
(* What the library needs of its input: no key twice in one partition, and    *)
(* partitions that fill pages, or pages that partitions fill.                 *)
Distinct ==
  \A i, j \in DOMAIN data :
    (i - 1) \div partition_size = (j - 1) \div partition_size
      => data[i].key # data[j].key \/ i = j
Aligned == Page % partition_size = 0 \/ partition_size % Page = 0

(* Every entry that is read lies inside the mapping it is read through. *)
NoWildRead == Distinct /\ Aligned => pc # "wild"

(* What has been written, image after image, and what the partitions still    *)
(* hold.                                                                      *)
Unread(p) == (p.start + p.it + 1)..(p.start + p.len) \cup (p.offset + 1)..p.end

Written == UNION {ToSet(file) : file \in ToSet(index)}
Rest == UNION {{temp[n] : n \in Unread(p)} : p \in ToSet(m_partitions)}

Ascending ==
  \A i, j \in DOMAIN index : \A k \in DOMAIN index[i], l \in DOMAIN index[j] :
    i < j \/ (i = j /\ k < l)
      => index[i][k].key <= index[j][l].key /\ index[i][k] # index[j][l]

(* The merge loses, invents and repeats nothing, and the images are in order: *)
(* what is written is ascending, ends at the key each image is listed with,   *)
(* and together with what the partitions still hold is the data.              *)
MergeSorts ==
  Distinct /\ Aligned /\ pc \in {"index", "merge"} =>
    /\ Written \cup Rest = ToSet(data)
    /\ Written \cap Rest = {}
    /\ Ascending
    /\ \A a \in Written, b \in Rest : a.key <= b.key
    /\ \A img \in ToSet(m_index_images) :
         index[img.file] # <<>> => img.key = Last(index[img.file]).key

(* A process that has built the images finds the value of every key that is   *)
(* in the data file, and only says that a key is missing when it is.          *)
Has(key) == \E e \in ToSet(data) : e.key = key

Truthful ==
  query.answer = "found" => [key |-> query.key, val |-> query.val] \in ToSet(data)

AnswersRight ==
  Distinct /\ Aligned /\ pc = "answer" /\ origin = "built"
    => Truthful /\ (query.answer = "missing" => ~Has(query.key))

(* The build ended before the cache listed an image for every entry. *)
CutShort ==
  \E e \in ToSet(data) : \A i \in DOMAIN cache.images : e \notin ToSet(index[cache.images[i].file])

(* A process that takes the images from the cache never gives a wrong value.  *)
(* It misses a key of the data file only if the key belongs to the first      *)
(* image, whose line it misreads, or if the build was cut short before it.    *)
AnswersFromCache ==
  Distinct /\ Aligned /\ pc = "answer" /\ origin = "cache"
    => /\ Truthful
       /\ query.answer = "missing" /\ Has(query.key)
            => \/ cache.images = <<>>
               \/ query.key <= Head(cache.images).key
               \/ query.key > Last(cache.images).key /\ CutShort

(* The search ends, except for a key that its image does not have and whose   *)
(* neighbour below it has: there the interval stops shrinking.                *)
HasNeighbourBelow ==
  /\ \A e \in ToSet(index[query.file]) : e.key # query.key
  /\ \E e \in ToSet(index[query.file]) : e.key < query.key

SearchReturns ==
  Distinct /\ Aligned /\ pc = "search" /\ ~HasNeighbourBelow ~> pc # "search"
=============================================================================
