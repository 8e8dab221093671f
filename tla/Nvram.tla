--------------------------------- MODULE Nvram ---------------------------------
(***************************************************************************)
(* The nvram tool of package/utils/nvram: commands that change variables   *)
(* work on a staging file in /tmp, made from the flash partition when      *)
(* there is none, and "commit" copies the staging file back and removes    *)
(* it.  Several commands may run at once: nothing locks the file or the    *)
(* partition.  A step of a command is one system call, or the beginning or *)
(* the end of its work on the mapping, which every process shares: first   *)
(* _nvram_rehash, which puts a NUL over every '=' for a moment, and then   *)
(* nvram_commit, which clears the data area and writes tuple by tuple.     *)
(* What a second process finds or leaves meanwhile is "mixed".             *)
(*                                                                         *)
(* A command line changes at most one variable here (the tool takes        *)
(* several); commands that only read map the file privately and change     *)
(* nothing, so only "get ... commit" appears.  The CRC is left out: the    *)
(* tool writes it and reads it only to print it.                           *)
(***************************************************************************)
EXTENDS Integers, Sequences, FiniteSets, FiniteSetsExt

CONSTANTS Procs, Names, Values, NameLen, ValLen, Canon, Default, Space, Torn,
          Damaged,      \* what a reader finds in a data area that is no image
          Fragments,    \* the tuples it may parse there
          SpecialSeq,   \* the sdram_* names, in the order _nvram_rehash sets them
          HashSize,     \* NVRAM_ARRAYSIZE(nvram_hash)
          Bucket,       \* hash(name) % NVRAM_ARRAYSIZE(nvram_hash)
          Commands,     \* the commands each process runs, one at a time or not
          Flash0        \* images the partition may hold at first

VARIABLES
  flash,        \* the image in the flash partition
  staging,      \* the file /tmp/.nvram names, or NoFile
  content,      \* image in each file, linked or only held open
  proc,         \* per process: pc, op, file, table, buf, and whether another
                \* process has worked on the same file meanwhile
  solo          \* whether the users run one command at a time

vars == <<flash, staging, content, proc, solo>>

NoFile == 0
\* every process may hold a file of its own open while one is linked
Files == 1 .. Cardinality(Procs) + 1

HeaderSize == 20
Buckets == 0 .. HashSize - 1
Specials == Range(SpecialSeq)

ASSUME TextAssumption ==
  /\ NameLen \in [Names -> Nat] /\ ValLen \in [Values -> Nat]
  /\ Canon \in [Values -> Values] /\ Default \in Values
ASSUME TableAssumption ==
  /\ SpecialSeq \in Seq(Names)
  /\ HashSize \in Nat \ {0}
  /\ Bucket \in [Names -> Buckets]
\* nvram_part_size and the offset nvram_open finds are multiples of 4
ASSUME SpaceAssumption == Space \in Nat /\ Space % 4 = 0 /\ HeaderSize + 2 <= Space

-------------------------------------------------------------------------------
(* Hash table: a chain of tuples <<name, value>> in every bucket.          *)

EmptyTable == [b \in Buckets |-> <<>>]

Has(table, n) == \E i \in DOMAIN table[Bucket[n]] : table[Bucket[n]][i][1] = n

\* place of the first tuple of a name in a chain that has one
Find(chain, n) ==
  CHOOSE i \in DOMAIN chain : chain[i][1] = n /\ \A j \in 1 .. i - 1 : chain[j][1] # n

nvram_get(table, n) == LET chain == table[Bucket[n]] IN chain[Find(chain, n)][2]

\* Mutant of nvram_set: the chain is not searched for the name.
nvram_set_push(table, n, v) == [table EXCEPT ![Bucket[n]] = <<<<n, v>>>> \o @]

\* a value longer than the partition is refused; a known name keeps its
\* place in the chain, a new one becomes its head
nvram_set(table, n, v) ==
  IF ValLen[v] + 1 > Space THEN table
  ELSE IF Has(table, n)
    THEN [table EXCEPT ![Bucket[n]] = [@ EXCEPT ![Find(@, n)] = <<n, v>>]]
    ELSE [table EXCEPT ![Bucket[n]] = <<<<n, v>>>> \o @]

RemoveAt(chain, i) == SubSeq(chain, 1, i - 1) \o SubSeq(chain, i + 1, Len(chain))

\* Mutant of nvram_unset: the rest of the chain goes with the tuple.
nvram_unset_rest(table, n) ==
  IF Has(table, n)
    THEN [table EXCEPT ![Bucket[n]] = SubSeq(@, 1, Find(@, n) - 1)]
    ELSE table

nvram_unset(table, n) ==
  IF Has(table, n)
    THEN [table EXCEPT ![Bucket[n]] = RemoveAt(@, Find(@, n))]
    ELSE table

-------------------------------------------------------------------------------
(* Images: the tuples in the order they are stored, the sdram values of    *)
(* the header, and its length field.  "empty" is a file without bytes,     *)
(* "torn" one without a header; behind its header, "mixed" has what two    *)
(* processes wrote, or one so far, and "cut" what a power loss left.       *)

Images == [state : {"ok", "mixed", "cut", "empty", "torn"}, data : Seq(Names \X Values),
           hdr : [Specials -> Values], len : Nat]

Blank(state) == [state |-> state, data |-> <<>>,
                 hdr |-> [n \in Specials |-> Default], len |-> 0]

\* an image whose data area is not one
Spoilt(image, state) == [image EXCEPT !.state = state, !.data = <<>>]

\* what may be parsed in the data area
Parsed(image) == IF image.state = "ok" THEN {image.data} ELSE Fragments

\* tuples in file order, then the specials the file has no tuple for
nvram_rehash(image, data) ==
  LET stored == Len(data)
      all == data \o [i \in DOMAIN SpecialSeq |-> <<SpecialSeq[i], image.hdr[SpecialSeq[i]]>>]
      after[k \in 0 .. Len(all)] ==
        IF k = 0 THEN EmptyTable
        ELSE IF k > stored /\ Has(after[k - 1], all[k][1]) THEN after[k - 1]
        ELSE nvram_set(after[k - 1], all[k][1], all[k][2])
  IN after[Len(all)]

\* the table's specials if it has them all, else defaults for all of them
Header(table) ==
  IF \A n \in Specials : Has(table, n)
    THEN [n \in Specials |-> Canon[nvram_get(table, n)]]
    ELSE [n \in Specials |-> Default]

\* "name=value\0"
Cost(t) == NameLen[t[1]] + 1 + ValLen[t[2]] + 1

\* a tuple that does not fit ends the chain it is in
Put(out, t) ==
  IF out.open /\ out.ptr + Cost(t) <= Space - 2
    THEN [out EXCEPT !.ptr = @ + Cost(t), !.data = Append(@, t)]
    ELSE [out EXCEPT !.open = FALSE]

WriteChain(out, chain) ==
  LET after[k \in 0 .. Len(chain)] ==
        IF k = 0 THEN [out EXCEPT !.open = TRUE] ELSE Put(after[k - 1], chain[k])
  IN after[Len(chain)]

\* chain by chain; the next chain is tried after one that did not fit
WriteTuples(table) ==
  LET after[b \in 0 .. HashSize] ==
        IF b = 0 THEN [ptr |-> HeaderSize, data |-> <<>>, open |-> TRUE]
                 ELSE WriteChain(after[b - 1], table[b - 1])
  IN after[HashSize]

\* the image nvram_commit writes: NVRAM_ROUNDUP of data and a double NUL
Image(table) ==
  LET out == WriteTuples(table)
  IN [state |-> "ok", data |-> out.data, hdr |-> Header(table),
      len |-> ((out.ptr + 2 + 3) \div 4) * 4]

-------------------------------------------------------------------------------
(* Commands.  argv[1] decides between reading and writing.                 *)

Ops == [kind : {"set"}, name : Names, value : Values, commit : BOOLEAN]
       \cup [kind : {"unset"}, name : Names, commit : BOOLEAN]
       \cup {[kind |-> "commit", commit |-> TRUE], [kind |-> "get", commit |-> TRUE]}

\* one tuple for a name, and not longer than the partition
Sound(image) ==
  /\ \A i, j \in DOMAIN image.data : image.data[i][1] = image.data[j][1] => i = j
  /\ image.len <= Space

ASSUME FragmentsAssumption == Fragments \subseteq Seq(Names \X Values)
ASSUME CommandsAssumption ==
  /\ IsFiniteSet(Procs)
  /\ Commands \in [BOOLEAN -> [Procs -> SUBSET Ops]]
ASSUME FlashAssumption ==
  \A image \in Flash0 : image \in Images /\ image.state = "ok" /\ Sound(image)

Idle == [pc |-> "idle", op |-> [kind |-> "get", commit |-> TRUE], file |-> NoFile,
         table |-> EmptyTable, buf |-> Blank("empty"), clash |-> FALSE]

Init ==
  /\ flash \in Flash0
  /\ staging = NoFile
  /\ content = [f \in Files |-> Blank("empty")]
  /\ proc = [p \in Procs |-> Idle]
  /\ solo \in BOOLEAN

\* the process ends; its files are closed and a file without a name is gone
Exit(p) == proc' = [proc EXCEPT ![p] = Idle]

\* main and nvram_find_staging; "get" reads the staging file or the flash and
\* then only has its commit to do
Start(p, op) ==
  /\ proc[p].pc = "idle"
  /\ solo => \A q \in Procs : proc[q].pc = "idle"
  /\ proc' = [proc EXCEPT ![p].op = op,
                ![p].pc = CASE op.kind = "get" -> "save"
                            [] op.kind # "get" /\ staging = NoFile -> "load"
                            [] OTHER -> "open"]
  /\ op.kind = "get" =>
       LET image == IF staging = NoFile THEN flash ELSE content[staging]
       IN image.state \in {"ok", "mixed", "cut"}
  /\ UNCHANGED <<flash, staging, content, solo>>

\* nvram_to_staging: read the partition
Load(p) ==
  /\ proc[p].pc = "load"
  /\ proc' = [proc EXCEPT ![p].pc = "create", ![p].buf = flash]
  /\ UNCHANGED <<flash, staging, content, solo>>

\* open with O_CREAT and without O_TRUNC: a file made meanwhile is kept
Create(p) ==
  /\ proc[p].pc = "create"
  /\ IF staging # NoFile
       THEN /\ proc' = [proc EXCEPT ![p].pc = "fill", ![p].file = staging]
            /\ UNCHANGED <<staging, content>>
       ELSE LET f == Min(Files \ {proc[q].file : q \in Procs})
            IN /\ proc' = [proc EXCEPT ![p].pc = "fill", ![p].file = f]
               /\ staging' = f
               /\ content' = [content EXCEPT ![f] = Blank("empty")]
  /\ UNCHANGED <<flash, solo>>

\* Mutant of Fill: the file is created and not written.
FillNone(p) ==
  /\ proc[p].pc = "fill"
  /\ proc' = [proc EXCEPT ![p].pc = "open", ![p].file = NoFile, ![p].buf = Blank("empty")]
  /\ UNCHANGED <<flash, staging, content, solo>>

\* the processes at work on the mapping of a file
AtWork(f) == {q \in Procs : proc[q].pc \in {"hash", "write"} /\ proc[q].file = f}

\* what a process finds in a file, and what is there when it has written image:
\* others at work on the mapping may spoil either
Found(p, f) ==
  {content[f]} \cup {Spoilt(content[f], "mixed") : q \in AtWork(f) \ {p}}

\* p begins to work on a file, or writes it, as step says; that is a clash with
\* whoever is at work on it
Enter(p, f, step) ==
  proc' = [q \in Procs |->
             IF q = p THEN [step EXCEPT !.clash = AtWork(f) \ {p} # {}]
             ELSE [proc[q] EXCEPT !.clash = @ \/ q \in AtWork(f)]]

\* write the whole image
Fill(p) ==
  /\ proc[p].pc = "fill"
  /\ LET f == proc[p].file
     IN /\ \E image \in {proc[p].buf} \cup {Spoilt(proc[p].buf, "mixed") : q \in AtWork(f)} :
             content' = [content EXCEPT ![f] = image]
        /\ Enter(p, f, [proc[p] EXCEPT !.pc = "open", !.file = NoFile, !.buf = Blank("empty")])
  /\ UNCHANGED <<flash, staging, solo>>

\* nvram_open for writing: magic found, and a length below the space; the CRC
\* is not looked at
Opens(image) == image.state \in {"ok", "mixed", "cut"} /\ image.len < Space

\* the file is mapped; one without bytes kills the process (SIGBUS)
Open(p) ==
  /\ proc[p].pc = "open"
  /\ IF staging # NoFile /\ Opens(content[staging])
       THEN Enter(p, staging, [proc[p] EXCEPT !.pc = "hash", !.file = staging])
       ELSE Exit(p)
  /\ UNCHANGED <<flash, staging, content, solo>>

\* _nvram_rehash has read the mapping.  In a data area that is not an image it
\* may find anything, or run past the end of the mapping and die; after a clash
\* it may also put a '=' where there was none.
Rehash(p) ==
  /\ proc[p].pc = "hash"
  /\ LET f == proc[p].file
         clashes == {proc[p].clash} \ {FALSE}
     IN \E image \in {content[f]} \cup {Spoilt(content[f], "mixed") : c \in clashes} :
          /\ content' = [content EXCEPT ![f] = image]
          /\ \/ \E data \in Parsed(content[f]) \cup (IF clashes = {} THEN {} ELSE Fragments) :
                  proc' = [proc EXCEPT ![p].pc = "clear", ![p].clash = FALSE,
                                       ![p].table = nvram_rehash(image, data)]
             \/ (content[f].state # "ok" \/ proc[p].clash) /\ Exit(p)
  /\ UNCHANGED <<flash, staging, solo>>

\* do_set and do_unset
Apply(table, op) ==
  CASE op.kind = "set" -> nvram_set(table, op.name, op.value)
    [] op.kind = "unset" -> nvram_unset(table, op.name)
    [] OTHER -> table

\* Mutant of Clear: staging_to_nvram comes before the data is written.
ClearSave(p) ==
  /\ proc[p].pc = "clear"
  /\ LET f == proc[p].file
         table == Apply(proc[p].table, proc[p].op)
     IN /\ content' = [content EXCEPT ![f] = [Spoilt(@, "mixed") EXCEPT !.hdr = Header(table)]]
        /\ Enter(p, f, [proc[p] EXCEPT !.pc = IF proc[p].op.commit THEN "save" ELSE "write",
                                       !.table = table])
  /\ UNCHANGED <<flash, staging, solo>>

\* do_set or do_unset in the table of the process; nvram_commit writes the
\* header but its length, clears the data area and begins to write tuples
Clear(p) ==
  /\ proc[p].pc = "clear"
  /\ LET f == proc[p].file
         table == Apply(proc[p].table, proc[p].op)
     IN /\ content' = [content EXCEPT ![f] = [Spoilt(@, "mixed") EXCEPT !.hdr = Header(table)]]
        /\ Enter(p, f, [proc[p] EXCEPT !.pc = "write", !.table = table])
  /\ UNCHANGED <<flash, staging, solo>>

\* nvram_commit has written tuples and length and rehashed them; nvram_close.
\* After a clash the data area may be anything, and the header another's.
Write(p) ==
  /\ proc[p].pc = "write"
  /\ LET image == [Image(proc[p].table) EXCEPT !.hdr = content[proc[p].file].hdr]
     IN \E written \in {image} \cup {Spoilt(image, "mixed") : c \in {proc[p].clash} \ {FALSE}} :
          content' = [content EXCEPT ![proc[p].file] = written]
  /\ IF proc[p].op.commit
       THEN proc' = [proc EXCEPT ![p].pc = "save", ![p].file = NoFile,
                                 ![p].table = EmptyTable, ![p].clash = FALSE]
       ELSE Exit(p)
  /\ UNCHANGED <<flash, staging, solo>>

\* staging_to_nvram: read the staging file, which must have its full size
SaveRead(p) ==
  /\ proc[p].pc = "save"
  /\ IF staging # NoFile /\ content[staging].state # "empty"
       THEN \E image \in Found(p, staging) :
              proc' = [proc EXCEPT ![p].pc = "flash", ![p].buf = image]
       ELSE Exit(p)
  /\ UNCHANGED <<flash, staging, content, solo>>

\* write(fdmtd) of the whole image has come back; see PowerLoss for before
SaveWrite(p) ==
  /\ proc[p].pc = "flash"
  /\ flash' = proc[p].buf
  /\ proc' = [proc EXCEPT ![p].pc = "unlink", ![p].buf = Blank("empty")]
  /\ UNCHANGED <<staging, content, solo>>

\* removes whatever file has the name by now; its bytes stay for a process
\* that has it mapped or open
Unlink(p) ==
  /\ proc[p].pc = "unlink"
  /\ staging' = NoFile
  /\ content' = [f \in Files |-> IF \E q \in Procs : proc[q].file = f
                                   THEN content[f] ELSE Blank("empty")]
  /\ Exit(p)
  /\ UNCHANGED <<flash, solo>>

\* all processes and /tmp are gone; a write to the flash under way may have
\* completed, not begun, or left the partition without a header, or with the
\* header and a part of the data
PowerLoss ==
  /\ flash' \in {flash} \cup UNION {{proc[p].buf, Blank("torn"), Spoilt(proc[p].buf, "cut")} :
                                    p \in {q \in Procs : proc[q].pc = "flash"}}
  /\ staging' = NoFile
  /\ content' = [f \in Files |-> Blank("empty")]
  /\ proc' = [p \in Procs |-> Idle]
  /\ UNCHANGED solo

Step(p) ==
  \/ Load(p) \/ Create(p) \/ Fill(p) \/ Open(p) \/ Rehash(p)
  \/ Clear(p) \/ Write(p) \/ SaveRead(p) \/ SaveWrite(p) \/ Unlink(p)

Run == \E p \in Procs : (\E op \in Commands[solo][p] : Start(p, op)) \/ Step(p)

Next == Run \/ PowerLoss

Spec == Init /\ [][Next]_vars

-------------------------------------------------------------------------------
(* Properties                                                              *)

\* The variables have their types; the header nvram_commit writes always holds
\* a value for every special.
TypeOK ==
  /\ flash \in Images
  /\ staging \in Files \cup {NoFile}
  /\ content \in [Files -> Images]
  /\ proc \in [Procs -> [pc : {"idle", "load", "create", "fill", "open", "hash",
                               "clear", "write", "save", "flash", "unlink"},
                         op : Ops, file : Files \cup {NoFile},
                         table : [Buckets -> Seq(Names \X Values)], buf : Images,
                         clash : BOOLEAN]]
  /\ solo \in BOOLEAN

\* An image has one tuple for a name, and is not longer than the partition
\* with its double NUL, also when the tool made it from a damaged one or from
\* what it read while another command wrote: nvram_set finds the tuple of a
\* known name (nvram.c:184) and nvram_commit stops in time (nvram.c:297-303).
ImagesSound ==
  \A image \in {flash} \cup Range(content) : image.state = "ok" => Sound(image)

\* A name is in its own chain, and there once.
ChainSound(b, chain) ==
  /\ \A i \in DOMAIN chain : Bucket[chain[i][1]] = b
  /\ \A i, j \in DOMAIN chain : chain[i][1] = chain[j][1] => i = j

TableSound(table) == \A b \in Buckets : ChainSound(b, table[b])

\* A data area that is no image counts as an empty one here; what the processes
\* have in their hands is sound as well.
SoundInv ==
  /\ \A image \in {flash} \cup Range(content) : Sound(image)
  /\ \A p \in Procs : TableSound(proc[p].table) /\ Sound(proc[p].buf)

\* What a reader of the image finds: its tuples, the last one of a name, and
\* the header's specials.
Reading(image) ==
  LET of(n) == {i \in DOMAIN image.data : image.data[i][1] = n}
  IN CASE image.state = "torn" -> Torn
       [] image.state \in {"mixed", "cut"} -> Damaged
       [] OTHER -> [n \in Specials \cup {t[1] : t \in Range(image.data)} |->
                      IF of(n) = {} THEN image.hdr[n] ELSE image.data[Max(of(n))][2]]

\* While a command is between memset and the tuples, what it is about to write.
Visible ==
  LET writers == {p \in Procs : proc[p].pc = "write" /\ proc[p].file = staging}
  IN CASE staging = NoFile \/ content[staging].state = "empty" -> Reading(flash)
       [] staging # NoFile /\ writers # {} ->
            Reading(Image(proc[CHOOSE p \in writers : TRUE].table))
       [] OTHER -> Reading(content[staging])

Abstract == INSTANCE NvramStore
  WITH visible <- IF solo THEN Visible ELSE <<>>,
       durable <- IF solo THEN Reading(flash) ELSE <<>>,
       saving <- solo /\ \E p \in Procs : proc[p].pc = "flash"

\* With one command at a time, and power losses at any moment, the staging
\* file and the partition together are the store of module NvramStore: a
\* command changes its own variable at once and no other unless not all of
\* them fit, a commit makes exactly that durable, and only a power loss during
\* write(fdmtd) (nvram.c:531) can leave the partition without an image, or with
\* a damaged one, which the next command takes for an image (nvram.c:378, 403).
IsStore == Abstract!StoreSpec

\* Commands that never overlap leave an image behind in the staging file and
\* in the partition, or what a power loss left.  What only an overlap can do is
\* catch the data area between memset and the last tuple (nvram.c:293-306), or
\* with a NUL over a '=' (nvram.c:114), and write to it or copy that to the
\* partition.
WholeIfSolo ==
  solo /\ (\A p \in Procs : proc[p].pc = "idle") =>
     /\ flash.state # "mixed"
     /\ staging # NoFile => content[staging].state # "mixed"

\* However commands overlap, none leaves an empty staging file, on which every
\* later command would die: whoever creates the file fills it (nvram.c:496-498)
\* even when another process has used or removed it meanwhile.
NoEmptyStaging ==
  (\A p \in Procs : proc[p].pc = "idle") /\ staging # NoFile =>
     content[staging].state # "empty"

\* A process holds a file while it fills or changes it; an empty staging file
\* has a process that is going to fill it, and that with something.
FileInv ==
  /\ flash.state # "empty"
  /\ \A p \in Procs :
       /\ proc[p].pc \in {"fill", "hash", "clear", "write"} <=> proc[p].file # NoFile
       /\ proc[p].pc \in {"create", "fill", "flash"} => proc[p].buf.state # "empty"
  /\ staging # NoFile /\ content[staging].state = "empty" =>
       \E p \in Procs : proc[p].pc = "fill" /\ proc[p].file = staging

Whole(image) == image.state \in {"ok", "torn", "cut"}

\* Where one command is on its way, when there is no other.
SoloInv ==
  solo =>
    /\ Whole(flash)
    /\ \A p, q \in Procs : proc[p].pc # "idle" /\ proc[q].pc # "idle" => p = q
    /\ \A p \in Procs :
         /\ proc[p].pc \in {"load", "create"} => staging = NoFile
         /\ proc[p].pc \in {"create", "fill", "flash"} => Whole(proc[p].buf)
         /\ proc[p].pc \in {"fill", "hash", "clear", "write"} => proc[p].file = staging
         /\ ~proc[p].clash
    /\ \/ staging = NoFile
       \/ \E p \in Procs : proc[p].pc \in {"fill", "write"}
       \/ Whole(content[staging])
===============================================================================
