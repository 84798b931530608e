------------------------------ MODULE ImgfsCmd ------------------------------
(***************************************************************************)
(* imgfscmd: main and the do_*_cmd functions (imgfscmd.c,                  *)
(* imgfscmd_functions.c), with the conversions of util.c they make, over   *)
(* the library of ImgStore, one process after another on one image file.   *)
(*                                                                         *)
(* A command line is the sequence argv + 1 of main.  An argument that is   *)
(* read as a number stands for the text of it; Numeral says which texts    *)
(* are decimal numbers, and which.  The integer widths are scaled, as the  *)
(* limits and the default values are.  A file of which the options make    *)
(* another size than MaxFiles is another file: it is created and left.     *)
(*                                                                         *)
(* Left out: names that are empty or longer than MAX_IMG_ID (Ids are       *)
(* neither), files of more than UINT32_MAX bytes, and the kill of the      *)
(* process, which ImgStore has.                                            *)
(***************************************************************************)
EXTENDS ImgStore

CONSTANTS
    Lines,          \* the command lines given
    FirstLines,     \* bound of the model: given only while there is no file
    Numeral,        \* the number a text is, for the texts that are numbers
    Images,         \* the content of each image file that exists, by its path
    LongNames,      \* names longer than MAX_IMG_ID
    UINT16_MAX, UINTMAX,
    default_max_files, default_thumb_res, default_small_res,
    MAX_THUMB_RES, MAX_SMALL_RES

ASSUME WidthsAssumption ==
    /\ UINT16_MAX \in Nat /\ UINTMAX \in Nat
    /\ UINT16_MAX <= UINTMAX /\ UINT32_MAX <= UINTMAX
    /\ \A s \in DOMAIN Numeral : Numeral[s] \in Int
OptionNames == {"-max_files", "-thumb_res", "-small_res"}
ASSUME OptionsAssumption == OptionNames \cap DOMAIN Numeral = {}
ASSUME LinesAssumption ==
    /\ LongNames \cap Ids = {} /\ "" \notin Ids
    /\ \A path \in DOMAIN Images : Images[path] \in Contents \cup BadContents
    /\ Res \subseteq Requested
    /\ \A l \in Lines \cup FirstLines :
          Len(l) \in Nat /\ (l # <<>> =>
             /\ l[1] \in {"insert", "read"} /\ Len(l) > 3 => l[3] \in Ids
             /\ l[1] = "read" /\ Len(l) = 3 => l[3] \in Ids
             /\ l[1] = "delete" /\ Len(l) >= 3 => l[3] \in Ids \cup LongNames \cup {""})
ASSUME DefaultsAssumption ==
    /\ default_max_files \in 1 .. UINT32_MAX
    /\ default_thumb_res \in 1 .. MAX_THUMB_RES
    /\ default_small_res \in 1 .. MAX_SMALL_RES

VARIABLES
    stage,      \* where the command is
    line,       \* its command line
    at,         \* the argument the option loop has come to
    opts,       \* the header that do_create_cmd fills
    before,     \* the images stored when it started (for the properties)
    extracted,  \* the image file that do_read_cmd wrote: its name and bytes
    code        \* what main returns

parse == <<line, at, opts>>
outcome == <<extracted, code>>
cmdVars == <<stage, parse, before, outcome>>

-----------------------------------------------------------------------------
(* Conversions.                                                            *)

\* strtoumax: a number beyond UINTMAX is out of range whatever its sign, a
\* negative one within it wraps.
StrToUmax(s) ==
    LET v == Numeral[s]
    IN IF v >= 0 THEN v ELSE UINTMAX + 1 + v
OutOfRange(s) == Numeral[s] > UINTMAX \/ Numeral[s] < - UINTMAX

\* atouint16 and atouint32: 0 for what is not a number they can hold.
Atouint(max, s) ==
    IF s \notin DOMAIN Numeral THEN 0
    ELSE IF OutOfRange(s) \/ StrToUmax(s) > max THEN 0
    ELSE StrToUmax(s)
Atouint16(s) == Atouint(UINT16_MAX, s)
Atouint32(s) == Atouint(UINT32_MAX, s)

\* resolution_atoi: no resolution, -1 in the code, when there is no such name.
Resolutions(s) ==
    CASE s \in {"thumb", "thumbnail"} -> {THUMB_RES}
      [] s = "small" -> {SMALL_RES}
      [] s \in {"orig", "original"} -> {ORIG_RES}
      [] OTHER -> {}

\* create_name.
FileNameSwapped(id, res) ==                                       \* mutant
    <<id, CASE res = THUMB_RES -> "_small"
            [] res = SMALL_RES -> "_thumbnail"
            [] OTHER -> "_orig">>
FileName(id, res) ==
    <<id, CASE res = THUMB_RES -> "_thumbnail"
            [] res = SMALL_RES -> "_small"
            [] OTHER -> "_orig">>

-----------------------------------------------------------------------------
(* The command line.                                                       *)

NoOpts == [max_files |-> default_max_files,
           thumb |-> <<default_thumb_res, default_thumb_res>>,
           small |-> <<default_small_res, default_small_res>>]
NoFile == [name |-> <<>>, image |-> Torn]

CmdInit ==
    /\ Init
    /\ stage = "idle"
    /\ line = <<>>
    /\ at = 0
    /\ opts = NoOpts
    /\ before = [id \in Ids |-> StoredImage(id)]
    /\ extracted = NoFile
    /\ code = "none"

Is(command) == stage # "idle" /\ line # <<>> /\ line[1] = command
Argc(l) == Len(l) - 1
Arg(n) == line[n + 1]

Stop(c) == stage' = "exit" /\ code' = c
Proceed(to) == stage' = to /\ UNCHANGED code

\* The early returns of the do_*_cmd functions, before the file is opened.
ListArguments(l) ==
    \/ Argc(l) < 1 /\ Stop("ERR_INVALID_ARGUMENT")
    \/ Argc(l) > 1 /\ Stop("ERR_INVALID_COMMAND")
    \/ Argc(l) = 1 /\ Proceed("open")
CreateArguments(l) ==
    \/ Argc(l) < 1 /\ Stop("ERR_NOT_ENOUGH_ARGUMENTS")
    \/ Argc(l) >= 1 /\ Proceed("options")
DeleteArguments(l) ==
    \/ Argc(l) < 2 /\ Stop("ERR_NOT_ENOUGH_ARGUMENTS")
    \/ Argc(l) >= 2 /\ l[3] \in LongNames \cup {""} /\ Stop("ERR_INVALID_IMGID")
    \/ Argc(l) >= 2 /\ l[3] \notin LongNames \cup {""} /\ Proceed("open")
ReadResolutions(l) == IF Argc(l) = 3 THEN Resolutions(l[4]) ELSE {ORIG_RES}
ReadArguments(l) ==
    \/ Argc(l) \notin {2, 3} /\ Stop("ERR_NOT_ENOUGH_ARGUMENTS")
    \/ Argc(l) \in {2, 3} /\ ReadResolutions(l) = {} /\ Stop("ERR_RESOLUTIONS")
    \/ Argc(l) \in {2, 3} /\ ReadResolutions(l) # {} /\ Proceed("open")
InsertArguments(l) ==
    \/ Argc(l) # 3 /\ Stop("ERR_NOT_ENOUGH_ARGUMENTS")
    \/ Argc(l) = 3 /\ Proceed("open")

Commands == {"help", "list", "create", "delete", "insert", "read"}

\* Bound of the model: no command is given that would need one blob too many.
WithinBound(l) ==
    /\ l # <<>> /\ l[1] = "insert" => Room
    /\ l # <<>> /\ l[1] = "read" /\ Argc(l) = 3 =>
          Room \/ Resolutions(l[4]) \subseteq {ORIG_RES}

\* main.
Main(l) ==
    /\ stage = "idle"
    /\ WithinBound(l)
    /\ line' = l
    /\ at' = 3
    /\ before' = [id \in Ids |-> StoredImage(id)]
    /\ \/ l = <<>> /\ Stop("ERR_NOT_ENOUGH_ARGUMENTS")
       \/ l # <<>> /\ l[1] \notin Commands /\ Stop("ERR_INVALID_COMMAND")
       \/ l # <<>> /\ l[1] = "help" /\ Stop("ERR_NONE")
       \/ l # <<>> /\ l[1] = "list" /\ ListArguments(l)
       \/ l # <<>> /\ l[1] = "create" /\ CreateArguments(l)
       \/ l # <<>> /\ l[1] = "delete" /\ DeleteArguments(l)
       \/ l # <<>> /\ l[1] = "insert" /\ InsertArguments(l)
       \/ l # <<>> /\ l[1] = "read" /\ ReadArguments(l)
    /\ UNCHANGED <<vars, opts, extracted>>

-----------------------------------------------------------------------------
(* do_create_cmd.                                                          *)

\* One turn of its loop: an option with its n values, checked and taken.
Left == Len(line) - at + 1
TakeOption(option, n, valid, error, taken) ==
    /\ stage = "options" /\ Left > 0
    /\ line[at] = option
    /\ \/ Left < n + 1 /\ Stop("ERR_NOT_ENOUGH_ARGUMENTS") /\ UNCHANGED <<at, opts>>
       \/ Left >= n + 1 /\ ~ valid /\ Stop(error) /\ UNCHANGED <<at, opts>>
       \/ /\ Left >= n + 1 /\ valid
          /\ opts' = taken
          /\ at' = at + n + 1
          /\ UNCHANGED <<stage, code>>
    /\ UNCHANGED <<vars, line, before, extracted>>

ValueAfter(i) == line[at + i]
AtMost(limit, s) == Atouint16(s) <= limit                         \* mutant
Within(limit, s) == Atouint16(s) \in 1 .. limit
PairReversed == <<Atouint16(ValueAfter(2)), Atouint16(ValueAfter(1))>> \* mutant
PairAfter == <<Atouint16(ValueAfter(1)), Atouint16(ValueAfter(2))>>

MaxFilesOption ==
    TakeOption("-max_files", 1,
        Atouint32(ValueAfter(1)) # 0, "ERR_MAX_FILES",
        [opts EXCEPT !.max_files = Atouint32(ValueAfter(1))])
ThumbOption ==
    TakeOption("-thumb_res", 2,
        \A i \in 1 .. 2 : Within(MAX_THUMB_RES, ValueAfter(i)), "ERR_RESOLUTIONS",
        [opts EXCEPT !.thumb = PairAfter])
SmallOption ==
    TakeOption("-small_res", 2,
        \A i \in 1 .. 2 : Within(MAX_SMALL_RES, ValueAfter(i)), "ERR_RESOLUTIONS",
        [opts EXCEPT !.small = PairAfter])
UnknownOption ==
    /\ stage = "options" /\ Left > 0
    /\ line[at] \notin OptionNames
    /\ Stop("ERR_INVALID_ARGUMENT")
    /\ UNCHANGED <<vars, parse, before, extracted>>

Options == MaxFilesOption \/ ThumbOption \/ SmallOption \/ UnknownOption

\* do_create, then do_close in Close.
CreateCall ==
    /\ stage = "options" /\ Left = 0
    /\ IF opts.max_files = MaxFiles
       THEN DoCreate /\ Proceed("call")
       ELSE UNCHANGED vars /\ Stop("ERR_NONE")    \* another file
    /\ UNCHANGED <<parse, before, extracted>>

-----------------------------------------------------------------------------
(* The commands on an existing file.                                       *)

\* mutant: a list opens with "wb", which empties the file
OpenTruncates ==
    /\ stage = "open"
    /\ IF Is("list")
       THEN /\ dHeader' = EmptyHeader /\ dMeta' = EmptyTable /\ UNCHANGED <<formatted, blobs>>
            /\ UNCHANGED <<memory, pend, pc, op, ret, served>>
            /\ Stop("ERR_IO")
       ELSE DoOpen /\ IF pc' = "ready" THEN Proceed("call") ELSE Stop(ret'.code)
    /\ UNCHANGED <<parse, before, extracted>>
Open ==
    /\ stage = "open"
    /\ DoOpen
    /\ IF pc' = "ready" THEN Proceed("call") ELSE Stop(ret'.code)
    /\ UNCHANGED <<parse, before, extracted>>

\* do_insert_cmd closes the file when read_disk_image fails: there is no such
\* file, or it is empty, or it is there and fopen, fseek, ftell, calloc or fread
\* fails.
ReadImageFails ==
    /\ stage = "call" /\ pc = "ready"
    /\ Is("insert")
    /\ DoClose
    /\ \/ Arg(3) \notin DOMAIN Images /\ Stop("ERR_IO")
       \/ Faults /\ \E err \in {"ERR_IO", "ERR_OUT_OF_MEMORY"} : Stop(err)
    /\ UNCHANGED <<parse, before, extracted>>

Call ==
    /\ stage = "call" /\ pc = "ready"
    /\ \/ Is("list") /\ DoList
       \/ Is("delete") /\ DoDelete(Arg(2))
       \/ Is("insert") /\ Arg(3) \in DOMAIN Images /\ DoInsert(Arg(2), Images[Arg(3)])
       \/ Is("read") /\ \E res \in ReadResolutions(line) : DoRead(Arg(2), res)
    /\ UNCHANGED cmdVars

\* The rest of the library call.
InCall ==
    /\ stage = "call"
    /\ \/ InsertBlob \/ InsertHeader \/ InsertMeta
       \/ DeleteMeta \/ DeleteHeader
       \/ ResizeBlob \/ ResizeMeta \/ ReadData
    /\ UNCHANGED cmdVars

Returned ==
    IF Is("read") /\ ret.code = "ERR_NONE" THEN Proceed("extract") ELSE Stop(ret.code)
CloseForgotten ==                                                 \* mutant
    /\ stage = "call" /\ pc = "done"
    /\ Forget /\ UNCHANGED <<disk, ret, served>>
    /\ Returned
    /\ UNCHANGED <<parse, before, extracted>>
Close ==
    /\ stage = "call" /\ pc = "done"
    /\ DoClose
    /\ Returned
    /\ UNCHANGED <<parse, before, extracted>>

\* create_name and write_disk_image; the result of its fclose is ignored, so
\* that the file may be short and the command succeed.
Extract ==
    /\ stage = "extract"
    /\ \E res \in ReadResolutions(line) :
          \/ /\ extracted' = [name |-> FileName(Arg(2), res), image |-> served.image]
             /\ Stop("ERR_NONE")
          \/ /\ extracted' = [name |-> FileName(Arg(2), res), image |-> Torn]
             /\ \E c \in {"ERR_IO", "ERR_NONE"} : Stop(c)
          \/ /\ \E c \in {"ERR_OUT_OF_MEMORY", "ERR_IO"} : Stop(c)
             /\ UNCHANGED extracted
    /\ UNCHANGED <<vars, parse, before>>

\* main returns, and the next command may be given.
MainReturns ==
    /\ stage = "exit"
    /\ stage' = "idle"
    /\ line' = <<>> /\ at' = 0
    /\ opts' = NoOpts
    /\ before' = [id \in Ids |-> NoContent]
    /\ extracted' = NoFile
    /\ code' = "none"
    /\ UNCHANGED vars

CmdNext ==
    \/ \E l \in Lines : Main(l)
    \/ ~ formatted /\ \E l \in FirstLines : Main(l)
    \/ Options \/ CreateCall
    \/ Open \/ ReadImageFails \/ Call \/ InCall \/ Close
    \/ Extract \/ MainReturns

CmdSpec == CmdInit /\ [][CmdNext]_<<vars, cmdVars>>

-----------------------------------------------------------------------------
(* Properties.                                                             *)

\* The type invariant of the command's own state.
CmdTypeOK ==
    /\ stage \in {"idle", "options", "open", "call", "extract", "exit"}
    /\ line \in Lines \cup FirstLines \cup {<<>>}
    /\ at \in 0 .. Len(line) + 3
    /\ opts \in [max_files : 1 .. UINT32_MAX,
                thumb : (1 .. MAX_THUMB_RES) \X (1 .. MAX_THUMB_RES),
                small : (1 .. MAX_SMALL_RES) \X (1 .. MAX_SMALL_RES)]
    /\ before \in [Ids -> Contents \cup {NoContent}]
    /\ extracted.image \in Blob

\* What is written after the last occurrence of option before argument k; the
\* file may be named like an option.
LastOf(option, k) == {i \in 3 .. k - 1 : line[i] = option
                         /\ \A j \in 3 .. k - 1 : j > i => line[j] # option}
AskedBefore(k) ==
    [max_files |-> IF LastOf("-max_files", k) = {} THEN NoOpts.max_files
                   ELSE LET i == Max(LastOf("-max_files", k)) IN Atouint32(line[i + 1]),
     thumb |-> IF LastOf("-thumb_res", k) = {} THEN NoOpts.thumb
               ELSE LET i == Max(LastOf("-thumb_res", k))
                    IN <<Atouint16(line[i + 1]), Atouint16(line[i + 2])>>,
     small |-> IF LastOf("-small_res", k) = {} THEN NoOpts.small
               ELSE LET i == Max(LastOf("-small_res", k))
                    IN <<Atouint16(line[i + 1]), Atouint16(line[i + 2])>>]
Asked == AskedBefore(Len(line) + 1)

\* However the options are ordered and repeated, the header do_create is given
\* has the last value of each on the line, else the default
\* (imgfscmd_functions.c:193-231).
CreatesAsAsked == Is("create") /\ stage = "call" => opts = Asked

\* A command that returns ERR_NONE has done to the closed file what its command
\* line says, to the image and with the content it names.
CommandDone ==
    stage = "exit" /\ code = "ERR_NONE" =>
        LET Kept == {i \in ValidSlots(dMeta) : dMeta[i].img_id = Arg(2)}
        IN /\ Is("create") /\ opts.max_files = MaxFiles => formatted /\ ValidSlots(dMeta) = {}
           /\ Is("insert") => \E i \in Kept : dMeta[i].SHA = Images[Arg(3)]
           /\ Is("delete") => Kept = {}
           /\ Is("read") => \E i \in Kept, r \in ReadResolutions(line) :
                               dMeta[i].offset[r] # 0

\* The file that a read leaves is named for the image asked for and holds it, or
\* a part of it, in the resolution its name says; never another image
\* (imgfscmd_functions.c:282-314).
Suffixes == <<"_thumbnail", "_small", "_orig">>
ExtractsStored ==
    stage = "exit" /\ Is("read") /\ extracted # NoFile =>
        /\ extracted.name[1] = Arg(2)
        /\ extracted.image = Torn
           \/ /\ extracted.image.content = before[Arg(2)]
              /\ Suffixes[extracted.image.res + 1] = extracted.name[2]

\* A command that fails leaves the images as it found them.
FailureChangesNothing ==
    stage = "exit" /\ code # "ERR_NONE" => before = [id \in Ids |-> StoredImage(id)]

\* The inductive invariant of the theorems: the name that reaches the library is
\* one it can hold.
Naming == Is("insert") \/ Is("read") \/ Is("delete")
NameInv ==
    /\ stage \in {"open", "call"} /\ Naming => Arg(2) \in Ids
    /\ stage = "options" => ~ Naming

\* Whatever the command lines, the library is used as ImgStore has it: each call
\* on a file just opened, and the file closed after it.
UsesLibrary == Spec
=============================================================================
