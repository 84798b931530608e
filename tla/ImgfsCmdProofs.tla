--------------------------- MODULE ImgfsCmdProofs ---------------------------
(***************************************************************************)
(* imgfscmd uses the library as ImgStore has it, so that what is proved of *)
(* the library there holds of files that commands are run on, whatever the *)
(* command lines; the options of a create; and, when nothing fails, what a *)
(* command that succeeds has done and one that fails has not.              *)
(***************************************************************************)
EXTENDS ImgfsCmd, ImgStoreCatalogProofs, ImgStoreCleanProofs

\* Only main takes a command line, and it opens the file for a name the library
\* can hold.
LEMMA MainName ==
    ASSUME NEW l \in Lines \cup FirstLines, Main(l)
    PROVE  NameInv'
<1>0. ASSUME stage' = "options" PROVE ~ Naming'
  BY <1>0 DEF Naming, Is, Main, ListArguments, DeleteArguments, InsertArguments,
     ReadArguments, Stop, Proceed
<1> SUFFICES ASSUME stage' \in {"open", "call"}, Naming'
             PROVE  l[3] \in Ids
  BY <1>0 DEF NameInv, Arg, Main
<1>1. line' = l /\ l # <<>> /\ l[1] \in {"insert", "read", "delete"}
  BY DEF Naming, Is, Main
<1> DEFINE long == Len(l) > 3
           three == Len(l) = 3
           some == Len(l) >= 3
<1>a. /\ Len(l) \in Nat
      /\ l # <<>> =>
            /\ l[1] \in {"insert", "read"} /\ long => l[3] \in Ids
            /\ l[1] = "read" /\ three => l[3] \in Ids
            /\ l[1] = "delete" /\ some => l[3] \in Ids \cup LongNames \cup {""}
  BY LinesAssumption, Zenon
<1>b. Len(l) \in Nat
  BY LinesAssumption, Zenon
<1>2. CASE l[1] = "insert"
  <2>1. Argc(l) = 3
    BY <1>1, <1>2 DEF Main, InsertArguments, Stop
  <2> QED
    <3>1. Len(l) = 4
      BY <1>b, <2>1 DEF Argc
    <3> QED
      BY <1>1, <1>2, <1>a, <3>1
<1>3. CASE l[1] = "read"
  <2>1. Argc(l) \in {2, 3}
    BY <1>1, <1>3 DEF Main, ReadArguments, Stop
  <2> QED
    <3>1. Len(l) \in {3, 4}
      BY <1>b, <2>1 DEF Argc
    <3>2. CASE Len(l) = 3
      BY <1>1, <1>3, <1>a, <3>2
    <3>3. CASE Len(l) = 4
      BY <1>1, <1>3, <1>a, <3>3
    <3> QED
      BY <3>1, <3>2, <3>3
<1>4. CASE l[1] = "delete"
  <2>1. Argc(l) >= 2 /\ l[3] \notin LongNames \cup {""}
    BY <1>1, <1>4 DEF Main, DeleteArguments, Stop
  <2> QED
    <3>0. Argc(l) >= 2
      BY <2>1
    <3>1. Len(l) >= 3
      BY <1>b, <3>0 DEF Argc
    <3> QED
      BY <1>1, <1>4, <1>a, <2>1, <3>1
<1> QED
  BY <1>1, <1>2, <1>3, <1>4

\* No later step changes the line, or opens the file without main.
LEMMA NameStep ==
    ASSUME NameInv, [CmdNext]_<<vars, cmdVars>>
    PROVE  NameInv'
<1>1. CASE \E l \in Lines \cup FirstLines : Main(l)
  BY <1>1, MainName
<1>2. CASE Options
  BY <1>2 DEF Options, MaxFilesOption, ThumbOption, SmallOption, UnknownOption,
     TakeOption, Stop, NameInv, Naming, Is, Arg, parse
<1>3. CASE CreateCall
  BY <1>3 DEF CreateCall, Stop, Proceed, NameInv, Naming, Is, Arg, parse
<1>4. CASE Open \/ ReadImageFails \/ Call \/ InCall \/ Close
  BY <1>4 DEF Open, ReadImageFails, Call, InCall, Close, Returned, Stop, Proceed,
     NameInv, Naming, Is, Arg, parse, cmdVars
<1>5. CASE Extract \/ MainReturns
  BY <1>5 DEF Extract, MainReturns, Stop, NameInv, Naming, Is
<1>6. CASE UNCHANGED <<vars, cmdVars>>
  BY <1>6 DEF NameInv, Naming, Is, Arg, cmdVars, parse
<1> QED
  BY <1>1, <1>2, <1>3, <1>4, <1>5, <1>6 DEF CmdNext

\* Every step of a command is a step of the library, or leaves it alone.
LEMMA LibraryStep ==
    ASSUME NameInv, [CmdNext]_<<vars, cmdVars>>
    PROVE  [Next]_vars
<1>1. CASE (\E l \in Lines \cup FirstLines : Main(l)) \/ Options \/ Extract \/ MainReturns
  BY <1>1 DEF Main, Options, MaxFilesOption, ThumbOption, SmallOption, UnknownOption,
     TakeOption, Extract, MainReturns
<1>2. CASE CreateCall \/ Open \/ ReadImageFails \/ InCall \/ Close
  BY <1>2 DEF CreateCall, Open, ReadImageFails, InCall, Close, Next
<1>3. CASE Call
  <2>1. CASE DoList
    BY <2>1 DEF Next
  <2>2. CASE Is("delete") /\ DoDelete(Arg(2))
    BY <1>3, <2>2 DEF Call, NameInv, Naming, Next
  <2>3. CASE Is("insert") /\ Arg(3) \in DOMAIN Images /\ DoInsert(Arg(2), Images[Arg(3)])
    BY <1>3, <2>3, LinesAssumption DEF Call, NameInv, Naming, Next
  <2>4. CASE Is("read") /\ \E res \in ReadResolutions(line) : DoRead(Arg(2), res)
    <3>1. ReadResolutions(line) \subseteq Requested
      BY LinesAssumption DEF ReadResolutions, Resolutions, Res
    <3> QED
      BY <1>3, <2>4, <3>1 DEF Call, NameInv, Naming, Next
  <2> QED
    BY <1>3, <2>1, <2>2, <2>3, <2>4 DEF Call
<1>4. CASE UNCHANGED <<vars, cmdVars>>
  BY <1>4 DEF vars
<1> QED
  BY <1>1, <1>2, <1>3, <1>4 DEF CmdNext

\* The name a command hands to the library is never empty nor too long.
THEOREM NamesFit == CmdSpec => []NameInv
<1>1. CmdInit => NameInv
  BY DEF CmdInit, NameInv, Naming, Is
<1> QED
  BY <1>1, NameStep, PTL DEF CmdSpec

\* imgfscmd implements the library's protocol: every call on a file just opened.
THEOREM CommandsUseLibrary == CmdSpec => UsesLibrary
<1>1. CmdInit => Init
  BY DEF CmdInit
<1> QED
  BY <1>1, LibraryStep, NamesFit, PTL DEF CmdSpec, Spec, UsesLibrary

\* However commands follow each other, the count in the file covers its valid
\* slots and no insertion scans past the table.
THEOREM CommandsSafe ==
    ASSUME ~ LongLived
    PROVE  CmdSpec => [](CountCoversValid /\ ScanInBounds)
BY CommandsUseLibrary, CountsCover, ScanStaysInBounds, PTL DEF UsesLibrary

-----------------------------------------------------------------------------
(* The command's own state.                                                *)

\* Every image stored is one that libvips decodes.
LEMMA PicturesType ==
    ASSUME LibraryInv
    PROVE  Pictures \in [Ids -> Contents \cup {NoContent}]
<1>1. Sound(dMeta, blobs)
  BY DEF LibraryInv, ImagesInv
<1>2. ASSUME NEW id \in Ids
      PROVE  ImageIn(id, dMeta, blobs) \in Contents \cup {NoContent}
  <2>1. CASE \E i \in ValidSlots(dMeta) : dMeta[i].img_id = id
    <3>1. PICK i \in ValidSlots(dMeta) : dMeta[i].img_id = id
      BY <2>1
    <3> QED
      BY <1>1, <3>1, FoundImage
  <2>2. CASE \A i \in ValidSlots(dMeta) : dMeta[i].img_id # id
    BY <2>2, NoImage
  <2> QED
    BY <2>1, <2>2
<1> QED
  BY <1>2 DEF Pictures, ImagesIn, NoImages

LEMMA StoredPictures == [id \in Ids |-> StoredImage(id)] = Pictures
BY DEF StoredImage, Pictures, ImagesIn, ImageIn, NoImages

\* atouint16 and atouint32 give what the type they are named for holds; only a
\* number gives anything but 0.
LEMMA AtouintRange ==
    /\ \A s : Atouint32(s) \in 0 .. UINT32_MAX /\ Atouint16(s) \in 0 .. UINT16_MAX
    /\ \A s : Atouint32(s) # 0 \/ Atouint16(s) # 0 => s \in DOMAIN Numeral
<1>1. ASSUME NEW max \in Nat, NEW s
      PROVE  Atouint(max, s) \in 0 .. max /\ (Atouint(max, s) # 0 => s \in DOMAIN Numeral)
  BY WidthsAssumption DEF Atouint, StrToUmax, OutOfRange
<1>2. UINT16_MAX \in Nat /\ UINT32_MAX \in Nat
  BY WidthsAssumption, SizesAssumption
<1> QED
  BY <1>1, <1>2 DEF Atouint32, Atouint16

OptsType == [max_files : 1 .. UINT32_MAX,
             thumb : (1 .. MAX_THUMB_RES) \X (1 .. MAX_THUMB_RES),
             small : (1 .. MAX_SMALL_RES) \X (1 .. MAX_SMALL_RES)]

\* The types, and the argument the option loop of do_create_cmd has come to.
ParseInv ==
    /\ CmdTypeOK
    /\ stage = "options" => at \in 3 .. Len(line) + 1

LEMMA LineLength ==
    ASSUME NEW l \in Lines \cup FirstLines \cup {<<>>}
    PROVE  Len(l) \in Nat
<1>1. CASE l \in Lines \cup FirstLines
  BY <1>1, LinesAssumption, Zenon
<1>2. CASE l = <<>>
  BY <1>2
<1> QED
  BY <1>1, <1>2

LEMMA InitParse == CmdInit => ParseInv
<1> SUFFICES ASSUME CmdInit PROVE ParseInv
  OBVIOUS
<1>1. before \in [Ids -> Contents \cup {NoContent}]
  <2>1. LibraryInv
    BY InitInv, InitImages DEF CmdInit, LibraryInv
  <2> QED
    BY <2>1, PicturesType, StoredPictures DEF CmdInit
<1>2. extracted.image \in Blob
  BY TornIsBlob DEF CmdInit, NoFile
<1>3. opts = NoOpts /\ NoOpts \in OptsType
  BY DefaultsAssumption DEF CmdInit, NoOpts, OptsType
<1>4. at \in 0 .. Len(line) + 3 /\ line = <<>> /\ stage = "idle"
  BY DEF CmdInit
<1> QED
  BY <1>1, <1>2, <1>3, <1>4 DEF ParseInv, CmdTypeOK, OptsType

\* An option taken is one checked.
LEMMA OptionsParse ==
    ASSUME ParseInv, Options
    PROVE  ParseInv'
<1>0. /\ Len(line) \in Nat /\ at \in 3 .. Len(line) + 1 /\ stage = "options"
      /\ opts \in OptsType
  BY LineLength DEF ParseInv, CmdTypeOK, OptsType, Options, MaxFilesOption, ThumbOption,
     SmallOption, UnknownOption, TakeOption
<1>1. /\ UNCHANGED <<line, before, extracted>> /\ stage' \in {"options", "exit"}
  BY <1>0 DEF Options, MaxFilesOption, ThumbOption, SmallOption, UnknownOption, TakeOption,
     Stop, parse
<1>2. CASE UNCHANGED <<at, opts>> /\ stage' = "exit"
  BY <1>1, <1>2 DEF ParseInv, CmdTypeOK
<1>3. ASSUME NEW n \in {1, 2}, Left >= n + 1, at' = at + n + 1, opts' \in OptsType
      PROVE  ParseInv'
  <2>1. at' \in 3 .. Len(line) + 1 /\ at' \in 0 .. Len(line) + 3
    BY <1>0, <1>3 DEF Left
  <2>2. CmdTypeOK'
    BY <1>1, <1>3, <2>1 DEF ParseInv, CmdTypeOK, OptsType
  <2> QED
    BY <1>1, <2>1, <2>2 DEF ParseInv
<1>4. CASE MaxFilesOption
  <2>1. CASE /\ Left >= 1 + 1 /\ at' = at + 1 + 1 /\ Atouint32(ValueAfter(1)) # 0
             /\ opts' = [opts EXCEPT !.max_files = Atouint32(ValueAfter(1))]
    <3>1. Atouint32(ValueAfter(1)) \in 1 .. UINT32_MAX
      BY <2>1, AtouintRange, SizesAssumption
    <3>2. opts' \in OptsType
      BY <1>0, <2>1, <3>1 DEF OptsType
    <3> QED
      BY <1>3, <2>1, <3>2
  <2> QED
    BY <1>2, <1>4, <2>1 DEF MaxFilesOption, TakeOption, Stop
<1>5. CASE ThumbOption
  <2>1. CASE /\ Left >= 2 + 1 /\ at' = at + 2 + 1
             /\ \A i \in 1 .. 2 : Within(MAX_THUMB_RES, ValueAfter(i))
             /\ opts' = [opts EXCEPT !.thumb = PairAfter]
    <3>1. PairAfter \in (1 .. MAX_THUMB_RES) \X (1 .. MAX_THUMB_RES)
      BY <2>1 DEF PairAfter, Within
    <3>2. opts' \in OptsType
      BY <1>0, <2>1, <3>1 DEF OptsType
    <3> QED
      BY <1>3, <2>1, <3>2
  <2> QED
    BY <1>2, <1>5, <2>1 DEF ThumbOption, TakeOption, Stop
<1>6. CASE SmallOption
  <2>1. CASE /\ Left >= 2 + 1 /\ at' = at + 2 + 1
             /\ \A i \in 1 .. 2 : Within(MAX_SMALL_RES, ValueAfter(i))
             /\ opts' = [opts EXCEPT !.small = PairAfter]
    <3>1. PairAfter \in (1 .. MAX_SMALL_RES) \X (1 .. MAX_SMALL_RES)
      BY <2>1 DEF PairAfter, Within
    <3>2. opts' \in OptsType
      BY <1>0, <2>1, <3>1 DEF OptsType
    <3> QED
      BY <1>3, <2>1, <3>2
  <2> QED
    BY <1>2, <1>6, <2>1 DEF SmallOption, TakeOption, Stop
<1>7. CASE UnknownOption
  BY <1>2, <1>7 DEF UnknownOption, Stop, parse
<1> QED
  BY <1>4, <1>5, <1>6, <1>7 DEF Options

\* main takes a line, and counts what is stored before the command.
LEMMA MainParse ==
    ASSUME LibraryInv, ParseInv, NEW l \in Lines \cup FirstLines, Main(l)
    PROVE  ParseInv'
<1>1. /\ line' = l /\ at' = 3 /\ UNCHANGED <<opts, extracted>>
      /\ before' = [id \in Ids |-> StoredImage(id)]
  BY DEF Main
<1>2. Len(l) \in Nat
  BY LineLength
<1>3. before' \in [Ids -> Contents \cup {NoContent}]
  BY <1>1, PicturesType, StoredPictures
<1>4. stage' \in {"options", "open", "exit"}
  BY DEF Main, Stop, Proceed, ListArguments, CreateArguments, DeleteArguments,
     InsertArguments, ReadArguments
<1>5. stage' = "options" => Argc(l) >= 1
  BY DEF Main, Stop, Proceed, ListArguments, CreateArguments, DeleteArguments,
     InsertArguments, ReadArguments
<1>6. at' \in 0 .. Len(line') + 3 /\ (stage' = "options" => at' \in 3 .. Len(line') + 1)
  BY <1>1, <1>2, <1>5 DEF Argc
<1> QED
  BY <1>1, <1>3, <1>4, <1>6 DEF ParseInv, CmdTypeOK

LEMMA ParseStep ==
    ASSUME TypeOK, LibraryInv, ParseInv, [CmdNext]_<<vars, cmdVars>>
    PROVE  ParseInv'
<1>1. CASE \E l \in Lines \cup FirstLines : Main(l)
  BY <1>1, MainParse
<1>2. CASE Options
  BY <1>2, OptionsParse
<1>3. CASE CreateCall \/ Open \/ ReadImageFails \/ Call \/ InCall \/ Close
           \/ UNCHANGED <<vars, cmdVars>>
  <2>1. /\ UNCHANGED <<line, at, opts, before, extracted>>
        /\ stage' \in {stage, "call", "extract", "exit"}
    BY <1>3 DEF CreateCall, Open, ReadImageFails, Call, InCall, Close, Returned, Stop,
       Proceed, cmdVars, parse, outcome
  <2> QED
    BY <2>1 DEF ParseInv, CmdTypeOK
<1>4. CASE Extract
  <2>1. /\ UNCHANGED <<line, at, opts, before>> /\ stage' = "exit"
        /\ extracted'.image \in {served.image, Torn, extracted.image}
    BY <1>4 DEF Extract, Stop, parse
  <2>2. extracted'.image \in Blob
    BY <2>1, TornIsBlob DEF TypeOK, ParseInv, CmdTypeOK
  <2> QED
    BY <2>1, <2>2 DEF ParseInv, CmdTypeOK
<1>5. CASE MainReturns
  <2>1. NoOpts \in OptsType
    BY DefaultsAssumption DEF NoOpts, OptsType
  <2>2. /\ stage' = "idle" /\ line' = <<>> /\ at' = 0 /\ opts' \in OptsType
        /\ before' = [id \in Ids |-> NoContent] /\ extracted'.image \in Blob
    BY <1>5, <2>1, TornIsBlob DEF MainReturns, NoFile
  <2> QED
    BY <2>2 DEF ParseInv, CmdTypeOK, OptsType
<1> QED
  BY <1>1, <1>2, <1>3, <1>4, <1>5 DEF CmdNext

\* What a command keeps is of its type whatever the command line: the option loop
\* stays on it, and the header do_create is given is within the limits.
THEOREM CommandsWellTyped ==
    ASSUME ~ LongLived
    PROVE  CmdSpec => []CmdTypeOK
<1>1. CmdSpec => []TypeOK /\ []LibraryInv
  BY CommandsUseLibrary, TypeCorrect, CommandsKeepImages, PTL DEF UsesLibrary
<1>2. ParseInv => CmdTypeOK
  BY DEF ParseInv
<1> QED
  BY <1>1, <1>2, InitParse, ParseStep, PTL DEF CmdSpec

-----------------------------------------------------------------------------
(* The options of a create command.                                        *)

LEMMA MaxOfOne == ASSUME NEW k \in Int PROVE Max({k}) = k
BY DEF Max

\* Nothing that is read as a number is an option.
LEMMA NumbersAreNoOptions ==
    ASSUME NEW s, Atouint32(s) # 0 \/ Atouint16(s) # 0
    PROVE  s \notin OptionNames
BY AtouintRange, OptionsAssumption

\* An option at k with its n values is the last one of its name before what
\* follows, and the others are what they were.
LEMMA OptionTaken ==
    ASSUME NEW k \in Int, k >= 3, NEW n \in Nat, NEW option \in OptionNames, line[k] = option,
           \A j \in 1 .. n : line[k + j] \notin OptionNames
    PROVE  /\ LastOf(option, k + n + 1) = {k}
           /\ \A other \in OptionNames \ {option} : LastOf(other, k + n + 1) = LastOf(other, k)
<1>1. \A j \in k + 1 .. k + n : line[j] \notin OptionNames
  <2> TAKE j \in k + 1 .. k + n
  <2>1. j - k \in 1 .. n /\ k + (j - k) = j
    OBVIOUS
  <2> QED
    BY <2>1
<1>2. \A j \in 3 .. (k + n + 1) - 1 : j \in 3 .. k - 1 \/ j = k \/ j \in k + 1 .. k + n
  OBVIOUS
<1>3. k \in 3 .. (k + n + 1) - 1 /\ 3 .. k - 1 \subseteq 3 .. (k + n + 1) - 1
  OBVIOUS
<1>4. LastOf(option, k + n + 1) = {k}
  <2>1. k \in LastOf(option, k + n + 1)
    BY <1>1, <1>2, <1>3 DEF LastOf
  <2>2. ASSUME NEW i \in LastOf(option, k + n + 1) PROVE i = k
    <3>1. i \in 3 .. (k + n + 1) - 1 /\ line[i] = option /\ ~ (k > i)
      BY <1>3 DEF LastOf
    <3> QED
      BY <1>1, <1>2, <3>1
  <2> QED
    BY <2>1, <2>2
<1>5. ASSUME NEW other \in OptionNames, other # option
      PROVE  LastOf(other, k + n + 1) = LastOf(other, k)
  <2>1. ASSUME NEW i \in LastOf(other, k + n + 1) PROVE i \in LastOf(other, k)
    <3>1. i \in 3 .. k - 1 /\ line[i] = other
      BY <1>1, <1>2, <1>5, <2>1 DEF LastOf
    <3> QED
      BY <1>3, <2>1, <3>1 DEF LastOf
  <2>2. ASSUME NEW i \in LastOf(other, k) PROVE i \in LastOf(other, k + n + 1)
    BY <1>1, <1>2, <1>3, <1>5, <2>2 DEF LastOf
  <2> QED
    BY <2>1, <2>2
<1> QED
  BY <1>4, <1>5

\* The header do_create_cmd fills is the one asked for up to the argument its loop
\* has come to.
OptionsInv ==
    /\ stage = "idle" => opts = NoOpts
    /\ stage = "options" => opts = AskedBefore(at)
    /\ stage = "open" => ~ Is("create")
    /\ CreatesAsAsked

LEMMA OptionsStep ==
    ASSUME ParseInv, OptionsInv, Options
    PROVE  OptionsInv'
<1>0. /\ Len(line) \in Nat /\ at \in 3 .. Len(line) + 1 /\ at \in Int /\ at >= 3
      /\ stage = "options" /\ opts = AskedBefore(at)
  BY LineLength DEF ParseInv, CmdTypeOK, OptionsInv, Options, MaxFilesOption, ThumbOption,
     SmallOption, UnknownOption, TakeOption
<1>1. line' = line /\ stage' \in {"options", "exit"}
  BY <1>0 DEF Options, MaxFilesOption, ThumbOption, SmallOption, UnknownOption, TakeOption,
     Stop, parse
<1>2. CASE stage' = "exit"
  BY <1>2 DEF OptionsInv, CreatesAsAsked
<1>3. ASSUME opts' = AskedBefore(at'), stage' = "options"
      PROVE  OptionsInv'
  <2>1. \A k : AskedBefore(k)' = AskedBefore(k')
    BY <1>1 DEF AskedBefore, LastOf
  <2> QED
    BY <1>1, <1>3 DEF OptionsInv, CreatesAsAsked, AskedBefore, LastOf
<1>4. CASE MaxFilesOption
  <2>1. CASE /\ line[at] = "-max_files" /\ at' = at + 1 + 1 /\ stage' = "options"
             /\ Atouint32(line[at + 1]) # 0
             /\ opts' = [opts EXCEPT !.max_files = Atouint32(line[at + 1])]
    <3>1. \A j \in 1 .. 1 : line[at + j] \notin OptionNames
      BY <2>1, NumbersAreNoOptions
    <3>2. "-max_files" \in OptionNames /\ line[at] = "-max_files" /\ at' = at + 1 + 1 /\ 1 \in Nat
      BY <2>1 DEF OptionNames
    <3>3. /\ LastOf("-max_files", at + 1 + 1) = {at}
          /\ \A other \in OptionNames \ {"-max_files"} : LastOf(other, at + 1 + 1) = LastOf(other, at)
      BY <1>0, <3>1, <3>2, OptionTaken
    <3>4. /\ LastOf("-max_files", at') = {at}
          /\ LastOf("-thumb_res", at') = LastOf("-thumb_res", at)
          /\ LastOf("-small_res", at') = LastOf("-small_res", at)
      BY <3>2, <3>3 DEF OptionNames
    <3>5. opts' = AskedBefore(at')
      BY <1>0, <2>1, <3>4, MaxOfOne DEF AskedBefore
    <3> QED
      BY <1>3, <2>1, <3>5
  <2> QED
    BY <1>0, <1>2, <1>4, <2>1 DEF MaxFilesOption, TakeOption, Stop, ValueAfter
<1>5. CASE ThumbOption
  <2>1. CASE /\ line[at] = "-thumb_res" /\ at' = at + 2 + 1 /\ stage' = "options"
             /\ \A i \in 1 .. 2 : Atouint16(line[at + i]) # 0
             /\ opts' = [opts EXCEPT
                           !.thumb = <<Atouint16(line[at + 1]), Atouint16(line[at + 2])>>]
    <3>1. \A j \in 1 .. 2 : line[at + j] \notin OptionNames
      BY <2>1, NumbersAreNoOptions
    <3>2. "-thumb_res" \in OptionNames /\ line[at] = "-thumb_res" /\ at' = at + 2 + 1 /\ 2 \in Nat
      BY <2>1 DEF OptionNames
    <3>3. /\ LastOf("-thumb_res", at + 2 + 1) = {at}
          /\ \A other \in OptionNames \ {"-thumb_res"} : LastOf(other, at + 2 + 1) = LastOf(other, at)
      BY <1>0, <3>1, <3>2, OptionTaken
    <3>4. /\ LastOf("-thumb_res", at') = {at}
          /\ LastOf("-max_files", at') = LastOf("-max_files", at)
          /\ LastOf("-small_res", at') = LastOf("-small_res", at)
      BY <3>2, <3>3 DEF OptionNames
    <3>5. opts' = AskedBefore(at')
      BY <1>0, <2>1, <3>4, MaxOfOne DEF AskedBefore
    <3> QED
      BY <1>3, <2>1, <3>5
  <2>2. \A i \in 1 .. 2 : Within(MAX_THUMB_RES, ValueAfter(i)) => Atouint16(line[at + i]) # 0
    BY DEF Within, ValueAfter
  <2>3. PairAfter = <<Atouint16(line[at + 1]), Atouint16(line[at + 2])>>
    BY DEF PairAfter, ValueAfter
  <2> QED
    BY <1>0, <1>2, <1>5, <2>1, <2>2, <2>3 DEF ThumbOption, TakeOption, Stop
<1>6. CASE SmallOption
  <2>1. CASE /\ line[at] = "-small_res" /\ at' = at + 2 + 1 /\ stage' = "options"
             /\ \A i \in 1 .. 2 : Atouint16(line[at + i]) # 0
             /\ opts' = [opts EXCEPT
                           !.small = <<Atouint16(line[at + 1]), Atouint16(line[at + 2])>>]
    <3>1. \A j \in 1 .. 2 : line[at + j] \notin OptionNames
      BY <2>1, NumbersAreNoOptions
    <3>2. "-small_res" \in OptionNames /\ line[at] = "-small_res" /\ at' = at + 2 + 1 /\ 2 \in Nat
      BY <2>1 DEF OptionNames
    <3>3. /\ LastOf("-small_res", at + 2 + 1) = {at}
          /\ \A other \in OptionNames \ {"-small_res"} : LastOf(other, at + 2 + 1) = LastOf(other, at)
      BY <1>0, <3>1, <3>2, OptionTaken
    <3>4. /\ LastOf("-small_res", at') = {at}
          /\ LastOf("-max_files", at') = LastOf("-max_files", at)
          /\ LastOf("-thumb_res", at') = LastOf("-thumb_res", at)
      BY <3>2, <3>3 DEF OptionNames
    <3>5. opts' = AskedBefore(at')
      BY <1>0, <2>1, <3>4, MaxOfOne DEF AskedBefore
    <3> QED
      BY <1>3, <2>1, <3>5
  <2>2. \A i \in 1 .. 2 : Within(MAX_SMALL_RES, ValueAfter(i)) => Atouint16(line[at + i]) # 0
    BY DEF Within, ValueAfter
  <2>3. PairAfter = <<Atouint16(line[at + 1]), Atouint16(line[at + 2])>>
    BY DEF PairAfter, ValueAfter
  <2> QED
    BY <1>0, <1>2, <1>6, <2>1, <2>2, <2>3 DEF SmallOption, TakeOption, Stop
<1>7. CASE UnknownOption
  BY <1>2, <1>7 DEF UnknownOption, Stop
<1> QED
  BY <1>4, <1>5, <1>6, <1>7 DEF Options

\* main's line starts the loop on its first option, with the default values.
LEMMA OptionsStart ==
    ASSUME ParseInv, OptionsInv, NEW l \in Lines \cup FirstLines, Main(l)
    PROVE  OptionsInv'
<1>1. line' = l /\ at' = 3 /\ opts' = NoOpts
  BY DEF Main, OptionsInv
<1>2. /\ stage' \in {"options", "open", "exit"}
      /\ stage' = "open" => l # <<>> /\ l[1] # "create"
  BY DEF Main, Stop, Proceed, ListArguments, CreateArguments, DeleteArguments,
     InsertArguments, ReadArguments
<1>3. AskedBefore(3)' = NoOpts
  BY DEF AskedBefore, LastOf, NoOpts
<1>4. at' = 3 => AskedBefore(at)' = AskedBefore(3)'
  BY DEF AskedBefore, LastOf
<1> QED
  BY <1>1, <1>2, <1>3, <1>4 DEF OptionsInv, CreatesAsAsked, Is

LEMMA AskedStep ==
    ASSUME ParseInv, OptionsInv, [CmdNext]_<<vars, cmdVars>>
    PROVE  OptionsInv'
<1>1. CASE \E l \in Lines \cup FirstLines : Main(l)
  BY <1>1, OptionsStart
<1>2. CASE Options
  BY <1>2, OptionsStep
<1>3. CASE CreateCall
  <2>1. at = Len(line) + 1 /\ opts = Asked
    <3>1. Len(line) \in Nat /\ at \in Int
      BY <1>3, LineLength DEF ParseInv, CmdTypeOK, CreateCall
    <3>2. at = Len(line) + 1
      BY <1>3, <3>1 DEF CreateCall, Left
    <3> QED
      BY <1>3, <3>2 DEF OptionsInv, CreateCall, Asked
  <2>2. UNCHANGED <<line, opts>> /\ stage' \in {"call", "exit"}
    BY <1>3 DEF CreateCall, Proceed, Stop, parse
  <2>3. Asked' = Asked
    BY <2>2 DEF Asked, AskedBefore, LastOf
  <2> QED
    BY <2>1, <2>2, <2>3 DEF OptionsInv, CreatesAsAsked
<1>4. CASE Open
  BY <1>4 DEF Open, Proceed, Stop, parse, OptionsInv, CreatesAsAsked, Is
<1>5. CASE Call \/ InCall \/ UNCHANGED <<vars, cmdVars>>
  <2>1. UNCHANGED <<stage, line, at, opts>>
    BY <1>5 DEF Call, InCall, cmdVars, parse
  <2>2. Asked' = Asked /\ AskedBefore(at)' = AskedBefore(at)
    BY <2>1 DEF Asked, AskedBefore, LastOf
  <2> QED
    BY <2>1, <2>2 DEF OptionsInv, CreatesAsAsked, Is
<1>6. CASE ReadImageFails \/ Close \/ Extract
  <2>1. stage' \in {"extract", "exit"}
    BY <1>6 DEF ReadImageFails, Close, Returned, Extract, Stop, Proceed
  <2> QED
    BY <2>1 DEF OptionsInv, CreatesAsAsked
<1>7. CASE MainReturns
  BY <1>7 DEF MainReturns, OptionsInv, CreatesAsAsked
<1> QED
  BY <1>1, <1>2, <1>3, <1>4, <1>5, <1>6, <1>7 DEF CmdNext

\* However the options of a create are ordered and repeated, and whatever stands
\* among them, do_create is given the last value of each, else the default.
THEOREM CreatesWhatIsAsked ==
    ASSUME ~ LongLived
    PROVE  CmdSpec => []CreatesAsAsked
<1>1. CmdSpec => []TypeOK /\ []LibraryInv
  BY CommandsUseLibrary, TypeCorrect, CommandsKeepImages, PTL DEF UsesLibrary
<1>2. CmdInit => OptionsInv
  BY DEF CmdInit, OptionsInv, CreatesAsAsked
<1>3. OptionsInv => CreatesAsAsked
  BY DEF OptionsInv
<1> QED
  BY <1>1, <1>2, <1>3, InitParse, ParseStep, AskedStep, PTL DEF CmdSpec

-----------------------------------------------------------------------------
(* A file that commands are run on, one after the other.                   *)

\* However commands follow each other, the count in the file they leave is exact
\* when nothing fails.
THEOREM CommandsCount ==
    ASSUME ~ LongLived, ~ Faults
    PROVE  CmdSpec => []CountExact
BY CommandsUseLibrary, CountsExactly, PTL DEF UsesLibrary

\* The file is an image catalogue to those who run commands on it, whatever the
\* command lines and wherever a command fails.
THEOREM CommandsKeepCatalog ==
    ASSUME ~ LongLived
    PROVE  CmdSpec => ImplementsCatalog
BY CommandsUseLibrary, CommandsImplementCatalog, PTL DEF UsesLibrary

-----------------------------------------------------------------------------
(* What a read has written when anything may fail.                         *)

\* A flush shows nothing but a slot filled or cleared.
LEMMA FlushShowsNothing ==
    ASSUME TypeOK, ImagesInv, Flush(pend), formatted,
           pend.kind = "meta" => Extends(pend.slot, pend.meta, dMeta, blobs)
    PROVE  Pictures' = Pictures
<1>0. /\ pend \in Write /\ Due(pend, dHeader, dMeta, blobs) /\ Sound(dMeta, blobs)
      /\ dMeta \in [Slots -> Metadata]
  BY DEF TypeOK, ImagesInv
<1>1. formatted'
  BY Zenon DEF Flush
<1>2. Pictures = ImagesIn(dMeta, blobs) /\ Pictures' = ImagesIn(dMeta', blobs')
  BY <1>1 DEF Pictures
<1>3. CASE pend.kind # "meta"
  <2>1. dMeta' = dMeta /\ Sound(dMeta', blobs')
    BY <1>0, <1>3, FlushSound
  <2>2. ImagesIn(dMeta', blobs') = ImagesIn(dMeta, blobs)
    BY <1>0, <2>1, SameImages
  <2> QED
    BY <1>2, <2>2
<1>4. CASE pend.kind = "meta"
  <2>1. pend.slot \in Slots
    BY <1>0, <1>4 DEF Write, NoWrite, FormatWrite
  <2>2. dMeta' = [dMeta EXCEPT ![pend.slot] = pend.meta] /\ blobs' = blobs
    BY <1>4 DEF Flush
  <2>3. ImagesIn([dMeta EXCEPT ![pend.slot] = pend.meta], blobs) = ImagesIn(dMeta, blobs)
    BY <1>0, <1>4, <2>1, ExtendedShows
  <2> QED
    BY <1>2, <2>2, <2>3
<1> QED
  BY <1>3, <1>4

LEMMA DiskShows == ASSUME UNCHANGED disk PROVE Pictures' = Pictures
BY DEF disk, Pictures

LEMMA FlushOfNothing ==
    ASSUME Flush(pend), pend = NoWrite
    PROVE  UNCHANGED <<dHeader, dMeta, blobs>> /\ Pictures' = Pictures
<1>1. UNCHANGED <<dHeader, dMeta, blobs>>
  BY DEF Flush, NoWrite
<1>2. formatted' = (formatted \/ FALSE)
  BY DEF Flush, NoWrite
<1> QED
  BY <1>1, <1>2 DEF Pictures

\* The line is read only for its command and arguments, which no step changes.
LEMMA LineStays ==
    ASSUME line' = line, stage # "idle", stage' # "idle"
    PROVE  /\ \A command : Is(command)' <=> Is(command)
           /\ \A n : Arg(n)' = Arg(n)
           /\ ReadResolutions(line') = ReadResolutions(line)
BY DEF Is, Arg

\* The image of a read is stored, in the resolution read, and was before.
Shown ==
    /\ before = Pictures
    /\ \E i \in ValidSlots(dMeta), r \in ReadResolutions(line) :
          /\ dMeta[i].img_id = Arg(2) /\ dMeta[i].offset[r] # 0
          /\ served.image = [content |-> before[Arg(2)], res |-> r]

\* A failure ends the call of a read with an error, and nothing is extracted; up
\* to it the call has changed no image.
Fetching ==
    /\ pc \in {"ready", "rs_load", "rs_meta", "rd_data", "done"}
    /\ pc # "done" => before = Pictures
    /\ pc \in {"rs_load", "rs_meta", "rd_data"} =>
          op.id = Arg(2) /\ op.res \in ReadResolutions(line)
    /\ pc = "rd_data" => \/ pend = NoWrite /\ metadata[op.slot] = dMeta[op.slot]
                         \/ pend = MetaWrite(op.slot, metadata[op.slot])
    /\ pc = "done" /\ ret.code = "ERR_NONE" => pend = NoWrite /\ Shown
FetchInv ==
    /\ stage = "call" <=> pc # "closed"
    /\ stage = "options" => Is("create")
    /\ stage = "open" => before = Pictures
    /\ stage = "call" /\ Is("read") => Fetching
    /\ stage = "extract" => Is("read") /\ Shown
    /\ stage # "exit" => extracted = NoFile
    /\ ExtractsStored

\* The steps before and after the call.
LEMMA OutsideFetches ==
    ASSUME FetchInv, LibraryInv,
           (\E l \in Lines \cup FirstLines : Main(l)) \/ Options \/ CreateCall \/ Open \/ MainReturns
    PROVE  FetchInv'
<1>1. CASE \E l \in Lines \cup FirstLines : Main(l)
  <2>1. /\ stage = "idle" /\ pc' = "closed" /\ extracted' = NoFile /\ Pictures' = Pictures
        /\ before' = Pictures
    BY <1>1, DiskShows, StoredPictures DEF Main, FetchInv, vars
  <2>2. stage' \in {"options", "open", "exit"} /\ (stage' = "options" => Is("create")')
    BY <1>1 DEF Main, Stop, Proceed, Is, ListArguments, CreateArguments, DeleteArguments,
       InsertArguments, ReadArguments
  <2> QED
    BY <2>1, <2>2 DEF FetchInv, ExtractsStored
<1>2. CASE Options
  <2>1. /\ stage = "options" /\ stage' \in {"options", "exit"}
        /\ UNCHANGED <<vars, line, before, extracted>>
    BY <1>2 DEF Options, MaxFilesOption, ThumbOption, SmallOption, UnknownOption, TakeOption,
       Stop, parse
  <2>2. pc' = "closed" /\ extracted' = NoFile
    BY <2>1 DEF FetchInv, vars
  <2>3. Is("create")' <=> Is("create")
    BY <2>1, LineStays
  <2> QED
    BY <2>1, <2>2, <2>3 DEF FetchInv, ExtractsStored
<1>3. CASE CreateCall
  <2>1. /\ stage = "options" /\ pc = "closed" /\ Is("create") /\ extracted' = NoFile
        /\ UNCHANGED line
    BY <1>3 DEF CreateCall, FetchInv, parse
  <2>2. (stage' = "exit" /\ pc' = "closed") \/ (stage' = "call" /\ pc' # "closed")
    BY <1>3, <2>1 DEF CreateCall, Stop, Proceed, DoCreate, CreateFails, Return, AfterCall, vars
  <2>3. Is("create")' /\ ~ Is("read")'
    BY <2>1, <2>2 DEF Is
  <2> QED
    BY <2>1, <2>2, <2>3 DEF FetchInv, ExtractsStored
<1>4. CASE Open
  <2>1. /\ stage = "open" /\ pc = "closed" /\ UNCHANGED <<disk, line, before>>
        /\ before = Pictures /\ extracted' = NoFile
    BY <1>4 DEF Open, DoOpen, FetchInv, parse
  <2>2. (pc' = "ready" /\ stage' = "call") \/ (pc' = "closed" /\ stage' = "exit")
    BY <1>4, <2>1 DEF Open, DoOpen, Proceed, Stop
  <2>3. before' = Pictures'
    BY <2>1, DiskShows
  <2> QED
    BY <2>1, <2>2, <2>3 DEF FetchInv, Fetching, ExtractsStored
<1>5. CASE MainReturns
  <2>1. stage' = "idle" /\ pc' = "closed" /\ extracted' = NoFile
    BY <1>5 DEF MainReturns, FetchInv, vars
  <2> QED
    BY <2>1 DEF FetchInv, ExtractsStored
<1> QED
  BY <1>1, <1>2, <1>3, <1>4, <1>5

\* A step within a call that keeps what is known of a read.
LEMMA StillFetching ==
    ASSUME FetchInv, stage = "call", UNCHANGED cmdVars, pc' # "closed",
           Is("read") => Fetching'
    PROVE  FetchInv'
<1>1. UNCHANGED <<line, stage, extracted>>
  BY DEF cmdVars, parse, outcome
<1>2. Is("read")' <=> Is("read")
  BY <1>1 DEF Is
<1> QED
  BY <1>1, <1>2 DEF FetchInv, ExtractsStored

\* One that fails returns.
LEMMA FetchFails ==
    ASSUME pc' = "done", ret'.code # "ERR_NONE"
    PROVE  Fetching'
BY DEF Fetching

LEMMA CallFetches ==
    ASSUME TypeOK, LibraryInv, FetchInv, ~ LongLived, Call
    PROVE  FetchInv'
<1>1. /\ stage = "call" /\ pc = "ready" /\ UNCHANGED cmdVars /\ pend = NoWrite
      /\ metadata = dMeta /\ line' = line /\ stage' = stage /\ before' = before
  BY DEF Call, LibraryInv, CommandInv, NothingPending, Loaded, cmdVars, parse
<1>2. CASE ~ Is("read")
  <2>1. pc' # "closed"
    BY <1>2 DEF Call, DoList, DoDelete, DoInsert, Return, AfterCall
  <2> QED
    BY <1>1, <1>2, <2>1, StillFetching
<1>3. CASE Is("read")
  <2>0. PICK res \in ReadResolutions(line) : DoRead(Arg(2), res)
    BY <1>3 DEF Call, Is
  <2>1. UNCHANGED <<disk, pend, metadata>> /\ Pictures' = Pictures /\ before = Pictures
    BY <1>1, <1>3, <2>0, DiskShows DEF DoRead, memory, FetchInv, Fetching
  <2>2. CASE \E o : \E e \in {"ERR_IMAGE_NOT_FOUND", "ERR_RESOLUTIONS"} : Return(o, e)
    <3>1. pc' = "done" /\ ret'.code # "ERR_NONE"
      BY <2>2 DEF Return, AfterCall
    <3> QED
      BY <1>1, <3>1, FetchFails, StillFetching
  <2>3. CASE op'.id = Arg(2) /\ op'.res = res /\ pc' \in {"rs_load", "rd_data"}
    <3>1. pend' = NoWrite /\ metadata' = dMeta'
      BY <1>1, <2>1 DEF disk
    <3>2. \A n : Arg(n)' = Arg(n)
      BY <1>1, LineStays
    <3>3. Fetching'
      BY <1>1, <2>0, <2>1, <2>3, <3>1, <3>2 DEF Fetching
    <3> QED
      BY <1>1, <2>3, <3>3, StillFetching
  <2>4. \/ \E o : \E e \in {"ERR_IMAGE_NOT_FOUND", "ERR_RESOLUTIONS"} : Return(o, e)
        \/ op'.id = Arg(2) /\ op'.res = res /\ pc' \in {"rs_load", "rd_data"}
    BY <2>0 DEF DoRead, NoOp
  <2> QED
    BY <2>2, <2>3, <2>4
<1> QED
  BY <1>2, <1>3

\* What the rest of a read starts from.
LEMMA FetchFrom ==
    ASSUME TypeOK, LibraryInv, FetchInv, stage = "call", pc \notin {"closed", "done"},
           Is("read"), UNCHANGED cmdVars
    PROVE  /\ pc \in {"ready", "rs_load", "rs_meta", "rd_data"} /\ Fetching
           /\ formatted /\ before = Pictures /\ op.slot \in Slots /\ op.res \in Res
           /\ metadata[op.slot] \in Metadata /\ blobs \in Seq(Blob)
           /\ \A n : Arg(n)' = Arg(n)
           /\ ReadResolutions(line') = ReadResolutions(line)
<1>1. line' = line /\ stage' = stage
  BY DEF cmdVars, parse
<1> QED
  BY <1>1, LineStays DEF TypeOK, Op, LibraryInv, ImagesInv, Formatting, FetchInv, Fetching

LEMMA ResizeFetches ==
    ASSUME TypeOK, LibraryInv, FetchInv, ~ LongLived, stage = "call", Is("read"),
           ResizeBlob \/ ResizeMeta, UNCHANGED cmdVars
    PROVE  FetchInv'
<1>0. pc \notin {"closed", "done"} /\ pc \in {"rs_load", "rs_meta"}
  BY DEF ResizeBlob, ResizeMeta
<1>1. /\ Fetching /\ formatted /\ before = Pictures
      /\ \A n : Arg(n)' = Arg(n)
      /\ ReadResolutions(line') = ReadResolutions(line)
  BY <1>0, FetchFrom
<1>2. before' = before
  BY DEF cmdVars
<1>3. CASE \E o, e : e # "ERR_NONE" /\ Return(o, e)
  <2>1. pc' = "done" /\ ret'.code # "ERR_NONE"
    BY <1>3 DEF Return, AfterCall
  <2> QED
    BY <2>1, FetchFails, StillFetching
<1>4. CASE /\ Seek /\ op' = op
           /\ pc' \in {"rs_meta", "rd_data"}
           /\ pc' = "rd_data" => metadata' = metadata /\ pend' = MetaWrite(op.slot, metadata[op.slot])
  <2>1. pend.kind # "meta"
    BY <1>0 DEF LibraryInv, CommandInv, NothingPending, NoWrite
  <2>2. Pictures' = Pictures
    BY <1>1, <1>4, <2>1, FlushShowsNothing DEF LibraryInv, Seek
  <2>3. op'.id = Arg(2)' /\ op'.res \in ReadResolutions(line')
    BY <1>0, <1>1, <1>4 DEF Fetching
  <2>4. Fetching'
    BY <1>1, <1>2, <1>4, <2>2, <2>3 DEF Fetching
  <2> QED
    BY <1>4, <2>4, StillFetching
<1>5. CASE ResizeBlob
  <2>1. \/ Return(op, "ERR_IO")
        \/ \E e \in {"ERR_IO", "ERR_IMGLIB", "ERR_OUT_OF_MEMORY"} : Return(op, e)
        \/ Seek /\ \E w : FwriteOk(w, "rs_meta")
    BY <1>5 DEF ResizeBlob, FwriteFails
  <2> QED
    BY <1>3, <1>4, <2>1 DEF FwriteOk
<1>6. CASE ResizeMeta
  <2>1. \/ Return(op, "ERR_IO")
        \/ Seek /\ metadata' = metadata /\ FwriteOk(MetaWrite(op.slot, metadata[op.slot]), "rd_data")
    BY <1>6 DEF ResizeMeta, FwriteFails, memory
  <2> QED
    BY <1>3, <1>4, <2>1 DEF FwriteOk
<1> QED
  BY <1>5, <1>6

LEMMA ExtendedSlot ==
    ASSUME TypeOK
    PROVE  \A i \in Slots : \A u : Extends(i, u, dMeta, blobs) =>
              u.img_id = dMeta[i].img_id /\ u.is_valid = NON_EMPTY
<1>1. dMeta \in [Slots -> Metadata]
  BY DEF TypeOK
<1> TAKE i \in Slots
<1> TAKE u
<1> HAVE Extends(i, u, dMeta, blobs)
<1> QED
  BY <1>1, ExtendKeeps

\* Extending a slot in the file leaves it the slot of its name, with the offset
\* that was added.
LEMMA FetchedSlot ==
    ASSUME TypeOK, op.slot \in ValidSlots(dMeta), Flush(pend),
           \/ pend = NoWrite /\ metadata[op.slot] = dMeta[op.slot]
           \/ pend = MetaWrite(op.slot, metadata[op.slot]),
           pend.kind = "meta" => Extends(pend.slot, pend.meta, dMeta, blobs)
    PROVE  /\ op.slot \in ValidSlots(dMeta') /\ dMeta'[op.slot].img_id = dMeta[op.slot].img_id
           /\ dMeta'[op.slot].offset = metadata[op.slot].offset /\ blobs' = blobs
<1> DEFINE v == metadata[op.slot]
<1>1. dMeta \in [Slots -> Metadata] /\ op.slot \in Slots
  BY DEF TypeOK, ValidSlots
<1>2. CASE pend = NoWrite /\ v = dMeta[op.slot]
  <2>1. dMeta' = dMeta /\ blobs' = blobs
    BY <1>2, FlushOfNothing
  <2> QED
    BY <1>2, <2>1
<1>3. CASE pend = MetaWrite(op.slot, v)
  <2>1. pend.kind = "meta" /\ pend.slot = op.slot /\ pend.meta = v
    BY <1>3 DEF MetaWrite
  <2>2. Extends(op.slot, v, dMeta, blobs)
    BY <2>1
  <2>3. v.img_id = dMeta[op.slot].img_id /\ v.is_valid = NON_EMPTY
    BY <1>1, <2>2, ExtendedSlot, Zenon
  <2> HIDE DEF v
  <2>4. dMeta' = [dMeta EXCEPT ![op.slot] = v] /\ blobs' = blobs
    BY <2>1 DEF Flush
  <2>5. dMeta'[op.slot] = v /\ op.slot \in ValidSlots(dMeta')
    BY <1>1, <2>3, <2>4 DEF ValidSlots
  <2> QED
    BY <2>3, <2>4, <2>5 DEF v
<1> QED
  BY <1>2, <1>3

\* An image whose offset is set is there to be read, whole.
LEMMA ReadsWhole ==
    ASSUME NEW s \in Seq(Blob), NEW o \in Nat, o # 0, o <= Len(s), s[o].content \in Contents
    PROVE  BytesAt(s, o) = {s[o]}
<1>1. s[o] # Torn
  BY NamesAssumption DEF Torn
<1>2. Len(s) \in Nat
  OBVIOUS
<1> QED
  BY <1>1, <1>2 DEF BytesAt

LEMMA ReadDataFetches ==
    ASSUME TypeOK, LibraryInv, FetchInv, ~ LongLived, stage = "call", Is("read"),
           ReadData, UNCHANGED cmdVars
    PROVE  FetchInv'
<1> DEFINE v == metadata[op.slot]
           o == v.offset[op.res]
           b == [content |-> v.SHA, res |-> op.res]
<1>0. pc = "rd_data" /\ pc \notin {"closed", "done"}
  BY DEF ReadData
<1>1. /\ Fetching /\ formatted /\ before = Pictures /\ op.slot \in Slots /\ op.res \in Res
      /\ v \in Metadata /\ blobs \in Seq(Blob)
      /\ \A n : Arg(n)' = Arg(n)
      /\ ReadResolutions(line') = ReadResolutions(line)
  BY <1>0, FetchFrom
<1>2. CASE \E p, e : e # "ERR_NONE" /\ Return(p, e)
  <2>1. pc' = "done" /\ ret'.code # "ERR_NONE"
    BY <1>2 DEF Return, AfterCall
  <2> QED
    BY <2>1, FetchFails, StillFetching
<1>3. CASE /\ Seek /\ pend' = NoWrite /\ Return(op, "ERR_NONE")
           /\ \E got \in BytesAt(blobs', o) : served' = [id |-> op.id, image |-> got]
  <2>1. /\ op.id = Arg(2) /\ op.res \in ReadResolutions(line)
        /\ (pend = NoWrite /\ v = dMeta[op.slot]) \/ pend = MetaWrite(op.slot, v)
    BY <1>0, <1>1 DEF Fetching
  <2>2. /\ op.slot \in ValidSlots(dMeta) /\ dMeta[op.slot].img_id = Arg(2)
        /\ o # 0 /\ Backed(v, blobs) /\ v.SHA = dMeta[op.slot].SHA
        /\ pend.kind = "meta" => Extends(pend.slot, pend.meta, dMeta, blobs)
        /\ Sound(dMeta, blobs)
    BY <1>0, <2>1 DEF LibraryInv, ImagesInv, Reading
  <2>3. Pictures' = Pictures
    BY <1>1, <1>3, <2>2, FlushShowsNothing DEF LibraryInv, Seek
  <2>4. /\ op.slot \in ValidSlots(dMeta') /\ dMeta'[op.slot].img_id = Arg(2)
        /\ dMeta'[op.slot].offset = v.offset /\ blobs' = blobs
    BY <1>3, <2>1, <2>2, FetchedSlot DEF Seek
  <2>5. v.SHA \in Contents /\ o <= Len(blobs) /\ blobs[o] = b
    BY <1>1, <2>2 DEF Sound, Backed
  <2>6. BytesAt(blobs', o) = {b}
    <3>1. o \in Nat
      BY <1>1 DEF Metadata
    <3>2. blobs[o].content \in Contents
      BY <2>5
    <3> QED
      BY <1>1, <2>2, <2>4, <2>5, <3>1, <3>2, ReadsWhole
  <2>7. pc' = "done" /\ served'.image = b
    BY <1>3, <2>6 DEF Return, AfterCall
  <2>8. before[Arg(2)] = v.SHA
    <3>1. /\ ImageIn(dMeta[op.slot].img_id, dMeta, blobs) = dMeta[op.slot].SHA
          /\ dMeta[op.slot].img_id \in Ids
      BY <2>2, FoundImage
    <3> QED
      BY <1>1, <2>2, <3>1 DEF Pictures, ImagesIn
  <2>9. before' = before /\ before' = Pictures'
    BY <1>1, <2>3 DEF cmdVars
  <2>10. Shown'
    BY <1>1, <2>1, <2>2, <2>4, <2>7, <2>8, <2>9 DEF Shown
  <2>11. Fetching'
    BY <1>3, <2>7, <2>10 DEF Fetching
  <2> QED
    BY <2>7, <2>11, StillFetching
<1>4. \/ \E p, e : e # "ERR_NONE" /\ Return(p, e)
      \/ /\ Seek /\ pend' = NoWrite /\ Return(op, "ERR_NONE")
         /\ \E got \in BytesAt(blobs', o) : served' = [id |-> op.id, image |-> got]
  <2>1. \/ Return(op, "ERR_IO")
        \/ \E e \in {"ERR_IO", "ERR_OUT_OF_MEMORY"} : Return(op, e)
        \/ /\ Seek /\ pend' = NoWrite
           /\ \E got \in BytesAt(blobs', o) :
                 served' = [id |-> op.id, image |-> got] /\ Return(op, "ERR_NONE")
    BY DEF ReadData
  <2> QED
    BY <2>1
<1> QED
  BY <1>2, <1>3, <1>4

\* The steps of the other calls are not those of a read.
LEMMA InCallFetches ==
    ASSUME TypeOK, LibraryInv, FetchInv, ~ LongLived, InCall
    PROVE  FetchInv'
<1>1. stage = "call" /\ UNCHANGED cmdVars /\ pc' # "closed"
  <2>1. \A o, e : Return(o, e) => pc' # "closed"
    BY DEF Return, AfterCall
  <2>2. \A w, next : FwriteOk(w, next) /\ next # "closed" => pc' # "closed"
    BY DEF FwriteOk
  <2> QED
    BY <2>1, <2>2 DEF InCall, InsertBlob, InsertHeader, InsertMeta, DeleteMeta, DeleteHeader,
       ResizeBlob, ResizeMeta, ReadData, WriteHeader, WriteLastHeader, FwriteLast, FwriteFails
<1>2. CASE ~ Is("read")
  BY <1>1, <1>2, StillFetching
<1>3. CASE Is("read")
  <2>1. pc \in {"ready", "rs_load", "rs_meta", "rd_data", "done"}
    BY <1>1, <1>3 DEF FetchInv, Fetching
  <2>2. ResizeBlob \/ ResizeMeta \/ ReadData
    BY <2>1 DEF InCall, InsertBlob, InsertHeader, InsertMeta, DeleteMeta, DeleteHeader,
       WriteHeader, WriteLastHeader
  <2> QED
    BY <1>1, <1>3, <2>2, ResizeFetches, ReadDataFetches
<1> QED
  BY <1>2, <1>3

\* do_close, and the file written from what the call has read.
LEMMA CloseFetches ==
    ASSUME FetchInv, Close \/ ReadImageFails
    PROVE  FetchInv'
<1>1. /\ stage = "call" /\ pc' = "closed" /\ UNCHANGED <<line, before, served, extracted>>
      /\ extracted = NoFile
  BY DEF Close, ReadImageFails, DoClose, Forget, FetchInv, parse
<1>2. CASE stage' = "exit"
  BY <1>1, <1>2 DEF FetchInv, ExtractsStored
<1>3. CASE Close /\ stage' = "extract"
  <2>1. Is("read") /\ pc = "done" /\ ret.code = "ERR_NONE"
    BY <1>3 DEF Close, Returned, Stop
  <2>2. pend = NoWrite /\ Shown
    BY <1>1, <2>1 DEF FetchInv, Fetching
  <2>3. Remains(pend) = {NoWrite}
    BY <2>2 DEF Remains, NoWrite
  <2>4. Flush(pend)
    BY <1>3, <2>2, <2>3 DEF Close, DoClose
  <2>5. dMeta' = dMeta /\ Pictures' = Pictures
    BY <2>2, <2>4, FlushOfNothing
  <2>6. /\ \A command : Is(command)' <=> Is(command)
        /\ \A n : Arg(n)' = Arg(n)
        /\ ReadResolutions(line') = ReadResolutions(line)
    BY <1>1, <1>3, LineStays
  <2>7. Shown'
    BY <1>1, <2>2, <2>5, <2>6 DEF Shown
  <2> QED
    BY <1>1, <1>3, <2>1, <2>6, <2>7 DEF FetchInv, ExtractsStored
<1>4. stage' = "exit" \/ (Close /\ stage' = "extract")
  BY DEF Close, ReadImageFails, Returned, Stop, Proceed
<1> QED
  BY <1>2, <1>3, <1>4

\* do_read_cmd names the file it writes for the one resolution on its line.
LEMMA OneResolution ==
    ASSUME NEW l, NEW r \in ReadResolutions(l), NEW q \in ReadResolutions(l)
    PROVE  r = q /\ r \in Res /\ Suffixes[r + 1] = FileName(Arg(2), r)[2]
<1>1. r = q /\ r \in Res
  BY DEF ReadResolutions, Resolutions, Res
<1>2. \A id : Suffixes[r + 1] = FileName(id, r)[2]
  BY <1>1 DEF Suffixes, FileName, Res, THUMB_RES, SMALL_RES, ORIG_RES
<1> QED
  BY <1>1, <1>2

LEMMA ExtractFetches ==
    ASSUME FetchInv, Extract
    PROVE  FetchInv'
<1>1. /\ stage = "extract" /\ stage' = "exit" /\ pc' = "closed" /\ Is("read") /\ Shown
      /\ UNCHANGED <<line, before>> /\ extracted = NoFile
  BY DEF Extract, Stop, FetchInv, parse, vars
<1>2. \A n : Arg(n)' = Arg(n)
  BY <1>1, LineStays
<1>3. PICK i \in ValidSlots(dMeta), r \in ReadResolutions(line) :
         served.image = [content |-> before[Arg(2)], res |-> r]
  BY <1>1 DEF Shown
<1>4. PICK res \in ReadResolutions(line) :
         \/ extracted' = [name |-> FileName(Arg(2), res), image |-> served.image]
         \/ extracted' = [name |-> FileName(Arg(2), res), image |-> Torn]
         \/ extracted' = extracted
  BY DEF Extract
<1>5. res = r /\ Suffixes[r + 1] = FileName(Arg(2), res)[2] /\ FileName(Arg(2), res)[1] = Arg(2)
  BY OneResolution DEF FileName
<1>6. ExtractsStored'
  BY <1>1, <1>2, <1>3, <1>4, <1>5 DEF ExtractsStored
<1> QED
  BY <1>1, <1>6 DEF FetchInv

LEMMA FetchStep ==
    ASSUME TypeOK, LibraryInv, FetchInv, ~ LongLived, [CmdNext]_<<vars, cmdVars>>
    PROVE  FetchInv'
<1>1. CASE UNCHANGED <<vars, cmdVars>>
  <2>1. /\ UNCHANGED <<stage, line, before, extracted>>
        /\ UNCHANGED <<dMeta, metadata, pend, pc, op, ret, served>>
        /\ Pictures' = Pictures
    BY <1>1, DiskShows DEF vars, disk, memory, cmdVars, parse, outcome
  <2>2. (\A command : Is(command)' <=> Is(command)) /\ (\A n : Arg(n)' = Arg(n))
    BY <2>1 DEF Is, Arg
  <2>3. Shown' <=> Shown
    BY <2>1, <2>2 DEF Shown
  <2>4. Fetching' <=> Fetching
    BY <2>1, <2>2, <2>3 DEF Fetching
  <2> QED
    BY <2>1, <2>2, <2>3, <2>4 DEF FetchInv, ExtractsStored
<1> QED
  BY <1>1, OutsideFetches, CallFetches, InCallFetches, CloseFetches, ExtractFetches DEF CmdNext

\* What a read has found, and what of it is in the file extracted, whatever fails.
THEOREM ReadsFetch ==
    ASSUME ~ LongLived
    PROVE  CmdSpec => []FetchInv
<1>1. CmdSpec => []TypeOK /\ []LibraryInv
  BY CommandsUseLibrary, TypeCorrect, CommandsKeepImages, PTL DEF UsesLibrary
<1>2. CmdInit => FetchInv
  BY DEF CmdInit, Init, FetchInv, ExtractsStored
<1> QED
  BY <1>1, <1>2, FetchStep, PTL DEF CmdSpec

\* The file a read leaves is named for the image asked for and holds it, or a
\* part of it, in the resolution of its name, whatever fails
\* (imgfscmd_functions.c:282-314).
THEOREM FilesExtracted ==
    ASSUME ~ LongLived
    PROVE  CmdSpec => []ExtractsStored
<1>1. FetchInv => ExtractsStored
  BY DEF FetchInv
<1> QED
  BY <1>1, ReadsFetch, PTL

-----------------------------------------------------------------------------
(* What a command has done when nothing fails.                             *)

\* What a command has asked of the library at each point of a call, and what the
\* call has written or answered once it has returned.
Asking ==
    LET v == metadata[op.slot]
    IN /\ pc \in {"ins_blob", "ins_header", "ins_meta"} =>
             Is("insert") /\ v.img_id = Arg(2) /\ v.SHA = Images[Arg(3)]
       /\ pc \in {"del_meta", "del_header"} =>
             Is("delete") /\ dMeta[op.slot].img_id = Arg(2)
       /\ pc \in {"rs_load", "rs_meta", "rd_data"} => Is("read")

Failed == ret.code # "ERR_NONE" => pend = NoWrite /\ before = Pictures
Succeeded ==
    ret.code = "ERR_NONE" =>
        /\ Is("create") => pend = FormatWrite /\ ValidSlots(dMeta) = {}
        /\ Is("insert") => /\ pend.kind = "meta" /\ pend.meta.is_valid = NON_EMPTY
                           /\ pend.meta.img_id = Arg(2) /\ pend.meta.SHA = Images[Arg(3)]
        /\ Is("delete") => /\ pend.kind = "header"
                           /\ \A i \in ValidSlots(dMeta) : dMeta[i].img_id # Arg(2)
        /\ Is("read") => pend = NoWrite

\* Until a call returns the images are those it found; then its last write is in
\* the buffer, and what it was asked for is done once that is written out.
CallInv ==
    /\ stage = "call" <=> pc # "closed"
    /\ stage = "options" => Is("create")
    /\ stage \in {"options", "open"} \/ pc \notin {"closed", "done"} => before = Pictures
    /\ Asking
    /\ pc = "done" => Failed /\ Succeeded
    /\ CommandDone
    /\ stage = "exit" /\ code # "ERR_NONE" => before = Pictures

\* main and the option loop call nothing.
LEMMA MainCalls ==
    ASSUME CallInv, NEW l \in Lines \cup FirstLines, Main(l)
    PROVE  CallInv'
<1>1. /\ stage = "idle" /\ pc' = "closed" /\ line' = l
      /\ Pictures' = Pictures /\ before' = Pictures /\ UNCHANGED vars
  <2>1. stage = "idle" /\ line' = l /\ UNCHANGED vars
    BY DEF Main
  <2>2. pc = "closed"
    BY <2>1 DEF CallInv
  <2>3. Pictures' = Pictures
    BY <2>1, DiskShows DEF vars
  <2> QED
    BY <2>1, <2>2, <2>3, StoredPictures DEF Main, vars
<1>2. /\ stage' \in {"options", "open", "exit"}
      /\ stage' = "options" => l # <<>> /\ l[1] = "create"
      /\ stage' = "exit" => code' # "ERR_NONE" \/ (l # <<>> /\ l[1] = "help")
  BY DEF Main, Stop, Proceed, ListArguments, CreateArguments, DeleteArguments,
     InsertArguments, ReadArguments
<1> QED
  BY <1>1, <1>2 DEF CallInv, Asking, Is, CommandDone

LEMMA OptionsCalls ==
    ASSUME CallInv, Options
    PROVE  CallInv'
<1>1. /\ stage = "options" /\ stage' \in {"options", "exit"}
      /\ stage' = "exit" => code' # "ERR_NONE"
      /\ UNCHANGED <<vars, line, before>>
  BY DEF Options, MaxFilesOption, ThumbOption, SmallOption, UnknownOption, TakeOption,
     Stop, parse
<1>2. pc' = "closed" /\ Pictures' = Pictures
  BY <1>1, DiskShows DEF CallInv, vars
<1>3. Is("create")' <=> Is("create")
  BY <1>1, LineStays
<1> QED
  BY <1>1, <1>2, <1>3 DEF CallInv, Asking, CommandDone

LEMMA CreateCalls ==
    ASSUME CallInv, ~ LongLived, ~ Faults, CreateCall
    PROVE  CallInv'
<1>0. stage = "options" /\ pc = "closed" /\ Is("create") /\ line' = line
      /\ opts' = opts /\ before' = before /\ before = Pictures
  BY DEF CreateCall, CallInv, parse
<1>1. CASE opts.max_files # MaxFiles
  <2>1. stage' = "exit" /\ code' = "ERR_NONE" /\ pc' = "closed"
    BY <1>0, <1>1 DEF CreateCall, Stop, vars
  <2> QED
    BY <1>0, <1>1, <2>1 DEF CallInv, Asking, Is, CommandDone
<1>2. CASE DoCreate /\ Proceed("call")
  <2>1. /\ stage' = "call" /\ pc' = "done" /\ ret'.code = "ERR_NONE" /\ pend' = FormatWrite
        /\ dMeta' = EmptyTable
    BY <1>2 DEF DoCreate, CreateFails, Truncate, Proceed, Return, AfterCall
  <2>2. ValidSlots(dMeta') = {}
    BY <2>1 DEF ValidSlots, EmptyTable, EmptyMetadata, EMPTY, NON_EMPTY
  <2> QED
    BY <1>0, <2>1, <2>2 DEF CallInv, Asking, Failed, Succeeded, Is, CommandDone
<1> QED
  BY <1>1, <1>2 DEF CreateCall

LEMMA OpenCalls ==
    ASSUME CallInv, Open
    PROVE  CallInv'
<1>1. /\ stage = "open" /\ pc = "closed" /\ UNCHANGED <<disk, line, before>>
      /\ before = Pictures
  BY DEF Open, DoOpen, CallInv, parse
<1>2. \/ pc' = "ready" /\ stage' = "call"
      \/ pc' = "closed" /\ stage' = "exit" /\ code' # "ERR_NONE"
  BY <1>1 DEF Open, DoOpen, Proceed, Stop
<1>3. Pictures' = Pictures
  BY <1>1, DiskShows
<1> QED
  BY <1>1, <1>2, <1>3 DEF CallInv, Asking, CommandDone

LEMMA ReadImageFailsCalls ==
    ASSUME LibraryInv, CallInv, ~ Faults, ReadImageFails
    PROVE  CallInv'
<1>1. /\ stage = "call" /\ pc = "ready" /\ stage' = "exit" /\ pc' = "closed" /\ Flush(pend)
      /\ code' # "ERR_NONE" /\ UNCHANGED <<line, before>>
  BY DEF ReadImageFails, DoClose, Forget, Stop, parse
<1>2. pend = NoWrite
  BY <1>1 DEF LibraryInv, CommandInv, NothingPending
<1>3. Pictures' = Pictures
  BY <1>1, <1>2, FlushOfNothing
<1> QED
  BY <1>1, <1>3 DEF CallInv, Asking, CommandDone

\* While the call goes on, and once it has returned.
LEMMA StillCalling ==
    ASSUME CallInv, stage = "call", UNCHANGED cmdVars, pc' \notin {"closed", "done"},
           Pictures' = Pictures, before = Pictures, Asking'
    PROVE  CallInv'
BY DEF CallInv, cmdVars, parse, outcome, CommandDone

LEMMA CallReturned ==
    ASSUME CallInv, stage = "call", UNCHANGED cmdVars, pc' = "done", Failed', Succeeded'
    PROVE  CallInv'
BY DEF CallInv, cmdVars, parse, outcome, Asking, CommandDone

LEMMA CallFailed ==
    ASSUME CallInv, stage = "call", UNCHANGED cmdVars, pc' = "done", pend' = NoWrite,
           Pictures' = Pictures, before = Pictures, ret'.code # "ERR_NONE"
    PROVE  CallInv'
<1>1. Failed' /\ Succeeded'
  BY DEF Failed, Succeeded, cmdVars
<1> QED
  BY <1>1, CallReturned

\* do_insert names the slot it fills for the image it is given.
LEMMA DedupNames ==
    ASSUME NEW m \in [Slots -> Metadata], NEW i \in Slots, NEW id, NEW c, NEW valid,
           NEW n, n = Dedup(Filled(m, i, id, c, valid), i)
    PROVE  n[i].img_id = id /\ n[i].SHA = c
<1> DEFINE f == Filled(m, i, id, c, valid)
<1>1. f[i].img_id = id /\ f[i].SHA = c /\ DOMAIN f = Slots
      /\ f[i] = [img_id |-> id, SHA |-> c, offset |-> NoOffset, is_valid |-> valid]
  BY DEF Filled
<1>2. \A o : LET e == [f EXCEPT ![i].offset = o] IN e[i].img_id = id /\ e[i].SHA = c
  BY <1>1
<1> HIDE DEF f
<1>3. n = f \/ \E o : n = [f EXCEPT ![i].offset = o]
  BY DEF Dedup, f
<1> QED
  BY <1>1, <1>2, <1>3

LEMMA CallCalls ==
    ASSUME TypeOK, LibraryInv, CallInv, ~ LongLived, Call
    PROVE  CallInv'
<1>1. /\ stage = "call" /\ pc = "ready" /\ UNCHANGED cmdVars /\ pend = NoWrite
      /\ before = Pictures /\ metadata = dMeta /\ dMeta \in [Slots -> Metadata]
  BY DEF Call, LibraryInv, CommandInv, NothingPending, Loaded, CallInv, TypeOK
<1>2. line' = line /\ stage' = stage
  BY <1>1 DEF cmdVars, parse
<1>3. /\ \A command : Is(command)' <=> Is(command)
      /\ \A n : Arg(n)' = Arg(n)
      /\ ReadResolutions(line') = ReadResolutions(line)
  BY <1>1, <1>2, LineStays
<1>4. ASSUME UNCHANGED <<disk, pend>>, NEW o, NEW c, c # "ERR_NONE", Return(o, c)
      PROVE  CallInv'
  <2>1. pc' = "done" /\ pend' = NoWrite /\ ret'.code # "ERR_NONE" /\ Pictures' = Pictures
    BY <1>1, <1>4, DiskShows DEF Return, AfterCall
  <2> QED
    BY <1>1, <2>1, CallFailed
<1>5. CASE Is("list") /\ DoList
  <2>1. pc' = "done" /\ ret'.code = "ERR_NONE" /\ UNCHANGED <<disk, pend>>
    BY <1>5 DEF DoList, Return, AfterCall
  <2>2. Failed' /\ Succeeded'
    BY <1>3, <1>5, <2>1 DEF Failed, Succeeded, Is
  <2> QED
    BY <1>1, <2>1, <2>2, CallReturned
<1>6. CASE Is("delete") /\ DoDelete(Arg(2))
  <2>1. UNCHANGED <<disk, pend, metadata>>
    BY <1>6 DEF DoDelete, memory
  <2>2. CASE \E o : Return(o, "ERR_IMAGE_NOT_FOUND")
    BY <1>4, <2>1, <2>2
  <2>3. CASE /\ pc' = "del_meta"
             /\ \E i \in Slots : Holds(i, Arg(2)) /\ op'.slot = i
    <3>1. UNCHANGED dMeta /\ dMeta[op'.slot].img_id = Arg(2)
      BY <1>1, <2>1, <2>3 DEF disk, Holds
    <3>2. Asking'
      BY <1>3, <1>6, <2>3, <3>1 DEF Asking
    <3>3. Pictures' = Pictures
      BY <2>1, DiskShows
    <3> QED
      BY <1>1, <2>3, <3>2, <3>3, StillCalling
  <2>4. (\E o : Return(o, "ERR_IMAGE_NOT_FOUND"))
        \/ (pc' = "del_meta" /\ \E i \in Slots : Holds(i, Arg(2)) /\ op'.slot = i)
    BY <1>6 DEF DoDelete, NoOp
  <2> QED
    BY <2>2, <2>3, <2>4
<1>7. CASE Is("insert") /\ Arg(3) \in DOMAIN Images /\ DoInsert(Arg(2), Images[Arg(3)])
  <2> DEFINE id == Arg(2)
             c == Images[Arg(3)]
  <2>1. UNCHANGED <<disk, pend>> /\ Pictures' = Pictures
    BY <1>7, DiskShows DEF DoInsert
  <2>2. CASE \E o : \E e \in {"ERR_IMGFS_FULL", "ERR_IMGLIB", "ERR_DUPLICATE_ID"} : Return(o, e)
    BY <1>4, <2>1, <2>2
  <2>3. CASE pc' = "overrun"
    BY <1>1, <2>1, <2>3, StillCalling DEF Asking
  <2>4. CASE \E i \in Slots : /\ metadata' = Dedup(Filled(metadata, i, id, c, NON_EMPTY), i)
                              /\ op'.slot = i /\ pc' \in {"ins_blob", "ins_header"}
    <3>1. PICK i \in Slots : /\ metadata' = Dedup(Filled(metadata, i, id, c, NON_EMPTY), i)
                             /\ op'.slot = i /\ pc' \in {"ins_blob", "ins_header"}
      BY <2>4
    <3>2. metadata'[i].img_id = id /\ metadata'[i].SHA = c
      BY <1>1, <3>1, DedupNames
    <3>3. Asking'
      BY <1>3, <1>7, <3>1, <3>2 DEF Asking
    <3> QED
      BY <1>1, <2>1, <3>1, <3>3, StillCalling
  <2>5. \/ \E o : \E e \in {"ERR_IMGFS_FULL", "ERR_IMGLIB", "ERR_DUPLICATE_ID"} : Return(o, e)
        \/ pc' = "overrun"
        \/ \E i \in Slots : /\ metadata' = Dedup(Filled(metadata, i, id, c, NON_EMPTY), i)
                            /\ op'.slot = i /\ pc' \in {"ins_blob", "ins_header"}
    BY <1>7 DEF DoInsert, NoOp
  <2> QED
    BY <2>2, <2>3, <2>4, <2>5
<1>8. CASE Is("read") /\ \E res \in ReadResolutions(line) : DoRead(Arg(2), res)
  <2>0. PICK res \in ReadResolutions(line) : DoRead(Arg(2), res)
    BY <1>8
  <2>1. UNCHANGED <<disk, pend, metadata>> /\ Pictures' = Pictures
    BY <2>0, DiskShows DEF DoRead, memory
  <2>2. CASE \E o : \E e \in {"ERR_IMAGE_NOT_FOUND", "ERR_RESOLUTIONS"} : Return(o, e)
    BY <1>4, <2>1, <2>2
  <2>3. CASE pc' \in {"rs_load", "rd_data"}
    <3>1. Asking'
      BY <1>3, <1>8, <2>3 DEF Asking
    <3> QED
      BY <1>1, <2>1, <2>3, <3>1, StillCalling
  <2>4. \/ \E o : \E e \in {"ERR_IMAGE_NOT_FOUND", "ERR_RESOLUTIONS"} : Return(o, e)
        \/ pc' \in {"rs_load", "rd_data"}
    BY <2>0 DEF DoRead
  <2> QED
    BY <2>2, <2>3, <2>4
<1> QED
  BY <1>5, <1>6, <1>7, <1>8 DEF Call

\* What the rest of a call starts from.
LEMMA InCallFrom ==
    ASSUME TypeOK, LibraryInv, CallInv, stage = "call", pc \notin {"closed", "done"},
           UNCHANGED cmdVars
    PROVE  /\ formatted /\ before = Pictures /\ op.slot \in Slots /\ op.res \in Res
           /\ metadata \in [Slots -> Metadata] /\ dMeta \in [Slots -> Metadata]
           /\ metadata[op.slot] \in Metadata /\ blobs \in Seq(Blob)
           /\ \A command : Is(command)' <=> Is(command)
           /\ \A n : Arg(n)' = Arg(n)
           /\ ReadResolutions(line') = ReadResolutions(line)
<1>1. line' = line /\ stage' = stage
  BY DEF cmdVars, parse
<1> QED
  BY <1>1, LineStays DEF TypeOK, Op, LibraryInv, ImagesInv, Formatting, CallInv

LEMMA InsertStepsCall ==
    ASSUME TypeOK, LibraryInv, CallInv, ~ LongLived, ~ Faults, stage = "call",
           InsertBlob \/ InsertHeader \/ InsertMeta, UNCHANGED cmdVars
    PROVE  CallInv'
<1> DEFINE v == metadata[op.slot]
<1>0. pc \notin {"closed", "done"} /\ pc \in {"ins_blob", "ins_header", "ins_meta"} /\ Seek
  BY DEF InsertBlob, InsertHeader, InsertMeta, WriteHeader, SeekFails
<1>1. /\ formatted /\ before = Pictures /\ op.slot \in Slots
      /\ metadata \in [Slots -> Metadata] /\ v \in Metadata
      /\ \A command : Is(command)' <=> Is(command)
      /\ \A n : Arg(n)' = Arg(n)
  BY <1>0, InCallFrom
<1>2. Is("insert") /\ v.img_id = Arg(2) /\ v.SHA = Images[Arg(3)]
  BY <1>0 DEF CallInv, Asking
<1>3. pend.kind # "meta"
  BY <1>0 DEF LibraryInv, CommandInv, NothingPending, Inserting, NoWrite, HeaderWrite
<1>4. Pictures' = Pictures
  BY <1>0, <1>1, <1>3, FlushShowsNothing DEF LibraryInv, Seek
<1>5. CASE InsertBlob
  <2> DEFINE w == BlobWrite(End(blobs'), [content |-> op.content, res |-> ORIG_RES])
  <2>1. metadata' = [metadata EXCEPT ![op.slot].offset[ORIG_RES] = w.at]
        /\ pc' = "ins_header" /\ op' = op
    BY <1>5 DEF InsertBlob, SeekFails, FwriteOk, FwriteFails
  <2> HIDE DEF w
  <2>2. metadata'[op.slot].img_id = v.img_id /\ metadata'[op.slot].SHA = v.SHA
    BY <1>1, <2>1 DEF Metadata
  <2>3. Asking'
    BY <1>1, <1>2, <2>1, <2>2 DEF Asking
  <2> QED
    BY <1>1, <1>4, <2>1, <2>3, StillCalling
<1>6. CASE InsertHeader
  <2>1. metadata' = metadata /\ pc' = "ins_meta" /\ op' = op
    BY <1>6 DEF InsertHeader, WriteHeader, SeekFails, FwriteOk, FwriteFails
  <2>2. Asking'
    BY <1>1, <1>2, <2>1 DEF Asking
  <2> QED
    BY <1>1, <1>4, <2>1, <2>2, StillCalling
<1>7. CASE InsertMeta
  <2>1. pend' = MetaWrite(op.slot, v) /\ pc' = "done" /\ ret'.code = "ERR_NONE"
    BY <1>7 DEF InsertMeta, SeekFails, FwriteLast, FwriteFails, Return, AfterCall
  <2>2. v.is_valid = NON_EMPTY
    BY <1>7 DEF InsertMeta, LibraryInv, ImagesInv, Filling, Inserts, Names
  <2>3. pend'.kind = "meta" /\ pend'.meta = v
    BY <2>1 DEF MetaWrite
  <2>4. Failed' /\ Succeeded'
    BY <1>1, <1>2, <2>1, <2>2, <2>3 DEF Failed, Succeeded, Is
  <2> QED
    BY <2>1, <2>4, CallReturned
<1> QED
  BY <1>5, <1>6, <1>7

LEMMA DeleteStepsCall ==
    ASSUME TypeOK, LibraryInv, CallInv, ~ LongLived, ~ Faults, stage = "call",
           DeleteMeta \/ DeleteHeader, UNCHANGED cmdVars
    PROVE  CallInv'
<1>0. pc \notin {"closed", "done"} /\ pc \in {"del_meta", "del_header"} /\ Seek
  BY DEF DeleteMeta, DeleteHeader, WriteLastHeader, SeekFails
<1>1. /\ formatted /\ before = Pictures /\ op.slot \in Slots
      /\ dMeta \in [Slots -> Metadata]
      /\ \A command : Is(command)' <=> Is(command)
      /\ \A n : Arg(n)' = Arg(n)
  BY <1>0, InCallFrom
<1>2. Is("delete") /\ dMeta[op.slot].img_id = Arg(2) /\ dMeta[op.slot].is_valid = NON_EMPTY
  BY <1>0 DEF CallInv, Asking, LibraryInv, CommandInv, Deleting
<1>3. CASE DeleteMeta
  <2>1. pend = NoWrite /\ pc' = "del_header" /\ op' = op
    BY <1>3 DEF DeleteMeta, SeekFails, FwriteOk, FwriteFails, LibraryInv, CommandInv,
       NothingPending
  <2>2. dMeta' = dMeta /\ Pictures' = Pictures
    BY <1>0, <2>1, FlushOfNothing DEF Seek
  <2>3. Asking'
    BY <1>1, <1>2, <2>1, <2>2 DEF Asking
  <2> QED
    BY <1>1, <2>1, <2>2, <2>3, StillCalling
<1>4. CASE DeleteHeader
  <2>1. pend'.kind = "header" /\ pc' = "done" /\ ret'.code = "ERR_NONE"
    BY <1>4 DEF DeleteHeader, WriteLastHeader, SeekFails, FwriteLast, FwriteFails, HeaderWrite,
       Return, AfterCall
  <2>2. pend.kind = "meta" /\ pend.slot = op.slot /\ pend.meta.is_valid = EMPTY
    BY <1>4 DEF DeleteHeader, WriteLastHeader, LibraryInv, CommandInv, Deleting
  <2>3. dMeta' = [dMeta EXCEPT ![op.slot] = pend.meta]
    BY <1>0, <2>2 DEF Seek, Flush
  <2>4. ASSUME NEW i \in ValidSlots(dMeta')
        PROVE  dMeta'[i].img_id # Arg(2)
    <3>1. i \in Slots /\ i # op.slot
      BY <1>1, <2>2, <2>3 DEF ValidSlots, EMPTY, NON_EMPTY
    <3>2. dMeta'[i] = dMeta[i] /\ i \in ValidSlots(dMeta) /\ op.slot \in ValidSlots(dMeta)
      BY <1>1, <1>2, <2>3, <3>1 DEF ValidSlots
    <3>3. i < op.slot \/ op.slot < i
      BY <1>1, <3>1 DEF Slots
    <3> QED
      BY <1>1, <1>2, <3>1, <3>2, <3>3 DEF LibraryInv, ImagesInv, Sound
  <2>5. Failed' /\ Succeeded'
    BY <1>1, <1>2, <2>1, <2>4 DEF Failed, Succeeded, Is
  <2> QED
    BY <2>1, <2>5, CallReturned
<1> QED
  BY <1>3, <1>4

\* A read leaves nothing in the buffer, and shows nothing of what it has written.
LEMMA ReadStepsCall ==
    ASSUME TypeOK, LibraryInv, CallInv, ~ LongLived, ~ Faults, stage = "call",
           ResizeBlob \/ ResizeMeta \/ ReadData, UNCHANGED cmdVars
    PROVE  CallInv'
<1>0. pc \notin {"closed", "done"} /\ pc \in {"rs_load", "rs_meta", "rd_data"} /\ Seek
  BY DEF ResizeBlob, ResizeMeta, ReadData, SeekFails
<1>1. /\ formatted /\ before = Pictures
      /\ \A command : Is(command)' <=> Is(command)
  BY <1>0, InCallFrom
<1>2. Is("read")
  BY <1>0 DEF CallInv, Asking
<1>3. pend.kind = "meta" => Extends(pend.slot, pend.meta, dMeta, blobs)
  BY <1>0 DEF LibraryInv, CommandInv, NothingPending, ImagesInv, Reading, NoWrite
<1>4. Pictures' = Pictures
  BY <1>0, <1>1, <1>3, FlushShowsNothing DEF LibraryInv, Seek
<1>5. CASE pc' \in {"rs_meta", "rd_data"}
  <2>1. Asking'
    BY <1>1, <1>2, <1>5 DEF Asking
  <2> QED
    BY <1>1, <1>4, <1>5, <2>1, StillCalling
<1>6. CASE pc' = "done" /\ pend' = NoWrite
  <2>1. before' = before
    BY DEF cmdVars
  <2>2. Failed' /\ Succeeded'
    BY <1>1, <1>2, <1>4, <1>6, <2>1 DEF Failed, Succeeded, Is
  <2> QED
    BY <1>6, <2>2, CallReturned
<1>7. pc' \in {"rs_meta", "rd_data"} \/ (pc' = "done" /\ pend' = NoWrite)
  BY DEF ResizeBlob, ResizeMeta, ReadData, SeekFails, FwriteOk, FwriteFails, Return, AfterCall
<1> QED
  BY <1>5, <1>6, <1>7

\* do_close writes out what the call left in the buffer.
LEMMA CloseCalls ==
    ASSUME TypeOK, CallInv, ~ Faults, Close
    PROVE  CallInv'
<1>1. /\ stage = "call" /\ pc = "done" /\ pc' = "closed" /\ Flush(pend)
      /\ UNCHANGED <<line, opts, before>>
      /\ Failed /\ Succeeded /\ dMeta \in [Slots -> Metadata] /\ pend \in Write
  BY DEF Close, DoClose, Forget, parse, CallInv, TypeOK
<1>2. stage' # "idle" /\ stage # "idle"
  BY <1>1 DEF Close, Returned, Proceed, Stop
<1>3. /\ \A command : Is(command)' <=> Is(command)
      /\ \A n : Arg(n)' = Arg(n)
      /\ ReadResolutions(line') = ReadResolutions(line)
  BY <1>1, <1>2, LineStays
<1>4. CASE ret.code # "ERR_NONE"
  <2>1. stage' = "exit" /\ code' = ret.code
    BY <1>4 DEF Close, Returned, Stop
  <2>2. Pictures' = Pictures /\ before = Pictures
    BY <1>1, <1>4, FlushOfNothing DEF Failed
  <2> QED
    BY <1>1, <1>4, <2>1, <2>2 DEF CallInv, Asking, CommandDone
<1>5. CASE ret.code = "ERR_NONE" /\ Is("read")
  <2>1. stage' = "extract"
    BY <1>5 DEF Close, Returned, Proceed
  <2> QED
    BY <1>1, <2>1 DEF CallInv, Asking, CommandDone
<1>6. CASE ret.code = "ERR_NONE" /\ ~ Is("read")
  <2>1. stage' = "exit" /\ code' = "ERR_NONE"
    BY <1>6 DEF Close, Returned, Stop
  <2>2. Is("create") => formatted' /\ ValidSlots(dMeta') = {}
    <3> SUFFICES ASSUME Is("create") PROVE formatted' /\ ValidSlots(dMeta') = {}
      OBVIOUS
    <3>1. pend.kind = "format" /\ ValidSlots(dMeta) = {}
      BY <1>1, <1>6 DEF Succeeded, FormatWrite
    <3>2. formatted'
      BY <1>1, <3>1, Zenon DEF Flush
    <3>3. dMeta' = dMeta
      BY <1>1, <3>1 DEF Flush
    <3> QED
      BY <3>1, <3>2, <3>3
  <2>3. Is("insert") => \E i \in ValidSlots(dMeta') : /\ dMeta'[i].img_id = Arg(2)
                                                    /\ dMeta'[i].SHA = Images[Arg(3)]
    <3> SUFFICES ASSUME Is("insert")
                 PROVE  \E i \in ValidSlots(dMeta') : /\ dMeta'[i].img_id = Arg(2)
                                                     /\ dMeta'[i].SHA = Images[Arg(3)]
      OBVIOUS
    <3>1. /\ pend.kind = "meta" /\ pend.meta.is_valid = NON_EMPTY
          /\ pend.meta.img_id = Arg(2) /\ pend.meta.SHA = Images[Arg(3)]
      BY <1>1, <1>6 DEF Succeeded
    <3>2. pend.slot \in Slots
      BY <1>1, <3>1 DEF Write, NoWrite, FormatWrite
    <3>3. dMeta' = [dMeta EXCEPT ![pend.slot] = pend.meta]
      BY <1>1, <3>1 DEF Flush
    <3>4. dMeta'[pend.slot] = pend.meta
      BY <1>1, <3>2, <3>3
    <3> QED
      BY <3>1, <3>2, <3>4 DEF ValidSlots
  <2>4. Is("delete") => \A i \in ValidSlots(dMeta') : dMeta'[i].img_id # Arg(2)
    BY <1>1, <1>6 DEF Succeeded, Flush
  <2>5. CommandDone'
    BY <1>1, <1>3, <1>6, <2>1, <2>2, <2>3, <2>4 DEF CommandDone
  <2> QED
    BY <1>1, <1>3, <1>6, <2>1, <2>5 DEF CallInv, Asking
<1> QED
  BY <1>4, <1>5, <1>6

LEMMA ExtractCalls ==
    ASSUME CallInv, FetchInv, Extract
    PROVE  CallInv'
<1>1. /\ stage = "extract" /\ stage' = "exit" /\ pc' = "closed" /\ Is("read") /\ Shown
      /\ UNCHANGED <<disk, line, before>> /\ Pictures' = Pictures
  BY DiskShows DEF Extract, Stop, FetchInv, CallInv, parse, vars
<1>2. /\ \A command : Is(command)' <=> Is(command)
      /\ \A n : Arg(n)' = Arg(n)
      /\ ReadResolutions(line') = ReadResolutions(line)
  BY <1>1, LineStays
<1>3. CommandDone'
  BY <1>1, <1>2 DEF CommandDone, Shown, Is, disk
<1> QED
  BY <1>1, <1>3 DEF CallInv, Asking, Shown

LEMMA CallStep ==
    ASSUME TypeOK, LibraryInv, CallInv, FetchInv, ~ LongLived, ~ Faults, [CmdNext]_<<vars, cmdVars>>
    PROVE  CallInv'
<1>1. CASE \E l \in Lines \cup FirstLines : Main(l)
  BY <1>1, MainCalls
<1>2. CASE Options \/ CreateCall \/ Open \/ ReadImageFails \/ Call
  BY <1>2, OptionsCalls, CreateCalls, OpenCalls, ReadImageFailsCalls, CallCalls
<1>3. CASE InCall
  BY <1>3, InsertStepsCall, DeleteStepsCall, ReadStepsCall DEF InCall
<1>4. CASE Close \/ Extract
  BY <1>4, CloseCalls, ExtractCalls
<1>5. CASE MainReturns
  <2>1. stage' = "idle" /\ pc' = "closed"
    BY <1>5 DEF MainReturns, CallInv, vars
  <2> QED
    BY <2>1 DEF CallInv, Asking, CommandDone
<1>6. CASE UNCHANGED <<vars, cmdVars>>
  <2>1. /\ UNCHANGED <<stage, line, opts, before, code>>
        /\ UNCHANGED <<dMeta, metadata, pend, pc, op, ret, formatted>>
        /\ Pictures' = Pictures
    BY <1>6, DiskShows DEF vars, disk, memory, cmdVars, parse, outcome
  <2>2. (\A command : Is(command)' <=> Is(command)) /\ (\A n : Arg(n)' = Arg(n))
    BY <2>1 DEF Is, Arg
  <2>3. Asking' /\ (Failed' <=> Failed)
    BY <2>1, <2>2 DEF CallInv, Asking, Failed
  <2>4. Succeeded' <=> Succeeded
    BY <2>1, <2>2, <2>3 DEF Succeeded
  <2>5. CommandDone'
    BY <2>1, <2>2 DEF CallInv, CommandDone
  <2> QED
    BY <2>1, <2>2, <2>3, <2>4, <2>5 DEF CallInv
<1> QED
  BY <1>1, <1>2, <1>3, <1>4, <1>5, <1>6 DEF CmdNext

\* Every point of every command knows what the command has asked for and what of
\* it is done (imgfscmd_functions.c:96-341).
THEOREM CommandsAnswer ==
    ASSUME ~ LongLived, ~ Faults
    PROVE  CmdSpec => []CallInv
<1>1. CmdSpec => []TypeOK /\ []LibraryInv
  BY CommandsUseLibrary, TypeCorrect, CommandsKeepImages, PTL DEF UsesLibrary
<1>2. CmdInit => CallInv
  BY DEF CmdInit, Init, CallInv, Asking, CommandDone
<1> QED
  BY <1>1, <1>2, ReadsFetch, CallStep, PTL DEF CmdSpec

\* A command that says it has succeeded has done what its line asks: the image
\* inserted is in the file under its name, the one deleted is not.
THEOREM CommandsDo ==
    ASSUME ~ LongLived, ~ Faults
    PROVE  CmdSpec => []CommandDone
<1>1. CallInv => CommandDone
  BY DEF CallInv
<1> QED
  BY <1>1, CommandsAnswer, PTL

\* A command that fails leaves every image as it found it.
THEOREM FailuresKeep ==
    ASSUME ~ LongLived, ~ Faults
    PROVE  CmdSpec => []FailureChangesNothing
<1>1. CallInv => FailureChangesNothing
  BY StoredPictures DEF CallInv, FailureChangesNothing
<1> QED
  BY <1>1, CommandsAnswer, PTL
=============================================================================
