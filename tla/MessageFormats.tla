--------------------------- MODULE MessageFormats ---------------------------
(***************************************************************************)
(* The builders and parsers of the protocol's messages (mpb.cpp).  A       *)
(* message is a sequence of bytes, a byte one of Base values, so that a    *)
(* number of n bytes wraps at Base^n as it does at 256^n.  Challenges,     *)
(* hashes and GUIDs, which are only copied, are a single byte.             *)
(*                                                                         *)
(* Somebody builds a message, of one record or of several, and somebody    *)
(* parses it.  A message that comes from elsewhere may be shorter than its *)
(* fields need: one that was built here and then cut stands for it.  What  *)
(* has been read is a function on the fields that were there: a field that *)
(* is absent keeps the default of the parser.  Looking past the end of a   *)
(* message gives the value Base, which no byte has.                        *)
(***************************************************************************)
EXTENDS Integers, SequencesExt, TLC

CONSTANTS Base,        \* values of a byte
          Texts,       \* names, licences, chat: strings of bytes other than 0
          Numbers,     \* values that callers put into fields of several bytes
          Smalls,      \* and into fields that hold a byte
          FieldSizes,  \* mpisize of the channel info: 4 unless somebody sets it
          MaxRecords   \* bound: records in a message

ASSUME FormatsAssumption ==
  /\ Base \in Nat /\ Base % 2 = 0 /\ Base > 0 /\ MaxRecords \in Nat
  /\ Texts \subseteq Seq(1 .. Base - 1)
  /\ Numbers \subseteq Int /\ Smalls \subseteq Int /\ FieldSizes \subseteq 0 .. Base ^ 2 - 1

VARIABLES kind,     \* of the message
          mpisize,  \* of the channel info that is built
          given,    \* the fields of each record, as its builder was called
          bytes,    \* the message
          shortened,      \* it is shorter than it was built
          reading,  \* 0 while it is built, then where the next record is; -1: done
          read      \* the records that were parsed

formatVars == <<kind, mpisize, given, bytes, shortened, reading, read>>

NULL == <<0>>    \* a pointer to no string

(* Bytes.                                                                  *)
Number(v, n)  == [i \in 1 .. n |-> (v \div Base ^ (i - 1)) % Base]
Text(s)       == IF s = NULL THEN <<0>> ELSE Append(s, 0)
Byte(b, i)    == IF i \in DOMAIN b THEN b[i] ELSE Base
Unsigned(b, at, n) == FoldRight(LAMBDA x, v : x + Base * v, [i \in 1 .. n |-> Byte(b, at + i - 1)], 0)
Signed(b, at, n)   == LET v == Unsigned(b, at, n) IN
                      IF 2 * v >= Base ^ n THEN v - Base ^ n ELSE v
TextEnd(b, at) == SelectInSubSeq(b, at, Len(b), LAMBDA x : x = 0)
HasText(b, at) == TextEnd(b, at) > 0
TextAt(b, at)  == SubSeq(b, at, TextEnd(b, at) - 1)
Clamp(v, lo, hi) == IF v < lo THEN lo ELSE IF v > hi THEN hi ELSE v
Pan(v) == Clamp(v, -(Base \div 2), Base \div 2 - 1)

Refused == [fields |-> <<>>, next |-> -1]
Only(fields) == [fields |-> fields, next |-> 0]
-----------------------------------------------------------------------------
(* Messages of the server.                                                 *)

BuildChallenge(f) ==
  <<f.challenge>> \o Number((f.caps - (f.caps % 2)) + (IF f.license = NULL THEN 0 ELSE 1), 4)
  \o Number(f.version, 4) \o (IF f.license = NULL THEN <<>> ELSE Text(f.license))

ParseChallenge(b) ==
  IF Len(b) < 9 THEN Refused
  ELSE Only([challenge |-> b[1], caps |-> Signed(b, 2, 4), version |-> Signed(b, 6, 4)]
            @@ IF Signed(b, 2, 4) % 2 = 1 /\ HasText(b, 10)
                 THEN [license |-> TextAt(b, 10)] ELSE <<>>)

BuildReply(f) ==
  <<f.flag>> \o (IF f.errmsg = NULL THEN <<>> ELSE Text(f.errmsg) \o <<f.maxchan>>)

ParseReply(b) ==
  IF Len(b) < 1 THEN Refused
  ELSE Only([flag |-> b[1]]
            @@ (IF HasText(b, 2) THEN [errmsg |-> TextAt(b, 2)] ELSE <<>>)
            @@ (IF HasText(b, 2) /\ TextEnd(b, 2) < Len(b)
                  THEN [maxchan |-> b[TextEnd(b, 2) + 1]] ELSE <<>>))

BuildConfig(f) == Number(f.bpm, 2) \o Number(f.bpi, 2)

ParseConfig(b) ==
  IF Len(b) < 4 THEN Refused
  ELSE Only([bpm |-> Unsigned(b, 1, 2), bpi |-> Unsigned(b, 3, 2)])

AddUserInfo(f) ==
  <<IF f.isActive = 0 THEN 0 ELSE 1, Clamp(f.channelid, 0, Base - 1)>>
  \o Number(f.volume, 2) \o Number(Pan(f.pan), 1) \o Number(f.flags, 1)
  \o Text(f.username) \o Text(f.chname)

ParseUserInfo(b, at) ==
  LET name == TextEnd(b, at + 6)
  IN IF \/ Len(b) - at + 1 < 8
        \/ ~HasText(b, at + 6) \/ ~HasText(b, name + 1)
       THEN Refused
       ELSE [fields |-> [isActive |-> Byte(b, at), channelid |-> Byte(b, at + 1),
                         volume |-> Signed(b, at + 2, 2), pan |-> Signed(b, at + 4, 1),
                         flags |-> Byte(b, at + 5), username |-> TextAt(b, at + 6),
                         chname |-> TextAt(b, name + 1)],
             next |-> TextEnd(b, name + 1) + 1]

BuildUploadBegin(f) == <<f.guid>> \o Number(f.estsize, 4) \o Number(f.fourcc, 4) \o Number(f.chidx, 1)

BeginFields(b) == [guid |-> b[1], estsize |-> Signed(b, 2, 4), fourcc |-> Unsigned(b, 6, 4),
                   chidx |-> b[10]]

ParseUploadBegin(b) == IF Len(b) < 10 THEN Refused ELSE Only(BeginFields(b))

BuildDownloadBegin(f) == BuildUploadBegin(f) \o Text(f.username)

ParseDownloadBegin(b) ==
  IF Len(b) < 11 \/ ~HasText(b, 11) THEN Refused
  ELSE Only(BeginFields(b) @@ [username |-> TextAt(b, 11)])

(* Downloads and uploads are written in the same format.                   *)
BuildWrite(f) == <<f.guid, f.flags>> \o f.data

ParseWrite(b) ==
  IF Len(b) < 2 THEN Refused
  ELSE Only([guid |-> b[1], flags |-> b[2], data |-> SubSeq(b, 3, Len(b))])
-----------------------------------------------------------------------------
(* Messages of a client, and chat.                                         *)

BuildAuthUser(f) ==
  <<f.passhash>> \o Text(f.username) \o Number(f.caps, 4) \o Number(f.version, 4)

ParseAuthUser(b) ==
  LET name == TextEnd(b, 2)
  IN IF Len(b) < 2 \/ ~HasText(b, 2) \/ Len(b) - name < 8 THEN Refused
     ELSE Only([passhash |-> b[1], username |-> TextAt(b, 2),
                caps |-> Signed(b, name + 1, 4), version |-> Signed(b, name + 5, 4)])

AddUserMask(f) == Text(f.username) \o Number(f.chflags, 4)

ParseUserMaskMutant(b, at) ==
  LET name == TextEnd(b, at)
  IN IF at > Len(b) \/ ~HasText(b, at) THEN Refused
     ELSE [fields |-> [username |-> TextAt(b, at), chflags |-> Unsigned(b, name + 1, 4)],
           next |-> name + 5]
ParseUserMask(b, at) ==
  LET name == TextEnd(b, at)
  IN IF at > Len(b) \/ ~HasText(b, at) \/ Len(b) - name < 4 THEN Refused
     ELSE [fields |-> [username |-> TextAt(b, at), chflags |-> Unsigned(b, name + 1, 4)],
           next |-> name + 5]

(* The size of a record's numbers stands once, before the first record.    *)
AddChannelInfo(f) ==
  (IF bytes = <<>> THEN Number(mpisize, 2) ELSE <<>>) \o Text(f.chname)
  \o SubSeq(Number(f.volume, 2) \o Number(Pan(f.pan), 1) \o Number(f.flags, 1)
            \o [i \in 1 .. mpisize |-> 0], 1, mpisize)

ParseChannelInfo(b, at) ==
  LET size == Unsigned(b, 1, 2)
      from == IF at = 1 THEN 3 ELSE at
      name == TextEnd(b, from)
  IN IF Len(b) <= 2 \/ ~HasText(b, from) \/ Len(b) - name < size THEN Refused
     ELSE [fields |-> [chname |-> TextAt(b, from),
                       volume |-> IF size > 1 THEN Signed(b, name + 1, 2) ELSE 0,
                       pan |-> IF size > 2 THEN Signed(b, name + 3, 1) ELSE 0,
                       flags |-> IF size > 3 THEN Byte(b, name + 4) ELSE 0],
           next |-> name + size + 1]

BuildChat(f) == FlattenSeq([i \in 1 .. 5 |-> Text(f[i])])

(* Strings up to the fifth; one without an end refuses the message, and a  *)
(* message of a single string is refused too.                              *)
ParseChat(b) ==
  LET ends == {i \in DOMAIN b : b[i] = 0}
      count == Min({5, Cardinality(ends)})
      nth[n \in 0 .. count] == IF n = 0 THEN 0 ELSE TextEnd(b, nth[n - 1] + 1)
  IN IF count < 2 \/ (count < 5 /\ Last(b) # 0) THEN Refused
     ELSE Only([n \in 1 .. count |-> TextAt(b, nth[n - 1] + 1)])
-----------------------------------------------------------------------------
(* What callers put into a message.  The compiler keeps a short a short.   *)
(* Fields are written and read one by one, so that it is enough that each  *)
(* takes all of its values, not all of them with all others.               *)
Names   == Texts \union {NULL}
Ints    == {v \in Numbers : -(Base ^ 4 \div 2) <= v /\ v < Base ^ 4 \div 2}
Shorts  == {v \in Numbers : -(Base ^ 2 \div 2) <= v /\ v < Base ^ 2 \div 2}
Counts  == {v \in Numbers : 0 <= v /\ v < Base ^ 2}
Bytes   == {v \in Smalls : 0 <= v /\ v < Base}
Copied  == {Base - 1}

Fields == [
  challenge    |-> [challenge : Copied, caps : Ints, license : Names, version : Ints],
  reply        |-> [flag : Bytes, errmsg : Names, maxchan : Bytes],
  config       |-> [bpm : Counts, bpi : Counts],
  downloadbegin |-> [guid : Copied, estsize : Ints, fourcc : Counts, chidx : Smalls, username : Names],
  uploadbegin  |-> [guid : Copied, estsize : Ints, fourcc : Counts, chidx : Smalls],
  write        |-> [guid : Copied, flags : Bytes, data : Texts],
  authuser     |-> [passhash : Copied, username : Names, caps : Ints, version : Ints],
  chat         |-> [1 .. 5 -> Names]]

RecordFields == [
  userinfo     |-> {f \in [isActive : {0, 1}, channelid : Smalls, volume : Shorts, pan : Smalls,
                           flags : Smalls, username : Names, chname : Texts] :
                      f.channelid = f.pan /\ f.pan = f.flags},
  usermask     |-> [username : Names, chflags : Counts],
  channelinfo  |-> {f \in [chname : Names, volume : Shorts, pan : Smalls, flags : Smalls] :
                      f.pan = f.flags}]

FormatsInit ==
  /\ kind \in DOMAIN Fields \union DOMAIN RecordFields
  /\ mpisize \in (IF kind = "channelinfo" THEN FieldSizes ELSE {4})
  /\ given = <<>> /\ bytes = <<>> /\ shortened = FALSE /\ reading = 0 /\ read = <<>>

(* build() of a message that is one record.                                *)
Build ==
  /\ kind \in DOMAIN Fields /\ reading = 0
  /\ \E f \in Fields[kind] :
       /\ given' = <<f>>
       /\ bytes' = CASE kind = "challenge"     -> BuildChallenge(f)
                     [] kind = "reply"         -> BuildReply(f)
                     [] kind = "config"        -> BuildConfig(f)
                     [] kind = "downloadbegin" -> BuildDownloadBegin(f)
                     [] kind = "uploadbegin"   -> BuildUploadBegin(f)
                     [] kind = "write"         -> BuildWrite(f)
                     [] kind = "authuser"      -> BuildAuthUser(f)
                     [] kind = "chat"          -> BuildChat(f)
  /\ reading' = 1
  /\ UNCHANGED <<kind, mpisize, shortened, read>>

(* build_add_rec, and build() when the records are complete.               *)
AddRecord ==
  /\ kind \in DOMAIN RecordFields /\ reading = 0 /\ Len(given) < MaxRecords
  /\ \E f \in RecordFields[kind] :
       /\ given' = Append(given, f)
       /\ bytes' = bytes \o CASE kind = "userinfo"    -> AddUserInfo(f)
                              [] kind = "usermask"    -> AddUserMask(f)
                              [] kind = "channelinfo" -> AddChannelInfo(f)
  /\ UNCHANGED <<kind, mpisize, shortened, reading, read>>

BuildRecords ==
  /\ kind \in DOMAIN RecordFields /\ reading = 0 /\ reading' = 1
  /\ UNCHANGED <<kind, mpisize, given, bytes, shortened, read>>

(* External: a message that is shorter than its fields need.               *)
Shorten ==
  /\ reading = 1 /\ ~shortened /\ shortened' = TRUE
  /\ \E n \in 0 .. Len(bytes) - 1 : bytes' = SubSeq(bytes, 1, n)
  /\ UNCHANGED <<kind, mpisize, given, reading, read>>

(* parse(), and parse_get_rec from where the previous record ended.        *)
Parse ==
  LET r == CASE kind = "challenge"     -> ParseChallenge(bytes)
             [] kind = "reply"         -> ParseReply(bytes)
             [] kind = "config"        -> ParseConfig(bytes)
             [] kind = "downloadbegin" -> ParseDownloadBegin(bytes)
             [] kind = "uploadbegin"   -> ParseUploadBegin(bytes)
             [] kind = "write"         -> ParseWrite(bytes)
             [] kind = "authuser"      -> ParseAuthUser(bytes)
             [] kind = "chat"          -> ParseChat(bytes)
             [] kind = "userinfo"      -> ParseUserInfo(bytes, reading)
             [] kind = "usermask"      -> ParseUserMask(bytes, reading)
             [] kind = "channelinfo"   -> ParseChannelInfo(bytes, reading)
  IN /\ reading > 0
     /\ read' = IF r = Refused THEN read ELSE Append(read, r.fields)
     /\ reading' = IF r.next > 0 THEN r.next ELSE -1
     /\ UNCHANGED <<kind, mpisize, given, bytes, shortened>>

FormatsNext == Build \/ AddRecord \/ BuildRecords \/ Shorten \/ Parse

FormatsSpec == FormatsInit /\ [][FormatsNext]_formatVars
-----------------------------------------------------------------------------
(* Properties.                                                             *)

(* What a parser is to find of the fields: a byte field keeps its low bits *)
(* or is clamped, a missing string is empty unless the message can do      *)
(* without it, and what follows such a string goes with it.                *)
NoNull(s) == IF s = NULL THEN <<>> ELSE s
Without(f, dropped) == Restrict(f, DOMAIN f \ dropped)
Kept(f) ==
  CASE kind = "challenge" ->
         Without([f EXCEPT !.caps = (@ - (@ % 2)) + (IF f.license = NULL THEN 0 ELSE 1)],
                 IF f.license = NULL THEN {"license"} ELSE {})
    [] kind = "reply" -> Without(f, IF f.errmsg = NULL THEN {"errmsg", "maxchan"} ELSE {})
    [] kind = "downloadbegin" -> [f EXCEPT !.chidx = @ % Base, !.username = NoNull(@)]
    [] kind = "uploadbegin" -> [f EXCEPT !.chidx = @ % Base]
    [] kind \in {"authuser", "usermask"} -> [f EXCEPT !.username = NoNull(@)]
    [] kind = "chat" -> [i \in 1 .. 5 |-> NoNull(f[i])]
    [] kind = "userinfo" ->
         [f EXCEPT !.isActive = IF @ = 0 THEN 0 ELSE 1, !.channelid = Clamp(@, 0, Base - 1),
                   !.pan = Pan(@), !.flags = @ % Base, !.username = NoNull(@)]
    [] kind = "channelinfo" ->
         [f EXCEPT !.chname = NoNull(@), !.volume = IF mpisize > 1 THEN @ ELSE 0,
                   !.pan = IF mpisize > 2 THEN Pan(@) ELSE 0,
                   !.flags = IF mpisize > 3 THEN @ % Base ELSE 0]
    [] OTHER -> f

(* Every message says what it was built from: all records, in order, every *)
(* number with its sign, and every string to its end.  One that is too     *)
(* short is refused, or what it still holds is what was meant, record by   *)
(* record: no parser takes the end of the message, or what lies behind it, *)
(* for a field (mpb.cpp).                                                  *)
ReadsBack ==
  /\ reading = -1 /\ ~shortened => read = [i \in DOMAIN given |-> Kept(given[i])]
  /\ Len(read) <= Len(given)
  /\ \A i \in DOMAIN read : \A x \in DOMAIN read[i] :
       LET meant == Kept(given[i])
       IN /\ x \in DOMAIN meant
          /\ IF kind = "write" /\ x = "data" THEN IsPrefix(read[i][x], meant[x]) ELSE read[i][x] = meant[x]
=============================================================================
