----------------------------- MODULE DataFormats -----------------------------
(***************************************************************************)
(* What becomes of the data of a selection or a drag                        *)
(* (HaikuDataDeviceManager.cpp): a client's source is read into a BMessage, *)
(* which serves Haiku's programs too, and an offer is made of a BMessage,   *)
(* also of one by such a program.                                           *)
(*                                                                         *)
(* A message is a function from the names of its fields; of several values *)
(* under a name only the first is ever read.  A value says what it is and   *)
(* which field it was made from; text is not looked into.                   *)
(***************************************************************************)
EXTENDS Naturals

CONSTANTS
  ClientData,   \* the sources of clients, each a function as described below
  HaikuData     \* the fields of messages by Haiku's programs

Plain == "text/plain"
Utf8 == "text/plain;charset=utf-8"
UriList == "text/uri-list"
MozUrl == "text/x-moz-url"
Netscape == "_NETSCAPE_URL"
Utf8String == "UTF8_STRING"
Png == "image/png"

Nothing == [is |-> "nothing", of |-> "nothing"]
NoFields == [n \in {} |-> Nothing]

Mime == "B_MIME_TYPE"
String == "B_STRING_TYPE"
Other == "another type"

-----------------------------------------------------------------------------
(* BMessage.                                                                *)

\* Fields of one type and value.
FieldsOf(names, type, value) == [n \in names |-> [type |-> type, value |-> value]]

\* The fields of msg, and then those of new: under a name that is taken, a value is put behind
\* the first, or refused if of another type.
AddAll(msg, new) ==
  [n \in DOMAIN msg \cup DOMAIN new |-> IF n \in DOMAIN msg THEN msg[n] ELSE new[n]]

Add(msg, name, type, value) == AddAll(msg, FieldsOf({name}, type, value))

HasData(msg, name) == name \in DOMAIN msg /\ msg[name].type = Mime
FindData(msg, name) == IF HasData(msg, name) THEN msg[name].value ELSE Nothing

-----------------------------------------------------------------------------
(* From a source to a message.  A source is a function from its MIME types  *)
(* to what could be read: "text", "url", "files", "image", or "empty".      *)

Texts == {Plain, Utf8, Utf8String}

\* Not read, but offered.
Commands == {"DELETE", "SAVE_TARGETS"}

\* What Haiku calls the fields of a bookmark, of files and of a bitmap.
HaikuNames == {"META:url", "META:title", "BEOS:TYPE", "name", "be:clip_name", "be:filetypes",
               "be:types", "be:originator-data", "refs", "image/bitmap"}

\* Clients offer MIME types, none of these names.
ASSUME ClientDataAssumption ==
  \A src \in ClientData :
    DOMAIN src \cap HaikuNames = {} /\ \A m \in DOMAIN src : src[m] # "nothing"

\* What a source's data for m are; an empty value is not added to a message.
Data(src, m) == [is |-> src[m], of |-> m]

ReadData(src) ==
  [m \in {m \in DOMAIN src \ Commands : src[m] # "empty"} |-> [type |-> Mime, value |-> Data(src, m)]]

\* The first field in the order of names, or nothing.
FirstOf(msg, names) ==
  LET there == {i \in DOMAIN names : HasData(msg, names[i])}
  IN IF there = {} THEN Nothing
     ELSE msg[names[CHOOSE i \in there : \A j \in there : i <= j]].value

\* urlStr: the one of a type for URLs, else a text that is one.
Url(msg) ==
  LET typed == FirstOf(msg, <<MozUrl, Netscape>>)
      text == FirstOf(msg, <<Utf8, Plain, UriList>>)
  IN IF typed # Nothing THEN typed ELSE IF text.is = "url" THEN text ELSE Nothing

\* Of an URL Haiku makes a bookmark: what describes it.
Bookmark(url) ==
  Add(FieldsOf({"META:url", "META:title", "BEOS:TYPE", "name", "be:clip_name", "be:filetypes",
                "be:types"}, String, url),
      "be:originator-data", Other, url)

\* Types that a bookmark stands for.
UrlTypes == {"STRING", Netscape, MozUrl, "text/html", "application/x-moz-custom-clipdata", UriList}

\* The field for type m, by its own name if it is not one that Haiku has another for.
Converted(msg, m) ==
  LET value == msg[m].value IN
    CASE m = UriList -> IF value.is = "files" THEN FieldsOf({"refs"}, Other, value) ELSE NoFields
      [] m = Png -> IF value.is = "image" THEN FieldsOf({"image/bitmap"}, Other, value) ELSE NoFields
      [] OTHER -> FieldsOf({m}, Mime, value)

ConvertText(msg) == FirstOf(msg, <<Utf8, Utf8String, Plain>>)

ConvertToHaikuMessage(msg) ==
  LET url == Url(msg)
      head == IF url = Nothing THEN NoFields ELSE Bookmark(url)
      text == ConvertText(msg)
      rest == DOMAIN msg \ (Texts \cup IF url = Nothing THEN {} ELSE UrlTypes)
      names == UNION {DOMAIN Converted(msg, m) : m \in rest}
      tail == [n \in names |-> LET m == CHOOSE m \in rest : n \in DOMAIN Converted(msg, m)
                               IN Converted(msg, m)[n]]
  IN AddAll(IF text = Nothing THEN head ELSE Add(head, Plain, Mime, text), tail)

\* A message: its fields and, of one of ours, "wayland:raw_data" and "wayland:offered_mimes".
ToMessage(src) ==
  LET msg == ReadData(src)
  IN [fields |-> ConvertToHaikuMessage(msg), ours |-> TRUE, raw |-> msg, offered |-> DOMAIN src]

-----------------------------------------------------------------------------
(* From a message to an offer: the types it names, and fData.               *)

\* Fault: the raw data are not kept.
OfferOursConverted(msg) == [types |-> msg.offered, data |-> msg.fields]

OfferOurs(msg) == [types |-> msg.offered, data |-> AddAll(msg.fields, msg.raw)]

\* Fields that are offered under their own names.
OfferFields(msg) ==
  LET names == {n \in DOMAIN msg : msg[n].type \in {Mime, String}}
  IN [types |-> names \cup IF Plain \in names THEN {Utf8} ELSE {}, data |-> msg]

\* The types an URL is offered as.
AsUrl == {Plain, Utf8, UriList, Netscape, MozUrl}

\* Programs put nothing but text under the types of texts and URLs, and data under MIME types.
ASSUME HaikuDataAssumption ==
  \A msg \in HaikuData : \A n \in DOMAIN msg :
    /\ msg[n].type = Mime => msg[n].value # Nothing
    /\ n \in AsUrl \cup {Png} => msg[n].type \in {Mime, String}

\* Each is offered, and added.
OfferMore(offer, names, value) ==
  [types |-> offer.types \cup names, data |-> AddAll(offer.data, FieldsOf(names, Mime, value))]

\* Only those for which there are no data yet.
OfferMissing(offer, names, value) ==
  OfferMore(offer, {n \in names : ~ HasData(offer.data, n)}, value)

Field(msg, name) == IF name \in DOMAIN msg THEN msg[name].value ELSE Nothing

\* "be:originator-data", "META:url", "refs" (of a bookmark, and of any file that is there), and
\* "image/bitmap", one after the other.
OfferForeign(msg) ==
  LET origin == Field(msg, "be:originator-data")
      meta == Field(msg, "META:url")
      refs == Field(msg, "refs")
      bitmap == Field(msg, "image/bitmap")
      o1 == OfferFields(msg)
      o2 == IF origin.is = "url" THEN OfferMore(o1, AsUrl, origin) ELSE o1
      o3 == IF meta.is = "url" THEN OfferMissing(o2, AsUrl, meta) ELSE o2
      o4 == IF refs.is = "bookmark" THEN OfferMissing(o3, AsUrl, refs) ELSE o3
      o5 == IF refs.is \in {"bookmark", "files"}
            THEN OfferMissing(OfferMore(o4, {UriList}, refs), {Plain, Utf8}, refs) ELSE o4
  IN IF bitmap.is = "image" THEN OfferMore(o5, {Png}, bitmap) ELSE o5

CreateOffer(msg) == IF msg.ours THEN OfferOurs(msg) ELSE OfferForeign(msg.fields)

\* What the client that asks for type m reads from its pipe.
HandleReceive(offer, m) ==
  FindData(offer.data, IF m = Utf8 /\ ~ HasData(offer.data, Utf8) THEN Plain ELSE m)

-----------------------------------------------------------------------------
(* Properties.                                                              *)

\* A text may stand for a plain text in another encoding.
MayStandFor(of, m) == of = m \/ (m \in {Plain, Utf8} /\ of \in Texts)

\* What a client offers reaches another client, or itself, through Haiku's clipboard: the same
\* types, and for each the data the first client sent for it, or none if it sent none, though
\* some have been replaced by refs, a bitmap or a bookmark on the way.
ReachesClients ==
  \A src \in ClientData : LET offer == CreateOffer(ToMessage(src)) IN
    /\ offer.types = DOMAIN src
    /\ \A m \in offer.types \ Commands : LET got == HandleReceive(offer, m) IN
         \/ got # Nothing /\ MayStandFor(got.of, m)
         \/ got = Nothing /\ src[m] = "empty"

\* Haiku's programs find the text of a client's selection under the one name they know.
ReachesHaiku ==
  \A src \in ClientData :
    (\E m \in Texts \cap DOMAIN src : src[m] # "empty") => HasData(ToMessage(src).fields, Plain)

\* A client can read whatever type it is offered of a message by one of Haiku's programs, but
\* the fields that are strings: these are offered, and read as if they were not there.
OffersAreReadable ==
  \A msg \in HaikuData : LET offer == OfferForeign(msg) IN
    \A m \in offer.types :
      HandleReceive(offer, m) # Nothing
      \/ LET n == IF m = Utf8 /\ m \notin DOMAIN msg THEN Plain ELSE m
         IN n \in DOMAIN msg /\ msg[n].type = String

\* No data are lost or taken for others between clients and Haiku's programs, in whatever
\* combination of types they are offered (HaikuDataDeviceManager.cpp:199-373, 472-697).
DataAreKept == ReachesClients /\ ReachesHaiku /\ OffersAreReadable
=============================================================================
