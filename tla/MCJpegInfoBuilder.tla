------------------------- MODULE MCJpegInfoBuilder -------------------------
(***************************************************************************)
(* Instances of JpegInfoBuilder for TLC: files put together from the       *)
(* segments that matter for Apple images, and from those that matter for   *)
(* GDepth and GImage data.                                                 *)
(***************************************************************************)
EXTENDS JpegInfoBuilder

NoLimit == 1000

SOI == Plain("SOI", "")
EOI == Plain("EOI", "")
NoMimes == [t \in XmpTypes |-> ""]
Jpegs   == [t \in XmpTypes |-> "image/jpeg"]

AppleXmp(ids) == PrimaryXmp(ids, <<>>, NoMimes)

MCAppleKinds ==
    { SOI, EOI, Plain("APP2", "MPF"), AppleXmp({"depth", "matte"}), AppleXmp({"matte"}) }

\* The GUID of the extensions, and one that the value in the primary XMP segment was
\* cut down to: the code compares as far as that goes.
MCGuid     == <<1, 2>>
MCCutGuid  == <<1>>
OtherGuid  == <<2, 2>>

MCTexts ==
    { <<"gdepth", Quote>>,                           \* the value begins behind the end
      <<"gdepth", Quote, "a">>,                      \* ... goes on in the next segment
      <<"gdepth", Quote, "a", Quote, "gimage", Quote, "a">>,  \* ... a value, and another
      <<"gimage", "a", Quote>>,                      \* a name without a value
      <<"a">>, <<Quote, "gimage", Quote, "b">> }

MCXmpKinds ==
    { SOI, Plain("APP0", "JFIF"), Plain("APP1", "Exif"),
      PrimaryXmp({"gdepth"}, MCCutGuid, Jpegs) }
    \cup { ExtendedXmp(MCGuid, text) : text \in MCTexts }
    \cup { ExtendedXmp(OtherGuid, <<Quote>>) }

\* Apple images depend on the order of many segments, and the limit matters to them;
\* in the other files the texts matter, and all of it is in the primary image.
MCFamilies ==
    { [kinds |-> MCAppleKinds, limits |-> {1, 2, NoLimit}, length |-> 8],
      [kinds |-> MCXmpKinds, limits |-> {NoLimit}, length |-> 6] }

MCCaptures  == {{"MPF"}}
=============================================================================
