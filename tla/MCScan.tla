------------------------------- MODULE MCScan -------------------------------
(***************************************************************************)
(* A small disc that has two directories with the same contents, a         *)
(* directory and an empty file in each; what the user scans is all of it   *)
(* or one file.                                                            *)
(***************************************************************************)
EXTENDS ScanProperties

LetterOf == [root |-> "r", a |-> "a", b |-> "b", ad |-> "d", bd |-> "d",
             ax |-> "x", bx |-> "x", ay |-> "y", by |-> "y", au |-> "u", bu |-> "u"]

TwinNodes == DOMAIN LetterOf
TwinDirs == {"root", "a", "b", "ad", "bd"}
TwinParent == [n \in TwinNodes \ {"root"} |->
                 CASE n \in {"a", "b"}   -> "root"
                   [] n \in {"ad", "ax", "ay"} -> "a"
                   [] n \in {"bd", "bx", "by"} -> "b"
                   [] n = "au" -> "ad"
                   [] n = "bu" -> "bd"]
TwinDepth == [n \in TwinNodes |->
                CASE n = "root" -> 0 [] n \in {"a", "b"} -> 1
                  [] n \in {"au", "bu"} -> 3 [] OTHER -> 2]
TwinOrder == <<"root", "a", "ad", "au", "ax", "ay", "b", "bd", "bu", "bx", "by">>
TwinRank == [n \in TwinNodes |-> CHOOSE i \in DOMAIN TwinOrder : TwinOrder[i] = n]
TwinName == [n \in TwinNodes |-> <<LetterOf[n]>>]
TwinContent == [n \in TwinNodes |-> IF n \in {"ay", "by"} THEN <<>> ELSE <<LetterOf[n]>>]

(* What may be wrong with the disc: a file of a, its directory, both; or   *)
(* that directory is empty.                                                *)
TwinDiscs ==
  {[n \in TwinNodes |-> CASE n = "ad" -> d [] n = "ax" -> x [] OTHER -> Fine] :
     d \in {Fine, Closed, Failing}, x \in {Fine, Failing}}
  \cup {[n \in TwinNodes |-> IF n = "ax" THEN x ELSE Fine] : x \in {Closed, Gone}}
  \cup {[n \in TwinNodes |-> IF n \in {"root", "bx"} THEN Gone ELSE Fine],
        [n \in TwinNodes |-> IF n \in {"ax", "bx"} THEN Failing ELSE Fine],
        [n \in TwinNodes |-> IF n = "au" THEN Gone ELSE Fine]}

TwinMatching ==
  [g \in {"VIDEO_TS/*.VOB", "AUDIO_TS", "SVCD/*.VCD", "MPEGAV/AVSEQ??.DAT",
          "SEGMENT/ITEM???.DAT", "CDI"} |->
     CASE g = "VIDEO_TS/*.VOB" -> {"ax"} [] g = "AUDIO_TS" -> {"b"} [] OTHER -> {}]

Limits == [VideoDVD |-> 9, VideoCD |-> 9]

=============================================================================
