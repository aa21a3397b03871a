------------------------------ MODULE WgQuick ------------------------------
(***************************************************************************)
(* What becomes of the configuration text of an upstream before awg-quick   *)
(* gets it: SetInterfaceDirective and StripInterfaceDirective of            *)
(* internal/wgquick/wgquick.go, and their use in syncWireGuard.  A text is a *)
(* sequence of lines; a line is the head of a section, a directive, or one  *)
(* that means nothing (a comment, an empty line, one without "=").          *)
(***************************************************************************)
EXTENDS Integers, Sequences, FiniteSets, FiniteSetsExt, SequencesExt

Head_(name) == [kind |-> "head", name |-> name, value |-> ""]
Directive(key, value) == [kind |-> "directive", name |-> key, value |-> value]
Remark == [kind |-> "remark", name |-> "", value |-> ""]

IsHead(line) == line.kind = "head"
InterfaceHead == Head_("Interface")

(* Line i belongs to [Interface] when the last head before it is that one. *)
InInterface(text, i) ==
  \E j \in 1..(i - 1) : /\ text[j] = InterfaceHead
                        /\ \A k \in (j + 1)..(i - 1) : ~IsHead(text[k])

Names(line, key) == line.kind = "directive" /\ line.name = key

Keep(text, Kept(_)) ==
  FoldLeftDomain(LAMBDA out, i : IF Kept(i) THEN Append(out, text[i]) ELSE out, <<>>, text)

StripInterfaceDirective(text, key) ==
  Keep(text, LAMBDA i : ~(Names(text[i], key) /\ InInterface(text, i)))

SetInterfaceDirective(text, key, value) ==
  LET cleaned == StripInterfaceDirective(text, key)
      heads == {i \in DOMAIN cleaned : cleaned[i] = InterfaceHead}
  IN  IF heads = {} THEN <<InterfaceHead, Directive(key, value)>> \o cleaned
      ELSE InsertAt(cleaned, Min(heads) + 1, Directive(key, value))

UpstreamConf(text) ==
  SetInterfaceDirective(StripInterfaceDirective(text, "DNS"), "Table", "off")
-----------------------------------------------------------------------------
(* A text as awg-quick reads it: line by line, in a section from its head on. *)
Read(text) ==
  FoldLeft(LAMBDA s, line :
             IF IsHead(line) THEN [s EXCEPT !.in = line = InterfaceHead]
             ELSE IF line.kind = "remark" THEN s
             ELSE IF s.in THEN [s EXCEPT !.own = Append(@, line)]
             ELSE [s EXCEPT !.others = Append(@, line)],
           [in |-> FALSE, own |-> <<>>, others |-> <<>>], text)

Own(text, Test(_)) == SelectSeq(Read(text).own, Test)
IsDNS(line) == line.name = "DNS"
IsTable(line) == line.name = "Table"
IsElse(line) == ~IsDNS(line) /\ ~IsTable(line)

(* Directives come after a head; otherwise SetInterfaceDirective may put one of    *)
(* its own over them.                                                             *)
Sectioned(text) == \A i \in DOMAIN text :
  text[i].kind = "directive" => \E j \in 1..(i - 1) : IsHead(text[j])

(* wg_runtime.go:141-149: with however many [Interface] sections and lines of either *)
(* key, awg-quick finds no DNS and one Table, which is off; the rest of the text is  *)
(* as it was, and writing it once more changes nothing.                             *)
ConfSound(text) ==
  LET conf == UpstreamConf(text)
  IN  /\ Own(conf, IsDNS) = <<>> /\ Own(conf, IsTable) = <<Directive("Table", "off")>>
      /\ Own(conf, IsElse) = Own(text, IsElse)
      /\ Read(conf).others = Read(text).others
      /\ UpstreamConf(conf) = conf
=============================================================================
