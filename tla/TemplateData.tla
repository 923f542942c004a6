---------------------------- MODULE TemplateData ----------------------------
(***************************************************************************)
(* What templates are written in and filled with, and the dataset of an    *)
(* event (crates/component-runtime: compiler.rs, wxml.rs, events.rs).      *)
(*                                                                         *)
(* A template is the sequence of its tags and texts, a tag the function    *)
(* from its attributes to their values.  A value is what the compiler      *)
(* tells apart: a binding of one path, a literal, or an expression that is *)
(* not supported.  Classes and styles are left out; attributes that the    *)
(* compiler ignores are, too.                                              *)
(***************************************************************************)
EXTENDS Integers, Sequences, FiniteSets, SequencesExt

----------------------------------------------------------------------------
(* Data: JSON values *)

Missing == [is |-> "null"]
Text(s) == [is |-> "text", text |-> s]
Number(n) == [is |-> "number", number |-> n]
Flag(b) == [is |-> "flag", flag |-> b]
List(items) == [is |-> "list", items |-> items]
Object(fields) == [is |-> "object", fields |-> fields]

\* What a value has under a name; the length of a text is left out.
Field(value, name) ==
  CASE value.is = "list" /\ name = "length" -> Number(Len(value.items))
    [] value.is = "object" /\ name \in DOMAIN value.fields -> value.fields[name]
    [] OTHER -> Missing

IsTruthy(value) ==
  CASE value.is = "text" -> value.text # ""
    [] value.is = "number" -> value.number # 0
    [] value.is = "flag" -> value.flag
    [] value.is = "list" -> value.items # <<>>
    [] value.is = "object" -> DOMAIN value.fields # {}
    [] value.is = "null" -> FALSE

----------------------------------------------------------------------------
(* Templates *)

Bind(path) == [is |-> "path", path |-> path]
Literal(s) == [is |-> "literal", literal |-> s]
Unsupported == [is |-> "unsupported"]

Opening(tag, attrs) == [is |-> "opening", tag |-> tag, attrs |-> attrs]
SelfClosing(tag, attrs) == [is |-> "self-closing", tag |-> tag, attrs |-> attrs]
Closing(tag) == [is |-> "closing", tag |-> tag]
Written(source) == [is |-> "written", source |-> source]
\* A tag without a name, without its ">", or with an unterminated value.
Malformed == [is |-> "malformed"]

NoAttrs == <<>>

----------------------------------------------------------------------------
(* Events *)

CamelCase == [key \in {"order-id"} |-> "orderId"]

DatasetAsWritten(dataset) == dataset

\* normalize_dataset: a key with a hyphen is there in camel case as well.
NormalizeDataset(dataset) ==
  LET camel == DOMAIN CamelCase \cap DOMAIN dataset IN
  [name \in DOMAIN dataset \cup {CamelCase[key] : key \in camel} |->
     IF name \in DOMAIN dataset THEN dataset[name] ELSE dataset[CHOOSE key \in camel : CamelCase[key] = name]]

DatasetValue(dataset, name) == IF name \in DOMAIN dataset THEN dataset[name] ELSE Missing
=============================================================================
