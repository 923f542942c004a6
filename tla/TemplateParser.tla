--------------------------- MODULE TemplateParser ---------------------------
(***************************************************************************)
(* How the tags and texts of a template become a tree (component-runtime:  *)
(* wxml.rs), and which of them nest.                                       *)
(*                                                                         *)
(* parse_children and read_element call each other.  What they have read   *)
(* is the sequence of the elements that are still open, the document       *)
(* first, each with the children it has so far: one for every call of      *)
(* parse_children that has not returned.                                   *)
(***************************************************************************)
EXTENDS TemplateData

TextNode(source) == [is |-> "text", source |-> source]
Element(tag, attrs, children) ==
  [is |-> "element", tag |-> tag, attrs |-> attrs, children |-> children]

\* What is open before the first token, and after an error.
Document == <<Element("", NoAttrs, <<>>)>>
Failed == <<>>

WithChild(element, node) ==
  Element(element.tag, element.attrs, Append(element.children, node))

AddChild(open, node) == Append(Front(open), WithChild(Last(open), node))

ClosesAny(tag, open) == Len(open) > 1

\* The document has no closing tag.
Closes(tag, open) == Len(open) > 1 /\ Last(open).tag = tag

Read(open, token) ==
  IF open = Failed THEN Failed
  ELSE CASE token.is = "closing" /\ Closes(token.tag, open) -> AddChild(Front(open), Last(open))
         [] token.is = "written" -> AddChild(open, TextNode(token.source))
         [] token.is = "self-closing" -> AddChild(open, Element(token.tag, token.attrs, <<>>))
         [] token.is = "opening" -> Append(open, Element(token.tag, token.attrs, <<>>))
         [] OTHER -> Failed

\* What is open after each of the tokens.
OpenAfter(tokens) ==
  LET open[n \in 0 .. Len(tokens)] ==
        IF n = 0 THEN Document ELSE Read(open[n - 1], tokens[n])
  IN  open

NotParsed == [ok |-> FALSE, nodes |-> <<>>]
Parsed(nodes) == [ok |-> TRUE, nodes |-> nodes]

IsMeaningful(node) == ~(node.is = "text" /\ node.source = Literal(""))

\* parse_document: blanks between the roots do not count, several roots are put
\* into a view.
ParseDocument(tokens) ==
  LET open == OpenAfter(tokens)[Len(tokens)]
      children == open[1].children
      roots == SelectSeq(children, IsMeaningful)
  IN  IF Len(open) # 1 \/ \A i \in DOMAIN children : ~IsMeaningful(children[i]) THEN NotParsed
      ELSE Parsed(IF Len(roots) = 1 THEN roots ELSE <<Element("view", NoAttrs, roots)>>)

----------------------------------------------------------------------------
(* Which templates nest, in other words than the parser's *)

\* How deep the document is after i tokens.
Depth(tokens, i) ==
  LET Count(is) == Cardinality({j \in 1 .. i : tokens[j].is = is})
  IN  Count("opening") - Count("closing")

\* After n tokens the tag at j is open, in as many others as depth says.
IsOpen(tokens, j, n, depth) ==
  /\ tokens[j].is = "opening" /\ Depth(tokens, j - 1) = depth
  /\ \A k \in j .. n : Depth(tokens, k) > depth

\* Tags are closed in the order in which they were opened, and there is more
\* than blank text.
IsWellFormed(tokens) ==
  /\ \A i \in DOMAIN tokens : tokens[i].is # "malformed" /\ Depth(tokens, i) >= 0
  /\ Depth(tokens, Len(tokens)) = 0
  /\ \A i \in DOMAIN tokens : tokens[i].is = "closing" =>
       \E j \in 1 .. i - 1 : IsOpen(tokens, j, i - 1, Depth(tokens, i)) /\ tokens[j].tag = tokens[i].tag
  /\ \E i \in DOMAIN tokens : tokens[i].is # "closing" /\ tokens[i] # Written(Literal(""))
=============================================================================
