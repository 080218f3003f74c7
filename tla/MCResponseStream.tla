-------------------------- MODULE MCResponseStream --------------------------
(* A small stream: one tag of two characters, texts that cut it and its     *)
(* closing tag in two or hold an empty block, a call in two fragments,      *)
(* calls that come whole, and one object of every other kind.               *)
EXTENDS ResponseStream

MCOpenTags == {<<"<", "t">>}

MCBlanks == {" "}

Text(text) == [kind |-> "content", text |-> text]

ToolStart(id, name, input, stop) ==
  [kind |-> "tool_start", id |-> id, name |-> name, input |-> input, stop |-> stop]

Texts == {Text(<<"<">>), Text(<<"t", "a", "b", "c", "d", "<">>),
          Text(<<"/", "t", " ", "x">>), Text(<<" ", "B">>),
          Text(<<"<", "t", "<", "/", "t", " ", "y">>)}

ToolItems == {ToolStart(1, "f", <<"open">>, FALSE), ToolStart(2, "g", <<"long">>, TRUE),
              ToolStart(3, "g", <<"long">>, FALSE),
              [kind |-> "tool_input", input |-> <<"close">>], [kind |-> "tool_stop"]}

Others == {[kind |-> "native_thinking", text |-> <<"n">>], [kind |-> "thinking_signature"],
           [kind |-> "redacted_thinking"], [kind |-> "usage"], [kind |-> "context_usage"],
           [kind |-> "refusal"]}

MCItems == Texts \union ToolItems \union Others
=============================================================================
