----------------------------- MODULE MCWebPage -----------------------------
(***************************************************************************)
(* An instance of WebPage for TLC: the commands, fields and preferences.   *)
(***************************************************************************)
EXTENDS WebPage, TLC

-----------------------------------------------------------------------------
(* Parser: an abbreviation that fits two arguments, an argument that takes any word, an
   enumeration in a bundle, and a command that is the beginning of another *)

MCToken == {"show", "interfaces", "i", "brief", "b", "x"}

MCAbbreviates ==
    [n \in {"show", "interfaces", "brief", "x", "interface-name", "inet", "bgp", "text"} |-> {n}]
        @@ ("i" :> {"interfaces", "inet"}) @@ ("b" :> {"brief", "bgp"})

Arg(name, type) == [KeywordArgument(name) EXCEPT !.type = type]

InterfaceName == [Arg("interface-name", "interface") EXCEPT !.nokeyword = TRUE]
Level == [Arg("inet", "enumeration") EXCEPT !.enums = <<"brief", "bgp">>, !.mandatory = TRUE]
Text  == [Arg("text", "string") EXCEPT !.nokeyword = TRUE, !.multiple = TRUE]

Words(words, arguments, bundles) ==
    [words |-> words, arguments |-> arguments, bundles |-> bundles]

MCCommandSets ==
    {<<Words(<<"show", "interfaces">>, <<InterfaceName, Arg("brief", "empty")>>, <<>>),
       Words(<<"show", "interfaces", "brief">>, <<>>, <<<<Level>>>>)>>,
     <<Words(<<"show">>, <<InterfaceName, Text>>, <<>>),
       Words(<<"interfaces">>, <<Level, Text>>, <<>>)>>}

-----------------------------------------------------------------------------
(* Outputs: a command that is saved as it is, the one that clears, and one that is unknown *)

MCSavedAs == [c \in {"a", "clear"} |-> c]

-----------------------------------------------------------------------------
(* Form: a mandatory text with a pattern and a range, a number with data, a plain mandatory *)

FieldOf(mandatory, help, match, range, numeric, data) ==
    [mandatory |-> mandatory, help |-> help, match |-> match, range |-> range,
     numeric |-> numeric, data |-> data]

MCDescribed == ("a" :> FieldOf(TRUE, TRUE, TRUE, TRUE, FALSE, FALSE))
            @@ ("b" :> FieldOf(FALSE, TRUE, FALSE, TRUE, TRUE, TRUE))
            @@ ("c" :> FieldOf(TRUE, FALSE, FALSE, FALSE, FALSE, FALSE))

-----------------------------------------------------------------------------
(* Prefs *)

MCDefault == [p \in {"p", "q"} |-> "v1"]

=============================================================================
