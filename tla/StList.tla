------------------------------- MODULE StList -------------------------------
(***************************************************************************)
(* The list of groups and users a client keeps (st_list.c), and the text   *)
(* it is stored as: a line per group and per user, with spaces turned into *)
(* semicolons, because a space ends a word for the scanf that reads it.    *)
(*                                                                         *)
(* A text is a sequence of characters; a tab stands for every white space  *)
(* but blanks and line breaks.  A string that is NULL is the value Null.   *)
(* What the code leaves undefined makes the list Undefined, of which       *)
(* nothing more is said.                                                   *)
(***************************************************************************)
EXTENDS Integers, Sequences, SequencesExt

CONSTANTS GroupNames, Ids, Names, Aliases,   \* strings, the last two may be Null
          Null,
          MaxEntries,                         \* bound: groups and users of a list
          TextLimit                           \* 2^16 in the code

NORMAL == "normal"
DYNAMIC == "dynamic"
EXTERNAL == "external"
UNKNOWN == "unknown"

VARIABLES list,    \* the client's list: [version, groups]
          loaded   \* it was stored and loaded again (once, a bound)

listVars == << list, loaded >>

-----------------------------------------------------------------------------
(* Writing. *)

str_replace(s, from, to) == [i \in DOMAIN s |-> IF s[i] = from THEN to ELSE s[i]]

user_type_to_char(type) ==
    CASE type = NORMAL -> "1" [] type = EXTERNAL -> "2" [] OTHER -> "9"

user_char_to_type(c) ==
    CASE c = "1" -> NORMAL [] c = "2" -> EXTERNAL [] OTHER -> UNKNOWN

group_type_to_char(type) ==
    CASE type = NORMAL -> "2" [] type = DYNAMIC -> "3" [] OTHER -> "9"

group_char_to_type(c) ==
    CASE c = "2" -> NORMAL [] c = "3" -> DYNAMIC [] OTHER -> UNKNOWN

\* What printf writes of a string that may be missing.
OrEmpty(s) == IF s = Null THEN << >> ELSE s

\* Without a name the alias is written in its place.  The community is not
\* written at all.
user_put(u) ==
    LET swap == u.name = Null /\ u.alias # Null
        name == IF swap THEN u.alias ELSE u.name
        alias == IF swap THEN Null ELSE u.alias
    IN  << "U", " " >> \o str_replace(u.user, " ", ";")
        \o << user_type_to_char(u.type), ":", ":", " " >>
        \o str_replace(OrEmpty(name), " ", ";") \o << "," >>
        \o str_replace(OrEmpty(alias), " ", ";") \o << "CR", "LF" >>

group_put(g) ==
    << "G", " " >> \o str_replace(g.name, " ", ";") \o << group_type_to_char(g.type), " " >>
    \o str_replace(IF g.alias = Null THEN g.name ELSE g.alias, " ", ";")
    \o << " ", IF g.open THEN "O" ELSE "C", "CR", "LF" >>
    \o FlattenSeq([i \in DOMAIN g.users |-> user_put(g.users[i])])

\* The version number is written and read as one character here.
list_store(l) ==
    << "V", "=", l.version, "CR", "LF" >>
    \o FlattenSeq([i \in DOMAIN l.groups |-> group_put(l.groups[i])])

-----------------------------------------------------------------------------
(* Reading. *)

LineBreak == {"CR", "LF"}
White == LineBreak \union {" ", "TAB"}

Undefined == [version |-> "undefined", groups |-> << >>]

\* The runs of characters of s between those in breaks.
Runs(s, breaks) ==
    LET starts == {i \in DOMAIN s : s[i] \notin breaks /\ (i = 1 \/ s[i - 1] \in breaks)}
        end(i) == CHOOSE j \in i .. Len(s) :
                     /\ \A k \in i .. j : s[k] \notin breaks
                     /\ j = Len(s) \/ s[j + 1] \in breaks
        first == SetToSortSeq(starts, <)
    IN  [n \in DOMAIN first |-> SubSeq(s, first[n], end(first[n]))]

\* Behind its first letter, a line is words for scanf, which any white space
\* ends.
Word(line, n) ==
    LET words == Runs(Tail(line), White)
    IN  IF n <= Len(words) THEN words[n] ELSE << >>

mwSametimeList_new == [version |-> "3", groups |-> << >>]

\* A number that is not there is zero.
get_version(line, l) ==
    [l EXCEPT !.version = IF Len(line) >= 3 /\ line[2] = "=" THEN line[3] ELSE "0"]

\* The type is the last character of the name; the group is open if there is
\* no third word.
get_group(line, l) ==
    LET name == str_replace(Word(line, 1), ";", " ")
        open == Word(line, 3)
    IN  [l EXCEPT !.groups = Append(@,
            [type |-> group_char_to_type(IF name = << >> THEN "2" ELSE Last(name)),
             name |-> IF name = << >> THEN name ELSE Front(name),
             alias |-> str_replace(Word(line, 2), ";", " "),
             open |-> open = << >> \/ open[1] = "O",
             users |-> << >>])]

\* Positions of the double colon.
Marks(s) == {i \in 1 .. Len(s) - 1 : s[i] = ":" /\ s[i + 1] = ":"}

\* Cut at the first comma.
SplitFirst(s) ==
    LET commas == {i \in DOMAIN s : s[i] = ","}
        at == CHOOSE i \in commas : \A j \in commas : i <= j
    IN  IF commas = {} THEN [name |-> s, alias |-> Null]
        ELSE [name |-> SubSeq(s, 1, at - 1),
              alias |-> IF at = Len(s) THEN Null ELSE SubSeq(s, at + 1, Len(s))]

\* The word with the names is cut at its last comma.
SplitNames(s) ==
    LET commas == {i \in DOMAIN s : s[i] = ","}
        at == CHOOSE i \in commas : \A j \in commas : j <= i
    IN  IF commas = {} THEN [name |-> s, alias |-> Null]
        ELSE [name |-> SubSeq(s, 1, at - 1),
              alias |-> IF at = Len(s) THEN Null ELSE SubSeq(s, at + 1, Len(s))]

\* The type is the character before the first double colon, and is cut off
\* with what follows.  If there is none before it, what is read and cleared
\* is the byte before the string.
get_user(line, l) ==
    LET id == str_replace(Word(line, 1), ";", " ")
        mark == CHOOSE i \in Marks(id) : \A j \in Marks(id) : i <= j
        marked == Marks(id) # {}
        split == SplitNames(str_replace(Word(line, 2), ";", " "))
    IN  IF marked /\ mark = 1 THEN Undefined
        ELSE [l EXCEPT !.groups[Len(l.groups)].users = Append(@,
                [type |-> user_char_to_type(IF marked THEN id[mark - 1] ELSE "1"),
                 user |-> IF marked THEN SubSeq(id, 1, mark - 2) ELSE id,
                 community |-> Null,
                 name |-> split.name,
                 alias |-> split.alias])]

\* A line per run of characters without a line break, without the white space
\* it begins with.
fetch_line(text) ==
    LET all == Runs(text, LineBreak)
        start(s) == CHOOSE i \in 1 .. Len(s) + 1 :
                        /\ \A j \in 1 .. i - 1 : s[j] \in White
                        /\ i = Len(s) + 1 \/ s[i] \notin White
        trimmed == [n \in DOMAIN all |-> SubSeq(all[n], start(all[n]), Len(all[n]))]
    IN  SelectSeq(trimmed, LAMBDA s : s # << >>)

\* A user goes into the group of this text read last; with none, the group
\* is a NULL pointer.
list_get(text, l) ==
    FoldLeft(LAMBDA acc, line :
                CASE acc = Undefined -> acc
                  [] acc # Undefined /\ line[1] = "V" -> get_version(line, acc)
                  [] acc # Undefined /\ line[1] = "G" -> get_group(line, acc)
                  [] acc # Undefined /\ line[1] = "U" ->
                        IF Len(acc.groups) = Len(l.groups) THEN Undefined ELSE get_user(line, acc)
                  [] OTHER -> acc,
             l, fetch_line(text))

mwSametimeList_load(text) == list_get(text, mwSametimeList_new)

\* In a message the length of the text has 16 bits, and no more of the text
\* is written than it says.
mwSametimeList_put(l) ==
    LET text == list_store(l) IN SubSeq(text, 1, Len(text) % TextLimit)

mwSametimeList_get(text, l) == IF text = << >> THEN l ELSE list_get(text, l)

-----------------------------------------------------------------------------
(* The client's calls. *)

ListInit == list = mwSametimeList_new /\ loaded = FALSE

Entries(l) == Len(l.groups) + FoldLeft(LAMBDA n, g : n + Len(g.users), 0, l.groups)

Groups == DOMAIN list.groups

mwSametimeList_setMajor ==
    \E v \in {"2"} : list' = [list EXCEPT !.version = v]

mwSametimeGroup_new ==
    /\ Entries(list) < MaxEntries
    /\ \E type \in {NORMAL, DYNAMIC}, name \in GroupNames :
          list' = [list EXCEPT !.groups = Append(@,
                     [type |-> type, name |-> name, alias |-> Null, open |-> FALSE, users |-> << >>])]

mwSametimeGroup_setAlias ==
    \E i \in Groups, alias \in Aliases : list' = [list EXCEPT !.groups[i].alias = alias]

mwSametimeGroup_setOpen ==
    \E i \in Groups : list' = [list EXCEPT !.groups[i].open = TRUE]

\* With all of its users.
mwSametimeGroup_free ==
    \E i \in Groups : list' = [list EXCEPT !.groups = RemoveAt(@, i)]

mwSametimeUser_new ==
    /\ Entries(list) < MaxEntries
    /\ \E i \in Groups, type \in {NORMAL, EXTERNAL}, id \in Ids,
             community \in {Null, << "c" >>} :
          list' = [list EXCEPT !.groups[i].users = Append(@,
                     [type |-> type, user |-> id, community |-> community,
                      name |-> Null, alias |-> Null])]

mwSametimeUser_setShortName ==
    \E i \in Groups : \E j \in DOMAIN list.groups[i].users, name \in Names :
        list' = [list EXCEPT !.groups[i].users[j].name = name]

mwSametimeUser_setAlias ==
    \E i \in Groups : \E j \in DOMAIN list.groups[i].users, alias \in Aliases :
        list' = [list EXCEPT !.groups[i].users[j].alias = alias]

mwSametimeUser_free ==
    \E i \in Groups : \E j \in DOMAIN list.groups[i].users :
        list' = [list EXCEPT !.groups[i].users = RemoveAt(@, j)]

\* The list is stored, and the next time the client starts loaded again.
mwSametimeList_store ==
    /\ list' = mwSametimeList_load(list_store(list))
    /\ loaded' = TRUE

ListEdit ==
    \/ mwSametimeList_setMajor
    \/ mwSametimeGroup_new \/ mwSametimeGroup_setAlias
    \/ mwSametimeGroup_setOpen \/ mwSametimeGroup_free
    \/ mwSametimeUser_new \/ mwSametimeUser_setShortName
    \/ mwSametimeUser_setAlias \/ mwSametimeUser_free

ListNext ==
    /\ ~ loaded
    /\ \/ ListEdit /\ loaded' = FALSE
       \/ mwSametimeList_store

-----------------------------------------------------------------------------
(* Properties. *)

\* What a user is expected to be when loaded: a name that was missing is the
\* alias, or empty; an empty alias is missing.
LoadedUser(u) ==
    [u EXCEPT !.name = IF u.name # Null THEN u.name ELSE OrEmpty(u.alias),
              !.alias = IF u.name = Null \/ u.alias = << >> THEN Null ELSE u.alias]

\* What a group is expected to be: an alias that was missing is the name.
LoadedGroup(g) ==
    [g EXCEPT !.alias = IF g.alias = Null THEN g.name ELSE g.alias, !.users = << >>]

\* What the format uses itself: any white space but a blank ends a word, and
\* a semicolon stands for a blank.
Clean(s) == s = Null \/ Range(s) \intersect ((White \ {" "}) \union {";"}) = {}

\* What the format can say of a user: no community, no double colon in the
\* id, no comma in the alias of one who has a name.
UserKept(u) ==
    /\ Clean(u.user) /\ Clean(u.name) /\ Clean(u.alias)
    /\ Marks(u.user) = {}
    /\ u.community = Null
    /\ u.name = Null \/ u.alias = Null \/ "," \notin Range(u.alias)

\* Of a group: no alias that is empty.
GroupKept(g) == Clean(g.name) /\ Clean(g.alias) /\ g.alias # << >>

\* The first word of the id begins with a double colon.
Overruns(u) == \E i \in Marks(u.user) : \A j \in 1 .. i - 1 : u.user[j] = "TAB"

\* A string of the group or of one of its users holds a line break.
Broken(g) ==
    LET breaks(s) == s # Null /\ Range(s) \intersect LineBreak # {}
    IN  \/ breaks(g.name) \/ breaks(g.alias)
        \/ \E j \in DOMAIN g.users :
              \E s \in {g.users[j].user, g.users[j].name, g.users[j].alias} : breaks(s)

\* Up to which group the list is read as it was written: those in front of the
\* first with a line break, behind which anything may follow.
Whole == {i \in Groups : \A k \in 1 .. i : ~ Broken(list.groups[k])}

\* A stored list is loaded again with every group and user in its place, and a
\* group or user comes back as it was exactly if none of its strings holds what
\* the format uses itself.  One with a tab, a semicolon, a comma or a double
\* colon never harms another; a line break spares only the groups in front of
\* its own, and an id that begins with a double colon leaves the whole load
\* undefined (list_store, get_group, get_user, fetch_line).
LoadsBack(back) ==
    LET overruns == \E i \in Groups : \E j \in DOMAIN list.groups[i].users :
                       Overruns(list.groups[i].users[j])
    IN  /\ overruns => back = Undefined
        /\ back = Undefined => overruns \/ Whole # Groups \/ list = Undefined
        /\ back # Undefined =>
              /\ Whole = Groups =>
                    back.version = list.version /\ DOMAIN back.groups = Groups
              /\ \A i \in Whole :
                    LET g == list.groups[i]
                        h == back.groups[i]
                    IN  /\ GroupKept(g) <=> [h EXCEPT !.users = << >>] = LoadedGroup(g)
                        /\ DOMAIN h.users = DOMAIN g.users
                        /\ \A j \in DOMAIN g.users :
                              UserKept(g.users[j]) <=> h.users[j] = LoadedUser(g.users[j])

\* A list sent in a message is the one sent exactly if its text is short
\* enough for its length to be written.
ListFitsMessage(text, back) ==
    back # Undefined =>
        (Len(text) < TextLimit
         <=> mwSametimeList_get(mwSametimeList_put(list), mwSametimeList_new) = back)

\* A list comes back from its text, stored in a file or sent in a message, but
\* for the strings the format cannot hold (list_store, list_get).
ListRoundTrip ==
    LET text == list_store(list)
        back == mwSametimeList_load(text)
    IN  LoadsBack(back) /\ ListFitsMessage(text, back)
=============================================================================
