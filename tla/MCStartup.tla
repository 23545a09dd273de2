----------------------------- MODULE MCStartup -----------------------------
(* The instance for TLC of three parts that share no variable: NativeLaunch; *)
(* HostfsdStartup, with three items, any of them read-only, and one more     *)
(* whose attribute cannot be changed; and HostfsPath.  Part says which of    *)
(* them a behaviour is about; the others rest in an initial state.           *)
EXTENDS MCNativeLaunch, HostfsdStartup, HostfsPath, TLC

CONSTANTS host, data, evil, sub, fileIn, fileSub, fileOut, link1, link2

MCChars == {"a", "A", "b", "n", "u", "d", ".", " ", ":"}
MCLower == [c \in MCChars |-> IF c = "A" THEN "a" ELSE c]
MCDevices == {<<"n", "u">>}

\* The folder is "/d", and there is a "/du" beside it; the names of what is
\* in it differ in case, or not at all where that is possible.
MCDirs == {host, data, evil, sub}
MCFiles == {fileIn, fileSub, fileOut}
MCLinks == {link1, link2}

Places ==
  (host :> NoNode) @@ (data :> host) @@ (evil :> host) @@ (sub :> data) @@
  (fileIn :> data) @@ (fileSub :> sub) @@ (fileOut :> evil)

Named0 ==
  (host :> <<>>) @@ (data :> <<"d">>) @@ (evil :> <<"d", "u">>) @@ (sub :> <<"b">>) @@
  (fileIn :> <<"A">>) @@ (fileSub :> <<"a">>) @@ (fileOut :> <<"b">>)

\* The links' names differ from others' in case only, or do not.
MCTrees ==
  {t \in
   {[parent |-> Places @@ (link1 :> p) @@ (link2 :> q),
     name   |-> Named0 @@ (link1 :> m[1]) @@ (link2 :> m[2]),
     target |-> (link1 :> s) @@ (link2 :> t)] :
     p \in {data, sub, evil}, q \in {data, sub},
     m \in {<<<<"a">>, <<"n">>>>, <<<<"u">>, <<"A", "b">>>>},
     s \in {sub, evil, fileOut, link2}, t \in {host, data, evil, fileSub, link1, NoNode}} :
     t.parent[link1] = sub => t.name[link1] # <<"a">>}

MCRequests ==
  LET good == {<<"a">>, <<"A">>, <<"b">>, <<"u">>, <<"n">>, <<"a", "b">>}
      bad == {<<>>, <<".">>, <<"a", ".">>, <<"n", "u", ".">>, <<"n", "u", ".", "a">>, <<"a", ":">>,
              <<"a", "b", "a", "b">>}
  IN  {<<>>} \cup {<<c>> : c \in good \cup bad} \cup {<<c, d>> : c \in good, d \in good \cup {<<".">>}}
        \cup {<<c, d, e>> : c \in good, d \in {<<"n">>, <<"b">>}, e \in {<<"a">>, <<"b">>}}

-----------------------------------------------------------------------------
VARIABLE part

all == <<part, allvars, startup, border>>

\* The initial states the other parts rest in.
Rests(p) ==
  CASE p = "native" -> LaunchInit /\ ~ready
    [] p = "startup" -> StartupInit /\ platform = "posix" /\ ro = {}
    [] p = "path" -> BorderInit /\ follows = FALSE /\ tree = CHOOSE t \in Trees : TRUE

MCInit ==
  \/ part = "native" /\ LaunchInit /\ Rests("startup") /\ Rests("path")
  \/ part = "startup" /\ StartupInit /\ Rests("native") /\ Rests("path")
  \/ part = "path" /\ BorderInit /\ Rests("native") /\ Rests("startup")

Native(A) == part = "native" /\ A /\ UNCHANGED <<part, startup, border>>
Starts(A) == part = "startup" /\ A /\ UNCHANGED <<part, allvars, border>>
Border(A) == part = "path" /\ A /\ UNCHANGED <<part, allvars, startup>>

MCNext == Native(LaunchNext) \/ Starts(StartupNext) \/ Border(BorderNext)

MCSpec ==
  /\ MCInit /\ [][MCNext]_all
  /\ WF_all(Native(Launch)) /\ WF_all(Native(HelperRuns))
  /\ WF_all(Starts(Main)) /\ WF_all(Starts(Pass))
=============================================================================
