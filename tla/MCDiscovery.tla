---------------------------- MODULE MCDiscovery ----------------------------
(***************************************************************************)
(* Address spaces with a folder besides ObjectsFolder, three objects and   *)
(* three variables, one more of each than the tables hold: trees, aliases, *)
(* and cycles through objects and folders.                                 *)
(***************************************************************************)
EXTENDS Discovery

CONSTANTS root, folder, obj1, obj2, obj3, var1, var2, var3, server

MCSpaces ==
    {(root :> atRoot) @@ (folder :> inFolder) @@ (obj1 :> of1) @@ (obj2 :> of2) @@ (obj3 :> of3) :
        atRoot   \in {<<obj1, obj2>>, <<folder, obj1>>, <<obj1, folder>>, <<server, obj1, var1>>},
        inFolder \in {<<>>, <<obj2>>, <<root>>, <<var1, obj2>>},
        of1      \in {<<var1>>, <<obj2, var2, var3>>, <<folder>>, <<obj2, obj1>>, <<folder, obj2>>},
        of2      \in {<<>>, <<var1, var2>>, <<obj1>>, <<obj3, var1>>, <<folder>>},
        of3      \in {<<var2>>, <<folder>>}}
=============================================================================
