---------------------------- MODULE MCSiteBuild ----------------------------
(***************************************************************************)
(* Small sites: two content files, a content template, an aggregate          *)
(* template and a partial.                                                   *)
(***************************************************************************)
EXTENDS SiteBuild

MCSources == {"s1", "s2"}
MCDrafts == {"draft"}
MCAssetLinkers == {"image"}

(* A body with an explicit slug has its page at one path; others follow the *)
(* name of their file.                                                      *)
MCOutOf ==
  [s \in MCSources |-> [b \in Bodies |->
     CASE b \in {"slug", "slugLink"} -> b
       [] s = "s1" -> "p1"
       [] OTHER -> "p2"]]

MCLinkOf == [b \in Bodies |-> IF b \in {"link", "slugLink"} THEN "s2" ELSE None]

MCTemplates == {"index", "page", "partial"}
MCTemplateOrder == <<"index", "page", "partial">>
MCTemplateBodies == {"text", "list", "include"}
MCListReaders == {"list"}
MCIncluders == {"include"}

File(stamp, body) == [stamp |-> stamp, body |-> body]

MCFirstStamps == 101..105

Site(b1, b2, index, page, partial) ==
  [source |-> [s \in MCSources |-> IF s = "s1" THEN File(101, b1) ELSE File(102, b2)],
   template |-> [t \in MCTemplates |->
      CASE t = "index" -> File(103, index)
        [] t = "page" -> File(104, page)
        [] OTHER -> File(105, partial)]]

AllModes == [forced : BOOLEAN, dry : BOOLEAN]
Plain == [forced |-> FALSE, dry |-> FALSE]
RealModes == {Plain}

(* Bodies. *)
PathBodies == {"text", "link", "draft", "image"}
SlugBodies == {"slugLink", "slug", "text", "draft"}
AllBodies == PathBodies \cup SlugBodies

(* First sites. *)
LinkStarts == {Site("link", "text", "list", "text", "text")}
SlugStarts == {Site("slugLink", "slug", "list", "text", "text")}
DryStarts == {Site("link", "image", "list", "include", "list")} \cup SlugStarts
\* With AllowCut = TRUE and one edit of a template, BuildCorrect does not hold (README.md).
CutStarts == {Site("text", "text", "list", "include", "text")}
\* Nor does it with the edits of templates alone where the partial is not there yet.
PartialStarts == {[start EXCEPT !.template["partial"] = None] : start \in CutStarts}

=============================================================================
