------------------------------ MODULE BackOffice ------------------------------
(***************************************************************************)
(* What the parts of the back office promise together: those that bring a  *)
(* system into service, those that manifests and administrators both       *)
(* write, and those whose editors write over each other.                   *)
(***************************************************************************)
EXTENDS Migrations, SystemSetup, MenuTree, MetadataCatalog, NotificationTemplates,
        SystemSettings

-----------------------------------------------------------------------------
(* Properties.                                                              *)

\* A system is migrated and set up once, however many processes try.
DeploymentIsSound == HistoryIsTrue /\ SetupIsAtomic

\* Menus and the catalogue of permissions come from manifests and
\* administrators both, and are whole after either.
MetadataIsSound == MenusAreSound /\ CatalogIsSound

\* Editors who write over each other leave rows that are as somebody meant them.
EditsAreSound == TemplatesAreSound /\ SettingsAreSound
=============================================================================
