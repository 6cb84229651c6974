---------------------------- MODULE MCGenerator -----------------------------
(***************************************************************************)
(* Names: "category" and "categorie" have one plural, "note_1" and "note1" *)
(* one class, "page" and "task" clash with what the repository ships, and  *)
(* "owner" with a parameter of the templates.                              *)
(***************************************************************************)
EXTENDS Generator, TLC

MCPlural ==
    "category" :> "categories" @@ "categorie" :> "categories" @@ "note_1" :> "note_1s"
    @@ "note1" :> "note1s" @@ "page" :> "pages" @@ "task" :> "tasks"
    @@ "owner" :> "owners" @@ "class" :> "class"
MCId ==
    "category" :> "category_id" @@ "categorie" :> "categorie_id" @@ "note_1" :> "note_1_id"
    @@ "note1" :> "note1_id" @@ "page" :> "page_id" @@ "task" :> "task_id"
    @@ "owner" :> "owner_id" @@ "class" :> "class_id"
MCClass ==
    "category" :> "Category" @@ "categorie" :> "Categorie" @@ "note_1" :> "Note1"
    @@ "note1" :> "Note1" @@ "page" :> "Page" @@ "task" :> "Task"
    @@ "owner" :> "Owner" @@ "class" :> "Class"
MCModelClass ==
    "category" :> "CategoryModel" @@ "categorie" :> "CategorieModel"
    @@ "note_1" :> "Note1Model" @@ "note1" :> "Note1Model" @@ "page" :> "PageModel"
    @@ "task" :> "TaskModel" @@ "owner" :> "OwnerModel" @@ "class" :> "ClassModel"

PluralOf == [n \in Names |-> MCPlural[n]]
IdOf == [n \in Names |-> MCId[n]]
ClassOf == [n \in Names |-> MCClass[n]]
ModelClassOf == [n \in Names |-> MCModelClass[n]]
Keywords == {"None", "True", "False", "as", "is", "class", "pass"}
ShippedFiles ==
    {<<k, IF k = "integration_test" THEN "tasks" ELSE "task">> :
        k \in {"entity", "port", "model", "repository", "schema", "integration_test"}}
    \cap Paths
AllWords == {"auth", "health", "tasks", "users", "api_router", "rate_limited"}

OnePlural == {"category", "categorie", "class", "task"}
Clashing == {"note_1", "note1", "owner", "page"}
=============================================================================
