SPECIFICATION StatementSpec
CONSTANTS
  Texts <- MCTexts
  Likes <- MCLikes
  Schema <- MCSchema
  Databases <- MCDatabases
  IndexSets <- MCIndexSets
  Queries <- MCQueries
  Junk = {0, 2}
INVARIANT RewriteSound
INVARIANT StatementsMatch
INVARIANT CrashesNamed
CHECK_DEADLOCK FALSE
