SPECIFICATION AppSpec
CONSTANT None = None
CONSTANT Modules <- ModuleTable
CONSTANT Plugins <- PluginTable
CONSTANT Services <- GlobalServices
CONSTANT KeyOf <- Keys
CONSTANT AppCalls <- GetPaths
CONSTANT MaxModules = 3
CONSTANT MaxPlugins = 3
INVARIANT WiredAsDeclared
PROPERTY TagsAreKept
