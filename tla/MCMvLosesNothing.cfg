\* A vnode takes 4 units, a child pointer 1, a file buffer starts with 2;
\* after vfs_init the heap has room for three or four more objects.
CONSTANTS
  Align = 2
  HeapSize = 32
  NodeSize = 4
  PtrSize = 1
  ChildCap0 = 2
  FileCap0 = 2
  Paths <- MCPaths
  Inputs <- MCInputs
  Contents <- MCContents
  Message <- MCMessage
  Scratch = {6}
VIEW View
SPECIFICATION Spec
PROPERTY MvLosesNothing
